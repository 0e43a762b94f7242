---------------------- MODULE CdDevice_distinct_proofs ----------------------
(***************************************************************************)
(* Proof that the mirror never lists a profile twice (ProfilesDistinct) in *)
(* every reachable state, for every value of the constants.                *)
(*                                                                         *)
(* ProfilesDistinct is not inductive by itself: the mirror's list is       *)
(* resolved from the daemon's list at bind time and from queued Profiles   *)
(* values later, so both of these must be free of repeats too             *)
(* (DistinctInv).  The daemon keeps its list so because AddProfile refuses *)
(* a held profile and MakeProfileDefault only reorders.                    *)
(***************************************************************************)
EXTENDS CdDevice_mirror_proofs

\* A dictionary whose Profiles value, if any, has no repeats.
DictDistinct(d) == "Profiles" \in DOMAIN d => IsInjective(d["Profiles"])

\* Every Profiles value on the queue q has no repeats.
QueuedDistinct(q) == \A i \in 1..Len(q) : DictDistinct(q[i].changes)

\* What the daemon holds and has sent has no repeats.
RemoteDistinct == IsInjective(rProfiles) /\ QueuedDistinct(queue)

\* The inductive invariant behind ProfilesDistinct.
DistinctInv == TypeOK /\ RemoteDistinct /\ ProfilesDistinct

-----------------------------------------------------------------------------
(* Lists without repeats *)

\* The lists the daemon may start with, or another client may set, have no
\* repeats.
LEMMA ProfileListsDistinct == \A l \in ProfileLists : IsInjective(l)
BY DEF ProfileLists, SetToSeqs, IsInjective

\* Appending a profile the list does not hold keeps it without repeats.
LEMMA AppendDistinct ==
  ASSUME NEW l \in Seq(Profiles), NEW p \in Profiles, IsInjective(l),
         p \notin Range(l)
  PROVE  IsInjective(Append(l, p))
<1>1. /\ Len(Append(l, p)) = Len(l) + 1
      /\ \A i \in 1..Len(l) : Append(l, p)[i] = l[i]
      /\ Append(l, p)[Len(l) + 1] = p
      /\ Len(l) \in Nat
  BY AppendProperties, LenProperties
<1>2. \A i \in 1..Len(l) : l[i] # p
  BY DEF Range
<1>3. DOMAIN Append(l, p) = 1..(Len(l) + 1) /\ DOMAIN l = 1..Len(l)
  BY <1>1, AppendProperties, LenProperties
<1> QED
  BY <1>1, <1>2, <1>3 DEF IsInjective

\* The position MoveToFront takes the profile from.
FrontIndex(l, p) == CHOOSE j \in 1..Len(l) : l[j] = p

\* Where MoveToFront takes each element from.
LEMMA MoveToFrontElems ==
  ASSUME NEW l \in Seq(Profiles), NEW p \in Profiles, p \in Range(l)
  PROVE  /\ FrontIndex(l, p) \in 1..Len(l)
         /\ MoveToFront(l, p) \in Seq(Profiles)
         /\ Len(MoveToFront(l, p)) = Len(l)
         /\ MoveToFront(l, p)[1] = l[FrontIndex(l, p)]
         /\ \A j \in 2..FrontIndex(l, p) : MoveToFront(l, p)[j] = l[j - 1]
         /\ \A j \in (FrontIndex(l, p) + 1)..Len(l) : MoveToFront(l, p)[j] = l[j]
<1> DEFINE i == FrontIndex(l, p)
           A == SubSeq(l, 1, i - 1)
           B == SubSeq(l, i + 1, Len(l))
           X == <<p>> \o A
<1>0. /\ Len(l) \in Nat
      /\ \A j \in 1..Len(l) : l[j] \in Profiles
  BY LenProperties, ElementOfSeq
<1>1. i \in 1..Len(l) /\ l[i] = p
  BY DEF Range, FrontIndex
<1>6. MoveToFront(l, p) = X \o B
  BY DEF MoveToFront, FrontIndex
<1>2. /\ A \in Seq(Profiles) /\ Len(A) = i - 1
      /\ \A j \in 1..(i - 1) : A[j] = l[j]
  BY <1>0, <1>1, SubSeqProperties
<1>3. /\ B \in Seq(Profiles) /\ Len(B) = Len(l) - i
      /\ \A j \in 1..(Len(l) - i) : B[j] = l[i + j]
  BY <1>0, <1>1, SubSeqProperties
<1> HIDE DEF A, B
<1>4. /\ X \in Seq(Profiles)
      /\ Len(X) = i
      /\ X[1] = p
      /\ \A j \in 2..i : X[j] = l[j - 1]
  <2>1. <<p>> \in Seq(Profiles) /\ Len(<<p>>) = 1 /\ <<p>>[1] = p
    OBVIOUS
  <2>2. /\ X \in Seq(Profiles)
        /\ Len(X) = Len(<<p>>) + Len(A)
        /\ \A j \in 1..(Len(<<p>>) + Len(A)) :
              X[j] = IF j <= Len(<<p>>) THEN <<p>>[j] ELSE A[j - Len(<<p>>)]
    BY <2>1, <1>2, ConcatProperties, Zenon DEF X
  <2> HIDE DEF X
  <2> QED
    BY <1>1, <1>2, <2>1, <2>2
<1> HIDE DEF X
<1>5. /\ X \o B \in Seq(Profiles)
      /\ Len(X \o B) = Len(X) + Len(B)
      /\ \A j \in 1..(Len(X) + Len(B)) :
            (X \o B)[j] = IF j <= Len(X) THEN X[j] ELSE B[j - Len(X)]
  BY <1>3, <1>4, ConcatProperties, Zenon
<1>8. i \in Nat /\ Len(X) + Len(B) = Len(l)
  BY <1>0, <1>1, <1>3, <1>4
<1>9. \A j \in 1..Len(l) : (X \o B)[j] = IF j <= i THEN X[j] ELSE B[j - i]
  BY <1>4, <1>5, <1>8
<1>7. /\ Len(X \o B) = Len(l)
      /\ (X \o B)[1] = l[i]
      /\ \A j \in 2..i : (X \o B)[j] = l[j - 1]
      /\ \A j \in (i + 1)..Len(l) : (X \o B)[j] = l[j]
  <2>1. Len(X \o B) = Len(l)
    BY <1>5, <1>8
  <2>2. (X \o B)[1] = l[i]
    BY <1>1, <1>4, <1>8, <1>9
  <2>3. \A j \in 2..i : (X \o B)[j] = l[j - 1]
    BY <1>1, <1>4, <1>8, <1>9
  <2>4. \A j \in (i + 1)..Len(l) : (X \o B)[j] = l[j]
    <3> SUFFICES ASSUME NEW j \in (i + 1)..Len(l) PROVE (X \o B)[j] = l[j]
      OBVIOUS
    <3>1. (X \o B)[j] = B[j - i] /\ j - i \in 1..(Len(l) - i)
      BY <1>1, <1>8, <1>9
    <3>2. B[j - i] = l[i + (j - i)]
      BY <3>1, <1>3
    <3> QED
      BY <3>1, <3>2, <1>8
  <2> QED
    BY <2>1, <2>2, <2>3, <2>4
<1> QED
  BY <1>1, <1>5, <1>6, <1>7, Zenon

\* Moving a held profile to the front keeps a list without repeats.
LEMMA MoveToFrontDistinct ==
  ASSUME NEW l \in Seq(Profiles), NEW p \in Profiles, IsInjective(l),
         p \in Range(l)
  PROVE  IsInjective(MoveToFront(l, p))
<1> DEFINE i == FrontIndex(l, p)
           m == MoveToFront(l, p)
           src(j) == IF j = 1 THEN i ELSE IF j <= i THEN j - 1 ELSE j
<1>1. /\ i \in 1..Len(l)
      /\ m \in Seq(Profiles)
      /\ Len(m) = Len(l)
      /\ m[1] = l[i]
      /\ \A j \in 2..i : m[j] = l[j - 1]
      /\ \A j \in (i + 1)..Len(l) : m[j] = l[j]
  BY MoveToFrontElems
<1>2. Len(l) \in Nat /\ DOMAIN l = 1..Len(l) /\ DOMAIN m = 1..Len(l)
  BY <1>1, LenProperties
<1> HIDE DEF i, m
<1>3. \A j \in 1..Len(l) : src(j) \in 1..Len(l) /\ m[j] = l[src(j)]
  BY <1>1, <1>2
<1>4. \A a, b \in 1..Len(l) : src(a) = src(b) => a = b
  BY <1>1
<1>5. \A a, b \in 1..Len(l) : l[src(a)] = l[src(b)] => src(a) = src(b)
  BY <1>2, <1>3 DEF IsInjective
<1>6. IsInjective(m)
  BY <1>2, <1>3, <1>4, <1>5 DEF IsInjective
<1> QED
  BY <1>6 DEF m

\* A resolved list, whole or cut at a failure, keeps a list without repeats.
LEMMA OutcomeDistinct ==
  ASSUME NEW l \in Seq(Profiles), IsInjective(l), NEW r \in ProfilesArrayOutcomes(l)
  PROVE  IsInjective(r.array)
<1>1. CASE r = [ok |-> TRUE, array |-> l]
  BY <1>1
<1>2. CASE \E k \in 1..Len(l) : r = [ok |-> FALSE, array |-> SubSeq(l, 1, k - 1)]
  <2> PICK k \in 1..Len(l) : r = [ok |-> FALSE, array |-> SubSeq(l, 1, k - 1)]
    BY <1>2
  <2>1. /\ Len(l) \in Nat
        /\ \A j \in 1..Len(l) : l[j] \in Profiles
        /\ DOMAIN l = 1..Len(l)
    BY LenProperties, ElementOfSeq
  <2>2. /\ SubSeq(l, 1, k - 1) \in Seq(Profiles)
        /\ Len(SubSeq(l, 1, k - 1)) = k - 1
        /\ \A j \in 1..(k - 1) : SubSeq(l, 1, k - 1)[j] = l[j]
    BY <2>1, SubSeqProperties
  <2>3. DOMAIN SubSeq(l, 1, k - 1) = 1..(k - 1)
    BY <2>2, LenProperties
  <2> QED
    BY <2>1, <2>2, <2>3 DEF IsInjective
<1> QED
  BY <1>1, <1>2 DEF ProfilesArrayOutcomes

-----------------------------------------------------------------------------
(* Dictionaries and queues without repeated profiles *)

\* The empty list, and the empty dictionary of a Changed signal.
LEMMA EmptyDistinct == IsInjective(<<>>) /\ DictDistinct(<<>>)
BY DEF IsInjective, DictDistinct

\* A set-property request names one property.
LEMMA EntryDistinct ==
  ASSUME NEW n, NEW v, n = "Profiles" => IsInjective(v)
  PROVE  DictDistinct(Entry(n, v))
BY DEF DictDistinct, Entry

\* Another client's change sets a list without repeats, if any.
LEMMA ExternalDictsDistinct == \A d \in ExternalDicts : DictDistinct(d)
<1> SUFFICES ASSUME NEW D \in {S \in SUBSET PropNames : Cardinality(S) \in 1..2},
                    NEW vm \in Models, NEW vk \in KindNames, NEW vp \in ProfileLists
             PROVE  DictDistinct([n \in D |-> CASE n = "Model" -> vm
                                              [] n = "Kind" -> vk
                                              [] n = "Profiles" -> vp
                                              [] OTHER -> NoValue])
  BY DEF ExternalDicts
<1>1. IsInjective(vp)
  BY ProfileListsDistinct
<1> QED
  BY <1>1 DEF DictDistinct

\* The queue of a well-typed state is a sequence of messages.
LEMMA QueueIsMessages == TypeOK => queue \in Seq(Message)
<1>1. TypedMessage \subseteq Message
  BY DEF TypedMessage
<1> QED
  BY <1>1, SeqMonotonic DEF TypeOK

\* A daemon change queues its own dictionary and an empty one.
LEMMA AppendDistinctQueue ==
  ASSUME NEW q \in Seq(Message), NEW d \in Dicts, QueuedDistinct(q), DictDistinct(d)
  PROVE  QueuedDistinct(q \o Sent(d))
<1>1. /\ Len(q \o Sent(d)) = Len(q) + 2
      /\ \A i \in 1..Len(q) : (q \o Sent(d))[i] = q[i]
      /\ (q \o Sent(d))[Len(q) + 1] = Sent(d)[1]
      /\ (q \o Sent(d))[Len(q) + 2] = Sent(d)[2]
  BY AppendNewest
<1>2. Sent(d)[1].changes = d /\ Sent(d)[2].changes = <<>>
  BY DEF Sent
<1>3. Len(q) \in Nat
  BY LenProperties
<1> QED
  BY <1>1, <1>2, <1>3, EmptyDistinct DEF QueuedDistinct

\* Dispatching the head leaves the rest of the queue, and the head was one
\* of its dictionaries.
LEMMA TailDistinctQueue ==
  ASSUME NEW q \in Seq(Message), q # <<>>, QueuedDistinct(q)
  PROVE  QueuedDistinct(Tail(q)) /\ DictDistinct(Head(q).changes)
<1>1. /\ Len(q) \in Nat \ {0}
      /\ Len(Tail(q)) = Len(q) - 1
      /\ \A i \in 1..Len(Tail(q)) : Tail(q)[i] = q[i + 1]
      /\ Head(q) = q[1]
  BY HeadTailProperties, LenProperties, EmptySeq
<1> QED
  BY <1>1 DEF QueuedDistinct


-----------------------------------------------------------------------------
(* Preservation, action by action *)

\* The daemon takes a list without repeats, if any, and queues it.
LEMMA DaemonChangeDistinct ==
  ASSUME TypeOK, RemoteDistinct, NEW d, DictOK(d), DictDistinct(d), DaemonChange(d)
  PROVE  RemoteDistinct'
<1>1. queue \in Seq(Message) /\ d \in Dicts
  BY QueueIsMessages DEF DictOK
<1>2. IsInjective(rProfiles')
  BY DEF DaemonChange, DictDistinct, RemoteDistinct
<1>3. QueuedDistinct(queue')
  <2>1. CASE Subscribed
    <3>1. queue' = queue \o Sent(d)
      BY <2>1 DEF DaemonChange, Notify, Sent
    <3> QED
      BY <1>1, <3>1, AppendDistinctQueue DEF RemoteDistinct
  <2>2. CASE ~Subscribed
    BY <2>2 DEF DaemonChange, Notify, RemoteDistinct, QueuedDistinct
  <2> QED
    BY <2>1, <2>2
<1> QED
  BY <1>2, <1>3 DEF RemoteDistinct

\* A remote call changes the daemon only by an accepted request.
LEMMA RemoteCallDistinct ==
  ASSUME TypeOK, RemoteDistinct, NEW acc, NEW d,
         acc => DictOK(d) /\ DictDistinct(d), RemoteCall(acc, d)
  PROVE  RemoteDistinct'
<1>1. CASE acc /\ DaemonChange(d)
  BY <1>1, DaemonChangeDistinct
<1>2. CASE CallError
  BY <1>2 DEF CallError, remoteVars, RemoteDistinct, QueuedDistinct
<1> QED
  BY <1>1, <1>2 DEF RemoteCall

\* Resolving a list without repeats, whole or cut, leaves the mirror so.
LEMMA SetProfilesArrayDistinct ==
  ASSUME NEW l \in Seq(Profiles), IsInjective(l),
         NEW r \in ProfilesArrayOutcomes(l), SetProfilesArray(r)
  PROVE  ProfilesDistinct'
BY OutcomeDistinct DEF SetProfilesArray, ProfilesDistinct

\* Bind resolves the daemon's list and leaves the daemon and the queue alone.
LEMMA BindDistinct ==
  ASSUME TypeOK, RemoteDistinct, ProfilesDistinct, NEW p \in ObjectPaths, Bind(p)
  PROVE  RemoteDistinct' /\ ProfilesDistinct'
<1>1. RemoteDistinct'
  BY DEF Bind, SetObjectPath, remoteVars, deviceVars, RemoteDistinct, QueuedDistinct
<1>2. ProfilesDistinct'
  <2>1. CASE p = DevicePath /\ present /\ proxy' = TRUE
    <3>1. PICK r \in ProfilesArrayOutcomes(rProfiles) : SetProfilesArray(r)
      BY <2>1 DEF Bind, SetObjectPath, TransportError, deviceVars
    <3>2. rProfiles \in Seq(Profiles)
      BY DEF TypeOK, ProfileSeqs
    <3> QED
      BY <3>1, <3>2, SetProfilesArrayDistinct DEF RemoteDistinct
  <2>2. CASE ~(p = DevicePath /\ present /\ proxy' = TRUE)
    BY <2>2 DEF Bind, SetObjectPath, deviceVars, ProfilesDistinct
  <2> QED
    BY <2>1, <2>2
<1> QED
  BY <1>1, <1>2

\* Dispatching a PropertiesChanged resolves a queued list without repeats.
LEMMA DispatchDistinct ==
  ASSUME TypeOK, RemoteDistinct, ProfilesDistinct, Dispatch
  PROVE  RemoteDistinct' /\ ProfilesDistinct'
<1>1. queue \in Seq(Message) /\ queue # <<>> /\ queue' = Tail(queue)
  BY QueueIsMessages DEF Dispatch
<1>2. QueuedDistinct(queue') /\ DictDistinct(Head(queue).changes)
  BY <1>1, TailDistinctQueue DEF RemoteDistinct
<1>3. RemoteDistinct'
  BY <1>2 DEF Dispatch, remoteVars, RemoteDistinct
<1>4. ProfilesDistinct'
  <2> DEFINE d == Head(queue).changes
  <2>1. CASE /\ connected /\ Head(queue).sig = "PropertiesChanged"
             /\ PropertiesChangedCb(d) /\ "Profiles" \in DOMAIN d
    <3>1. PICK r \in ProfilesArrayOutcomes(d["Profiles"]) : SetProfilesArray(r)
      BY <2>1 DEF PropertiesChangedCb
    <3>2. Head(queue) \in TypedMessage
      BY <1>1, HeadTailProperties DEF TypeOK
    <3>3. d["Profiles"] \in Seq(Profiles)
      BY <2>1, <3>2 DEF TypedMessage, DictTyped, PropTypes, ProfileSeqs
    <3>4. IsInjective(d["Profiles"])
      BY <1>2, <2>1 DEF DictDistinct
    <3> QED
      BY <3>1, <3>3, <3>4, SetProfilesArrayDistinct
  <2>2. CASE ~(/\ connected /\ Head(queue).sig = "PropertiesChanged"
               /\ PropertiesChangedCb(d) /\ "Profiles" \in DOMAIN d)
    BY <2>2 DEF Dispatch, PropertiesChangedCb, SignalCb, ProfilesDistinct
  <2> QED
    BY <2>1, <2>2
<1> QED
  BY <1>3, <1>4


\* Every step of Next keeps DistinctInv.
LEMMA DistinctStep == DistinctInv /\ [Next]_vars => DistinctInv'
<1> SUFFICES ASSUME DistinctInv, [Next]_vars PROVE RemoteDistinct' /\ ProfilesDistinct'
  BY TypeOKStep DEF DistinctInv
<1> USE DEF DistinctInv
\* A step that leaves the daemon, the queue and the mirror's list alone.
<1>0. ASSUME UNCHANGED <<rProfiles, queue, profiles>>
      PROVE  RemoteDistinct' /\ ProfilesDistinct'
  BY <1>0 DEF RemoteDistinct, QueuedDistinct, ProfilesDistinct
<1>1. ASSUME NEW p \in ObjectPaths, Bind(p) PROVE RemoteDistinct' /\ ProfilesDistinct'
  BY <1>1, BindDistinct
<1>2. CASE BindRefused
  BY <1>2, <1>0 DEF BindRefused, deviceVars, remoteVars, busVars
<1>3. CASE Dispatch
  BY <1>3, DispatchDistinct
<1>4. ASSUME NEW v \in Models, SetModelSync(v) PROVE RemoteDistinct' /\ ProfilesDistinct'
  <2>1. CASE PreconditionFailed
    BY <1>4, <2>1, <1>0 DEF SetModelSync, PreconditionFailed, deviceVars, remoteVars, busVars
  <2>2. CASE SetPropertySync("Model", v)
    <3>1. DictOK(Entry("Model", v)) /\ DictDistinct(Entry("Model", v))
      BY SingletonDictOK, EntryDistinct DEF PropNames, PropTypes
    <3>2. RemoteDistinct'
      BY <2>2, <3>1, RemoteCallDistinct DEF SetPropertySync
    <3> QED
      BY <1>4, <3>2 DEF SetModelSync, deviceVars, ProfilesDistinct
  <2> QED
    BY <1>4, <2>1, <2>2 DEF SetModelSync
<1>5. ASSUME NEW k \in ClientKinds, SetKindSync(k) PROVE RemoteDistinct' /\ ProfilesDistinct'
  <2>1. CASE PreconditionFailed
    BY <1>5, <2>1, <1>0 DEF SetKindSync, PreconditionFailed, deviceVars, remoteVars, busVars
  <2>2. CASE SetPropertySync("Kind", KindToString(k))
    <3>1. /\ DictOK(Entry("Kind", KindToString(k)))
          /\ DictDistinct(Entry("Kind", KindToString(k)))
      BY SingletonDictOK, EntryDistinct, KindConversionsTyped DEF PropNames, PropTypes
    <3>2. RemoteDistinct'
      BY <2>2, <3>1, RemoteCallDistinct DEF SetPropertySync
    <3> QED
      BY <1>5, <3>2 DEF SetKindSync, deviceVars, ProfilesDistinct
  <2> QED
    BY <1>5, <2>1, <2>2 DEF SetKindSync
<1>6. ASSUME NEW p \in Profiles, AddProfileSync(p) PROVE RemoteDistinct' /\ ProfilesDistinct'
  <2>1. CASE PreconditionFailed
    BY <1>6, <2>1, <1>0 DEF AddProfileSync, PreconditionFailed, deviceVars, remoteVars, busVars
  <2>2. CASE RemoteCall(DeviceReachable /\ p \notin Range(rProfiles),
                        Entry("Profiles", Append(rProfiles, p)))
    <3> DEFINE acc == DeviceReachable /\ p \notin Range(rProfiles)
               d == Entry("Profiles", Append(rProfiles, p))
    <3>1. rProfiles \in Seq(Profiles) /\ IsInjective(rProfiles)
      BY DEF TypeOK, ProfileSeqs, RemoteDistinct
    <3>2. acc => DictOK(d) /\ DictDistinct(d)
      <4>1. "Profiles" \in PropNames /\ Append(rProfiles, p) \in PropTypes["Profiles"]
        BY <3>1, AppendProperties DEF PropNames, PropTypes, ProfileSeqs
      <4>2. acc => IsInjective(Append(rProfiles, p))
        BY <3>1, AppendDistinct
      <4> QED
        BY <4>1, <4>2, SingletonDictOK, EntryDistinct
    <3>3. RemoteDistinct'
      BY <2>2, <3>2, RemoteCallDistinct
    <3> QED
      BY <1>6, <3>3 DEF AddProfileSync, deviceVars, ProfilesDistinct
  <2> QED
    BY <1>6, <2>1, <2>2 DEF AddProfileSync
<1>7. ASSUME NEW p \in Profiles, MakeProfileDefaultSync(p)
      PROVE  RemoteDistinct' /\ ProfilesDistinct'
  <2>1. CASE PreconditionFailed
    BY <1>7, <2>1, <1>0 DEF MakeProfileDefaultSync, PreconditionFailed, deviceVars,
                            remoteVars, busVars
  <2>2. CASE RemoteCall(DeviceReachable /\ p \in Range(rProfiles),
                        Entry("Profiles", MoveToFront(rProfiles, p)))
    <3> DEFINE acc == DeviceReachable /\ p \in Range(rProfiles)
               d == Entry("Profiles", MoveToFront(rProfiles, p))
    <3>1. rProfiles \in Seq(Profiles) /\ IsInjective(rProfiles)
      BY DEF TypeOK, ProfileSeqs, RemoteDistinct
    <3>2. acc => DictOK(d) /\ DictDistinct(d)
      <4>1. acc => /\ "Profiles" \in PropNames
                   /\ MoveToFront(rProfiles, p) \in PropTypes["Profiles"]
        BY <3>1, MoveToFrontTyped DEF PropNames, PropTypes, ProfileSeqs
      <4>2. acc => IsInjective(MoveToFront(rProfiles, p))
        BY <3>1, MoveToFrontDistinct
      <4> QED
        BY <4>1, <4>2, SingletonDictOK, EntryDistinct
    <3>3. RemoteDistinct'
      BY <2>2, <3>2, RemoteCallDistinct
    <3> QED
      BY <1>7, <3>3 DEF MakeProfileDefaultSync, deviceVars, ProfilesDistinct
  <2> QED
    BY <1>7, <2>1, <2>2 DEF MakeProfileDefaultSync
<1>8. CASE GetProfileForQualifierSync
  BY <1>8, <1>0 DEF GetProfileForQualifierSync, PreconditionFailed, CallError,
                    deviceVars, remoteVars, busVars
<1>9. CASE ExternalChange
  <2>1. PICK d \in ExternalDicts : DaemonChange(d)
    BY <1>9 DEF ExternalChange
  <2>2. RemoteDistinct'
    BY <2>1, ExternalDictsOK, ExternalDictsDistinct, DaemonChangeDistinct
  <2> QED
    BY <1>9, <2>2 DEF ExternalChange, deviceVars, ProfilesDistinct
<1>10. CASE RemoveDevice
  BY <1>10, <1>0 DEF RemoveDevice, deviceVars, busVars
<1>11. ASSUME DeviceReset, queue' = <<>>, UNCHANGED remoteVars
       PROVE  RemoteDistinct' /\ ProfilesDistinct'
  BY <1>11, EmptyDistinct DEF DeviceReset, remoteVars, RemoteDistinct, QueuedDistinct,
                              ProfilesDistinct
<1>12. CASE Finalize
  BY <1>12, <1>11 DEF Finalize
<1>13. CASE Restart
  BY <1>13, <1>11 DEF Restart
<1>14. CASE UNCHANGED vars
  BY <1>14, <1>0 DEF vars, deviceVars, remoteVars, busVars
<1> QED
  BY <1>1, <1>2, <1>3, <1>4, <1>5, <1>6, <1>7, <1>8, <1>9, <1>10, <1>12, <1>13, <1>14
     DEF Next

\* A new object lists nothing, and the daemon starts from a list without
\* repeats with nothing queued.
LEMMA DistinctInit == Init => DistinctInv
<1> SUFFICES ASSUME Init PROVE DistinctInv
  OBVIOUS
<1>1. RemoteDistinct
  BY ProfileListsDistinct DEF Init, RemoteDistinct, QueuedDistinct
<1>2. ProfilesDistinct
  BY EmptyDistinct DEF Init, DeviceNew, ProfilesDistinct
<1> QED
  BY <1>1, <1>2, TypeOKInit DEF DistinctInv

(***************************************************************************)
(* The mirror never lists a profile twice: the lists it resolves, at bind  *)
(* time from the daemon and later from PropertiesChanged, have no repeats, *)
(* because AddProfile refuses a held profile and MakeProfileDefault only   *)
(* reorders, and each resolution replaces the array.  DistinctInv is       *)
(* inductive.                                                              *)
(***************************************************************************)
THEOREM ProfilesDistinctHolds == Spec => []ProfilesDistinct
<1>1. Init => DistinctInv
  BY DistinctInit
<1>2. DistinctInv /\ [Next]_vars => DistinctInv'
  BY DistinctStep
<1>3. DistinctInv => ProfilesDistinct
  BY DEF DistinctInv
<1> QED
  BY <1>1, <1>2, <1>3, PTL DEF Spec

=============================================================================
