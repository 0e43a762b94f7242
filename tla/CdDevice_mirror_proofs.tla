------------------------ MODULE CdDevice_mirror_proofs ------------------------
(***************************************************************************)
(* Proof that the mirror converges (MirrorConverges) in every reachable    *)
(* state, for every value of the constants.                                *)
(*                                                                         *)
(* MirrorConverges is not inductive by itself: a daemon change must reach  *)
(* the queue of a connected object, which holds because a connected object *)
(* is subscribed; a bind must start from an empty queue, which holds       *)
(* because an object without a proxy receives nothing; and a dispatched    *)
(* Changed signal must not carry property values.  These are QueueFacts.   *)
(***************************************************************************)
EXTENDS CdDevice_proofs

\* The signals queued for an object, and where they come from.
QueueFacts ==
    /\ ~proxy => ~connected /\ queue = <<>>
    /\ connected => proxy /\ ~crashed /\ objectPath = DevicePath
    /\ \A i \in 1..Len(queue) :
          queue[i].sig # "PropertiesChanged" => DOMAIN queue[i].changes = {}

\* The inductive invariant behind MirrorConverges.
MirrorInv == TypeOK /\ QueueFacts /\ MirrorConverges

-----------------------------------------------------------------------------
(* The newest pending change of a property, on any queue *)

\* PendingIndices and NewestPending of a queue q.
Pend(q, n) == {i \in 1..Len(q) : n \in DOMAIN q[i].changes}
Newest(q, n) == {i \in Pend(q, n) : \A j \in Pend(q, n) : j <= i}

\* The two signals a daemon change sends.
Sent(d) == << [sig |-> "PropertiesChanged", changes |-> d],
              [sig |-> "Changed", changes |-> <<>>] >>

\* The signals of a daemon change are messages.
LEMMA SentIsSeq ==
  ASSUME NEW d \in Dicts
  PROVE  Sent(d) \in Seq(Message) /\ Len(Sent(d)) = 2
<1>1. <<>> \in Dicts
  <2>1. <<>> \in [{} -> PropValues]
    OBVIOUS
  <2> QED
    BY <2>1 DEF Dicts
<1>2. Sent(d)[1] \in Message /\ Sent(d)[2] \in Message
  BY <1>1 DEF Sent, Message, Signals
<1> QED
  BY <1>2 DEF Sent

\* Appending a daemon change's signals makes it the newest change of each
\* of its properties and leaves the other properties' changes alone.
LEMMA AppendNewest ==
  ASSUME NEW q \in Seq(Message), NEW d \in Dicts, NEW n
  PROVE  /\ q \o Sent(d) \in Seq(Message)
         /\ Len(q \o Sent(d)) = Len(q) + 2
         /\ \A i \in 1..Len(q) : (q \o Sent(d))[i] = q[i]
         /\ (q \o Sent(d))[Len(q) + 1] = Sent(d)[1]
         /\ (q \o Sent(d))[Len(q) + 2] = Sent(d)[2]
         /\ n \in DOMAIN d => Newest(q \o Sent(d), n) = {Len(q) + 1}
         /\ n \notin DOMAIN d => /\ Pend(q \o Sent(d), n) = Pend(q, n)
                                 /\ Newest(q \o Sent(d), n) = Newest(q, n)
<1> DEFINE q2 == q \o Sent(d)
<1>1. Len(q) \in Nat /\ Sent(d) \in Seq(Message) /\ Len(Sent(d)) = 2
  BY SentIsSeq, LenProperties
<1>2. DOMAIN Sent(d)[2].changes = {} /\ Sent(d)[1].changes = d
  BY DEF Sent
<1> HIDE DEF Sent
<1>3. /\ q2 \in Seq(Message)
      /\ Len(q2) = Len(q) + 2
      /\ \A i \in 1..Len(q) + 2 : q2[i] = IF i <= Len(q) THEN q[i] ELSE Sent(d)[i - Len(q)]
  <2>1. /\ q \o Sent(d) \in Seq(Message)
        /\ Len(q \o Sent(d)) = Len(q) + Len(Sent(d))
        /\ \A i \in 1 .. Len(q) + Len(Sent(d)) :
              (q \o Sent(d))[i] = IF i <= Len(q) THEN q[i] ELSE Sent(d)[i - Len(q)]
    BY <1>1, ConcatProperties, Zenon
  <2> QED
    BY <1>1, <2>1
<1>4. /\ \A i \in 1..Len(q) : q2[i] = q[i]
      /\ q2[Len(q) + 1] = Sent(d)[1]
      /\ q2[Len(q) + 2] = Sent(d)[2]
  BY <1>1, <1>3
<1>5. Pend(q2, n) = Pend(q, n) \cup (IF n \in DOMAIN d THEN {Len(q) + 1} ELSE {})
  BY <1>1, <1>2, <1>3, <1>4 DEF Pend
<1>6. Pend(q, n) \subseteq 1..Len(q)
  BY DEF Pend
<1>7. ASSUME n \in DOMAIN d PROVE Newest(q2, n) = {Len(q) + 1}
  <2>1. Pend(q2, n) = Pend(q, n) \cup {Len(q) + 1}
    BY <1>5, <1>7
  <2>2. \A j \in Pend(q2, n) : j <= Len(q) + 1
    BY <2>1, <1>6, <1>1
  <2>3. \A i \in Pend(q, n) : ~(Len(q) + 1 <= i)
    BY <1>6, <1>1
  <2> HIDE DEF q2
  <2> QED
    BY <2>1, <2>2, <2>3 DEF Newest
<1>8. ASSUME n \notin DOMAIN d PROVE Newest(q2, n) = Newest(q, n)
  BY <1>5, <1>8 DEF Newest
<1> QED
  BY <1>3, <1>4, <1>5, <1>7, <1>8

\* Dispatching the oldest signal: the newest change of a property stays the
\* newest, one place earlier; a change in the dispatched signal with none
\* after it was the newest.
LEMMA TailNewest ==
  ASSUME NEW q \in Seq(Message), q # <<>>, NEW n
  PROVE  /\ Tail(q) \in Seq(Message)
         /\ Len(Tail(q)) = Len(q) - 1
         /\ \A i \in 1..Len(Tail(q)) : Tail(q)[i] = q[i + 1]
         /\ \A i \in Newest(Tail(q), n) : i + 1 \in Newest(q, n)
         /\ Pend(Tail(q), n) = {} /\ n \in DOMAIN q[1].changes => 1 \in Newest(q, n)
         /\ Pend(Tail(q), n) = {} /\ n \notin DOMAIN q[1].changes => Pend(q, n) = {}
<1>1. /\ Len(q) \in Nat \ {0}
      /\ Tail(q) \in Seq(Message)
      /\ Len(Tail(q)) = Len(q) - 1
      /\ \A i \in 1..Len(Tail(q)) : Tail(q)[i] = q[i + 1]
  BY HeadTailProperties, LenProperties, EmptySeq
<1>2. Pend(q, n) = {i + 1 : i \in Pend(Tail(q), n)}
                   \cup (IF n \in DOMAIN q[1].changes THEN {1} ELSE {})
  BY <1>1 DEF Pend
<1>3. Pend(Tail(q), n) \subseteq 1..Len(Tail(q))
  BY DEF Pend
<1>4. \A i \in Newest(Tail(q), n) : i + 1 \in Newest(q, n)
  BY <1>1, <1>2, <1>3 DEF Newest
<1>5. Pend(Tail(q), n) = {} /\ n \in DOMAIN q[1].changes => 1 \in Newest(q, n)
  BY <1>1, <1>2 DEF Newest
<1>6. Pend(Tail(q), n) = {} /\ n \notin DOMAIN q[1].changes => Pend(q, n) = {}
  BY <1>2
<1> QED
  BY <1>1, <1>4, <1>5, <1>6

-----------------------------------------------------------------------------
(* The parts of MirrorConverges *)

\* The newest queued change of each mirrored property is the daemon's value.
NewestCarriesRemote ==
    \A n \in DOMAIN RemoteValue : \A i \in Newest(queue, n) :
        queue[i].changes[n] = RemoteValue[n]

\* A property with no change queued holds the daemon's value.
ModelSettled == Pend(queue, "Model") = {} => model = rModel
KindSettled == Pend(queue, "Kind") = {} => kind = KindFromString(rKind)
ProfilesSettled ==
    Pend(queue, "Profiles") = {} =>
        /\ IsPrefix(profiles, rProfiles)
        /\ failures = 0 => profiles = rProfiles

LEMMA MirrorConvergesParts ==
  MirrorConverges <=>
    (connected => NewestCarriesRemote /\ ModelSettled /\ KindSettled /\ ProfilesSettled)
BY DEF MirrorConverges, NewestCarriesRemote, ModelSettled, KindSettled, ProfilesSettled,
       PendingIndices, NewestPending, Pend, Newest

LEMMA MirrorConvergesPartsPrimed ==
  MirrorConverges' <=>
    (connected' => NewestCarriesRemote' /\ ModelSettled' /\ KindSettled' /\ ProfilesSettled')
BY DEF MirrorConverges, NewestCarriesRemote, ModelSettled, KindSettled, ProfilesSettled,
       PendingIndices, NewestPending, Pend, Newest

\* The keys of RemoteValue.
LEMMA RemoteKeys == DOMAIN RemoteValue = {"Model", "Kind", "Profiles"}
BY DEF RemoteValue

\* A resolved list is a prefix of the list, the whole list when it succeeded.
LEMMA OutcomePrefix ==
  ASSUME NEW l \in Seq(Profiles), NEW r \in ProfilesArrayOutcomes(l)
  PROVE  /\ IsPrefix(r.array, l)
         /\ r.ok = TRUE => r.array = l
         /\ r.ok # TRUE => r.ok = FALSE
<1>1. CASE r = [ok |-> TRUE, array |-> l]
  <2>1. Len(l) \in Nat /\ SubSeq(l, 1, Len(l)) = SubSeq(l, 1, Len(l))
    BY LenProperties
  <2> QED
    BY <1>1, <2>1 DEF IsPrefix
<1>2. CASE \E k \in 1..Len(l) : r = [ok |-> FALSE, array |-> SubSeq(l, 1, k - 1)]
  <2> PICK k \in 1..Len(l) : r = [ok |-> FALSE, array |-> SubSeq(l, 1, k - 1)]
    BY <1>2
  <2> DEFINE s == SubSeq(l, 1, k - 1)
  <2>1. Len(l) \in Nat /\ s \in Seq(Profiles) /\ Len(s) = k - 1
    BY LenProperties, SubSeqProperties
  <2>2. \A i \in 1..(k - 1) : s[i] = l[i]
    BY <2>1, SubSeqProperties
  <2>3. SubSeq(s, 1, k - 1) = s
    <3>1. SubSeq(s, 1, k - 1) \in Seq(Profiles) /\ Len(SubSeq(s, 1, k - 1)) = k - 1
          /\ \A i \in 1..(k - 1) : SubSeq(s, 1, k - 1)[i] = s[i]
      BY <2>1, SubSeqProperties
    <3> QED
      BY <2>1, <3>1, SeqEqual
  <2>4. SubSeq(l, 1, k - 1) = s
    OBVIOUS
  <2> HIDE DEF s
  <2> QED
    BY <2>1, <2>3, <2>4 DEF IsPrefix
<1> QED
  BY <1>1, <1>2 DEF ProfilesArrayOutcomes

-----------------------------------------------------------------------------
(* Preservation, action by action *)

\* A step that leaves the client object, its queue and the daemon's values
\* alone and fails no resolution that had not failed.
LEMMA QuietStep ==
  ASSUME MirrorInv,
         UNCHANGED <<deviceVars, crashed, rModel, rKind, rProfiles, queue>>,
         failures' = 0 => failures = 0
  PROVE  QueueFacts' /\ MirrorConverges'
<1>1. QueueFacts'
  BY DEF MirrorInv, QueueFacts, deviceVars
<1>2. MirrorConverges'
  BY DEF MirrorInv, MirrorConverges, PendingIndices, NewestPending, RemoteValue, deviceVars
<1> QED
  BY <1>1, <1>2

\* A daemon change reaches the queue of a connected object as its newest
\* change of each property it sets.
LEMMA DaemonChangeMirror ==
  ASSUME MirrorInv, NEW d, DictOK(d), DaemonChange(d),
         UNCHANGED <<deviceVars, crashed>>,
         failures' = 0 => failures = 0
  PROVE  QueueFacts' /\ MirrorConverges'
<1>0. queue \in Seq(Message) /\ d \in Dicts
  BY DEF MirrorInv, TypeOK, TypedMessage, DictOK
<1>1. \A n \in {"Model", "Kind", "Profiles"} :
        RemoteValue'[n] = IF n \in DOMAIN d THEN d[n] ELSE RemoteValue[n]
  BY DEF DaemonChange, RemoteValue
<1>2. CASE Subscribed
  <2>1. queue' = queue \o Sent(d)
    BY <1>2 DEF DaemonChange, Notify, Sent
  <2>2. \A n : /\ queue' \in Seq(Message)
               /\ Len(queue') = Len(queue) + 2
               /\ \A i \in 1..Len(queue) : queue'[i] = queue[i]
               /\ queue'[Len(queue) + 1] = Sent(d)[1]
               /\ queue'[Len(queue) + 2] = Sent(d)[2]
               /\ n \in DOMAIN d => Newest(queue', n) = {Len(queue) + 1}
               /\ n \notin DOMAIN d => /\ Pend(queue', n) = Pend(queue, n)
                                       /\ Newest(queue', n) = Newest(queue, n)
    BY <1>0, <2>1, AppendNewest
  <2>3. Sent(d)[1].sig = "PropertiesChanged" /\ Sent(d)[1].changes = d
        /\ DOMAIN Sent(d)[2].changes = {}
    BY DEF Sent
  <2>4. Len(queue) \in Nat
    BY <1>0, LenProperties
  <2>5. QueueFacts'
    <3>1. \A i \in 1..Len(queue') :
            queue'[i].sig # "PropertiesChanged" => DOMAIN queue'[i].changes = {}
      <4> SUFFICES ASSUME NEW i \in 1..Len(queue'),
                          queue'[i].sig # "PropertiesChanged"
                   PROVE  DOMAIN queue'[i].changes = {}
        OBVIOUS
      <4>1. CASE i \in 1..Len(queue)
        BY <2>2, <4>1 DEF MirrorInv, QueueFacts
      <4>2. CASE i = Len(queue) + 1
        BY <2>2, <2>3, <4>2
      <4>3. CASE i = Len(queue) + 2
        BY <2>2, <2>3, <4>3
      <4> QED
        BY <2>2, <2>4, <4>1, <4>2, <4>3
    <3> QED
      BY <1>2, <3>1 DEF QueueFacts, Subscribed, DaemonChange, deviceVars
  <2>6. ASSUME connected PROVE NewestCarriesRemote'
    <3> SUFFICES ASSUME NEW n \in DOMAIN RemoteValue, NEW i \in Newest(queue', n)
                 PROVE  queue'[i].changes[n] = RemoteValue'[n]
      BY DEF NewestCarriesRemote, RemoteValue
    <3>1. n \in {"Model", "Kind", "Profiles"}
      BY RemoteKeys
    <3>2. CASE n \in DOMAIN d
      BY <1>1, <2>2, <2>3, <3>1, <3>2
    <3>3. CASE n \notin DOMAIN d
      <4>1. i \in Newest(queue, n) /\ i \in 1..Len(queue)
        BY <2>2, <3>3 DEF Newest, Pend
      <4>2. queue[i].changes[n] = RemoteValue[n]
        BY <2>6, <4>1 DEF MirrorInv, MirrorConverges, NewestPending, PendingIndices,
                          Newest, Pend
      <4> QED
        BY <1>1, <2>2, <3>1, <3>3, <4>1, <4>2
    <3> QED
      BY <3>2, <3>3
  <2>7. ASSUME connected PROVE ModelSettled' /\ KindSettled' /\ ProfilesSettled'
    <3>1. ASSUME NEW n \in {"Model", "Kind", "Profiles"}, Pend(queue', n) = {}
          PROVE  n \notin DOMAIN d /\ Pend(queue, n) = {} /\ RemoteValue'[n] = RemoteValue[n]
      <4>1. n \notin DOMAIN d
        BY <2>2, <3>1 DEF Newest
      <4> QED
        BY <1>1, <2>2, <3>1, <4>1
    <3>2. ModelSettled /\ KindSettled /\ ProfilesSettled
      BY <2>7, MirrorConvergesParts DEF MirrorInv
    <3> QED
      BY <3>1, <3>2 DEF ModelSettled, KindSettled, ProfilesSettled, RemoteValue, deviceVars
  <2> QED
    BY <2>5, <2>6, <2>7, MirrorConvergesPartsPrimed DEF deviceVars
<1>3. CASE ~Subscribed
  <2>1. UNCHANGED queue /\ ~connected
    BY <1>3 DEF DaemonChange, Notify, MirrorInv, QueueFacts, Subscribed
  <2> QED
    BY <2>1, MirrorConvergesPartsPrimed DEF MirrorInv, QueueFacts, deviceVars
<1> QED
  BY <1>2, <1>3

\* Dispatching a signal moves the mirror to the values of the newest changes
\* it carries.
LEMMA DispatchMirror ==
  ASSUME MirrorInv, Dispatch
  PROVE  QueueFacts' /\ MirrorConverges'
<1> DEFINE h == queue[1]
<1>0. /\ queue \in Seq(Message) /\ queue # <<>>
      /\ Head(queue) = h
      /\ h \in TypedMessage
      /\ queue' = Tail(queue)
      /\ UNCHANGED <<proxy, connected, objectPath, crashed, rModel, rKind, rProfiles>>
  <2>1. queue \in Seq(TypedMessage) /\ queue # <<>> /\ queue' = Tail(queue)
    BY DEF Dispatch, MirrorInv, TypeOK
  <2>2. Head(queue) \in TypedMessage /\ Head(queue) = h
    BY <2>1, HeadTailProperties
  <2>3. queue \in Seq(Message)
    <3>1. TypedMessage \subseteq Message
      BY DEF TypedMessage
    <3> QED
      BY <2>1, <3>1, LenProperties, IsASeq
  <2>4. UNCHANGED <<proxy, connected, objectPath, crashed, rModel, rKind, rProfiles>>
    BY DEF Dispatch, remoteVars
  <2> QED
    BY <2>1, <2>2, <2>3, <2>4
<1>1. \A n : /\ queue' \in Seq(Message)
             /\ Len(queue') = Len(queue) - 1
             /\ \A i \in 1..Len(queue') : queue'[i] = queue[i + 1]
             /\ \A i \in Newest(queue', n) : i + 1 \in Newest(queue, n)
             /\ Pend(queue', n) = {} /\ n \in DOMAIN h.changes => 1 \in Newest(queue, n)
             /\ Pend(queue', n) = {} /\ n \notin DOMAIN h.changes => Pend(queue, n) = {}
  BY <1>0, TailNewest
<1>2. QueueFacts'
  <2>1. \A i \in 1..Len(queue') :
          queue'[i].sig # "PropertiesChanged" => DOMAIN queue'[i].changes = {}
    <3> SUFFICES ASSUME NEW i \in 1..Len(queue'), queue'[i].sig # "PropertiesChanged"
                 PROVE  DOMAIN queue'[i].changes = {}
      OBVIOUS
    <3>1. i + 1 \in 1..Len(queue) /\ queue'[i] = queue[i + 1]
      BY <1>0, <1>1, LenProperties
    <3> QED
      BY <3>1 DEF MirrorInv, QueueFacts
  <2> QED
    BY <1>0, <2>1 DEF Dispatch, Subscribed, QueueFacts, MirrorInv
<1>3. ASSUME connected PROVE NewestCarriesRemote'
  <2> SUFFICES ASSUME NEW n \in DOMAIN RemoteValue, NEW i \in Newest(queue', n)
               PROVE  queue'[i].changes[n] = RemoteValue'[n]
    BY DEF NewestCarriesRemote, RemoteValue
  <2>1. i + 1 \in Newest(queue, n) /\ i \in 1..Len(queue')
    BY <1>1 DEF Newest, Pend
  <2>2. queue[i + 1].changes[n] = RemoteValue[n]
    BY <1>3, <2>1 DEF MirrorInv, MirrorConverges, NewestPending, PendingIndices, Newest, Pend
  <2> QED
    BY <1>0, <1>1, <2>1, <2>2 DEF RemoteValue
\* A property the dispatched signal changes, with no change after it.
<1>4. ASSUME connected, NEW n \in DOMAIN RemoteValue, n \in DOMAIN h.changes
      PROVE  /\ h.sig = "PropertiesChanged"
             /\ Pend(queue', n) = {} => h.changes[n] = RemoteValue[n]
  <2>1. 1 \in 1..Len(queue)
    BY <1>0, LenProperties, EmptySeq
  <2>2. h.sig = "PropertiesChanged"
    BY <1>4, <2>1 DEF MirrorInv, QueueFacts
  <2>3. Pend(queue', n) = {} => 1 \in Newest(queue, n)
    BY <1>1, <1>4
  <2> QED
    BY <1>4, <2>2, <2>3 DEF MirrorInv, MirrorConverges, NewestPending, PendingIndices,
                             Newest, Pend
\* A property the dispatched signal does not change keeps its value.
<1>5. ASSUME connected
      PROVE  /\ "Model" \notin DOMAIN h.changes => model' = model
             /\ "Kind" \notin DOMAIN h.changes => kind' = kind
             /\ "Profiles" \notin DOMAIN h.changes => UNCHANGED <<profiles, failures>>
  BY <1>0, <1>5 DEF Dispatch, PropertiesChangedCb, SignalCb
<1>6. ASSUME connected PROVE ModelSettled'
  <2> SUFFICES ASSUME Pend(queue', "Model") = {} PROVE model' = rModel'
    BY DEF ModelSettled
  <2>1. CASE "Model" \in DOMAIN h.changes
    <3>1. h.sig = "PropertiesChanged" /\ h.changes["Model"] = rModel
      BY <1>4, <1>6, <2>1, RemoteKeys DEF RemoteValue
    <3>2. model' = h.changes["Model"]
      BY <1>0, <1>6, <2>1, <3>1 DEF Dispatch, PropertiesChangedCb
    <3> QED
      BY <1>0, <3>1, <3>2
  <2>2. CASE "Model" \notin DOMAIN h.changes
    BY <1>0, <1>1, <1>5, <1>6, <2>2 DEF MirrorInv, MirrorConverges, PendingIndices, Pend
  <2> QED
    BY <2>1, <2>2
<1>7. ASSUME connected PROVE KindSettled'
  <2> SUFFICES ASSUME Pend(queue', "Kind") = {} PROVE kind' = KindFromString(rKind')
    BY DEF KindSettled
  <2>1. CASE "Kind" \in DOMAIN h.changes
    <3>1. h.sig = "PropertiesChanged" /\ h.changes["Kind"] = rKind
      BY <1>4, <1>7, <2>1, RemoteKeys DEF RemoteValue
    <3>2. kind' = KindFromString(h.changes["Kind"])
      BY <1>0, <1>7, <2>1, <3>1 DEF Dispatch, PropertiesChangedCb
    <3> QED
      BY <1>0, <3>1, <3>2
  <2>2. CASE "Kind" \notin DOMAIN h.changes
    BY <1>0, <1>1, <1>5, <1>7, <2>2 DEF MirrorInv, MirrorConverges, PendingIndices, Pend
  <2> QED
    BY <2>1, <2>2
<1>8. ASSUME connected PROVE ProfilesSettled'
  <2> SUFFICES ASSUME Pend(queue', "Profiles") = {}
               PROVE  /\ IsPrefix(profiles', rProfiles')
                      /\ failures' = 0 => profiles' = rProfiles'
    BY DEF ProfilesSettled
  <2>1. CASE "Profiles" \in DOMAIN h.changes
    <3>1. h.sig = "PropertiesChanged" /\ h.changes["Profiles"] = rProfiles
      BY <1>4, <1>8, <2>1, RemoteKeys DEF RemoteValue
    <3>2. PICK r \in ProfilesArrayOutcomes(rProfiles) : SetProfilesArray(r)
      BY <1>0, <1>8, <2>1, <3>1 DEF Dispatch, PropertiesChangedCb
    <3>3. rProfiles \in Seq(Profiles) /\ failures \in Nat
      BY DEF MirrorInv, TypeOK, ProfileSeqs
    <3>4. /\ IsPrefix(r.array, rProfiles)
          /\ r.ok = TRUE => r.array = rProfiles
          /\ r.ok # TRUE => r.ok = FALSE
      BY <3>3, OutcomePrefix
    <3> QED
      BY <1>0, <3>2, <3>3, <3>4 DEF SetProfilesArray
  <2>2. CASE "Profiles" \notin DOMAIN h.changes
    BY <1>0, <1>1, <1>5, <1>8, <2>2 DEF MirrorInv, MirrorConverges, PendingIndices, Pend
  <2> QED
    BY <2>1, <2>2
<1> QED
  BY <1>0, <1>2, <1>3, <1>6, <1>7, <1>8, MirrorConvergesPartsPrimed


\* A remote call changes the mirror only through the daemon's signals.
LEMMA RemoteCallMirror ==
  ASSUME MirrorInv, NEW acc, NEW d, acc => DictOK(d), RemoteCall(acc, d),
         UNCHANGED <<deviceVars, crashed>>
  PROVE  QueueFacts' /\ MirrorConverges'
<1>0. failures \in Nat
  BY DEF MirrorInv, TypeOK
<1>1. CASE acc /\ DaemonChange(d) /\ UNCHANGED failures
  BY <1>1, DaemonChangeMirror
<1>2. CASE CallError /\ (UNCHANGED failures \/ TransportError)
  BY <1>0, <1>2, QuietStep DEF CallError, TransportError, remoteVars
<1>3. CASE acc /\ TransportError /\ DaemonChange(d)
  BY <1>0, <1>3, DaemonChangeMirror DEF TransportError
<1> QED
  BY <1>1, <1>2, <1>3 DEF RemoteCall

\* Binding starts from an empty queue and reads the daemon's values; the
\* handlers are connected only when every profile resolved.
LEMMA BindMirror ==
  ASSUME MirrorInv, NEW p \in ObjectPaths, Bind(p)
  PROVE  QueueFacts' /\ MirrorConverges'
<1>0. ~proxy /\ ~connected /\ queue = <<>> /\ ~crashed /\ failures \in Nat
  BY DEF Bind, SetObjectPath, MirrorInv, QueueFacts, TypeOK
<1>1. CASE TransportError /\ UNCHANGED <<deviceVars, crashed, remoteVars, queue>>
  BY <1>0, <1>1, QuietStep DEF TransportError, remoteVars
<1>2. CASE /\ proxy' = TRUE /\ objectPath' = p
           /\ p = DevicePath /\ present
           /\ kind' = KindFromString(rKind) /\ model' = rModel
           /\ \E r \in ProfilesArrayOutcomes(rProfiles) :
                 SetProfilesArray(r) /\ connected' = r.ok
           /\ UNCHANGED <<crashed, remoteVars, queue>>
  <2>1. PICK r \in ProfilesArrayOutcomes(rProfiles) :
               SetProfilesArray(r) /\ connected' = r.ok
    BY <1>2
  <2>2. /\ IsPrefix(r.array, rProfiles)
        /\ r.ok = TRUE => r.array = rProfiles
        /\ r.ok # TRUE => r.ok = FALSE
    BY OutcomePrefix DEF MirrorInv, TypeOK, ProfileSeqs
  <2>3. Pend(queue', "Model") = {} /\ Pend(queue', "Kind") = {}
        /\ Pend(queue', "Profiles") = {}
    BY <1>0, <1>2 DEF Pend
  <2>4. NewestCarriesRemote'
    <3>1. DOMAIN RemoteValue' = {"Model", "Kind", "Profiles"}
      BY DEF RemoteValue
    <3> QED
      BY <2>3, <3>1 DEF NewestCarriesRemote, Newest
  <2>5. ModelSettled' /\ KindSettled' /\ ProfilesSettled'
    <3>1. profiles' = r.array /\ IsPrefix(profiles', rProfiles')
      BY <1>2, <2>1, <2>2 DEF SetProfilesArray, remoteVars
    <3>2. failures' = 0 => r.ok = TRUE
      <4>1. failures' = IF r.ok THEN failures ELSE failures + 1
        BY <2>1 DEF SetProfilesArray
      <4> QED
        BY <1>0, <2>2, <4>1
    <3>3. failures' = 0 => profiles' = rProfiles'
      BY <1>2, <2>2, <3>1, <3>2 DEF remoteVars
    <3>4. model' = rModel' /\ kind' = KindFromString(rKind')
      BY <1>2 DEF remoteVars
    <3> QED
      BY <3>1, <3>3, <3>4 DEF ModelSettled, KindSettled, ProfilesSettled
  <2>6. QueueFacts'
    BY <1>0, <1>2, <2>1, <2>2 DEF QueueFacts, remoteVars
  <2> QED
    BY <2>4, <2>5, <2>6, MirrorConvergesPartsPrimed
<1>3. CASE /\ proxy' = TRUE
           /\ crashed' = TRUE
           /\ UNCHANGED <<connected, queue>>
  <2>1. QueueFacts'
    BY <1>0, <1>3 DEF QueueFacts
  <2> QED
    BY <1>0, <1>3, <2>1, MirrorConvergesPartsPrimed
<1> QED
  BY <1>1, <1>2, <1>3 DEF Bind, SetObjectPath, deviceVars, remoteVars

\* A new object has no proxy, no handlers and no signals.
LEMMA ResetMirror ==
  ASSUME DeviceReset, queue' = <<>>
  PROVE  QueueFacts' /\ MirrorConverges'
BY MirrorConvergesPartsPrimed DEF DeviceReset, QueueFacts

\* Every step of Next keeps MirrorInv.
LEMMA MirrorStep == MirrorInv /\ [Next]_vars => MirrorInv'
<1> SUFFICES ASSUME MirrorInv, [Next]_vars PROVE QueueFacts' /\ MirrorConverges'
  BY TypeOKStep DEF MirrorInv
<1> USE DEF MirrorInv
<1>1. ASSUME NEW p \in ObjectPaths, Bind(p) PROVE QueueFacts' /\ MirrorConverges'
  BY <1>1, BindMirror
<1>2. CASE BindRefused
  BY <1>2, QuietStep DEF BindRefused, remoteVars, busVars
<1>3. CASE Dispatch
  BY <1>3, DispatchMirror
<1>4. ASSUME NEW v \in Models, SetModelSync(v) PROVE QueueFacts' /\ MirrorConverges'
  <2>1. CASE PreconditionFailed
    BY <1>4, <2>1, QuietStep DEF SetModelSync, PreconditionFailed, remoteVars, busVars
  <2>2. CASE SetPropertySync("Model", v)
    <3>1. "Model" \in PropNames /\ v \in PropTypes["Model"]
      BY DEF PropNames, PropTypes
    <3> QED
      BY <1>4, <2>2, <3>1, SingletonDictOK, RemoteCallMirror
         DEF SetModelSync, SetPropertySync
  <2> QED
    BY <1>4, <2>1, <2>2 DEF SetModelSync
<1>5. ASSUME NEW k \in ClientKinds, SetKindSync(k) PROVE QueueFacts' /\ MirrorConverges'
  <2>1. CASE PreconditionFailed
    BY <1>5, <2>1, QuietStep DEF SetKindSync, PreconditionFailed, remoteVars, busVars
  <2>2. CASE SetPropertySync("Kind", KindToString(k))
    <3>1. "Kind" \in PropNames /\ KindToString(k) \in PropTypes["Kind"]
      BY KindConversionsTyped DEF PropNames, PropTypes
    <3> QED
      BY <1>5, <2>2, <3>1, SingletonDictOK, RemoteCallMirror
         DEF SetKindSync, SetPropertySync
  <2> QED
    BY <1>5, <2>1, <2>2 DEF SetKindSync
<1>6. ASSUME NEW p \in Profiles, AddProfileSync(p) PROVE QueueFacts' /\ MirrorConverges'
  <2>1. CASE PreconditionFailed
    BY <1>6, <2>1, QuietStep DEF AddProfileSync, PreconditionFailed, remoteVars, busVars
  <2>2. CASE RemoteCall(DeviceReachable /\ p \notin Range(rProfiles),
                        Entry("Profiles", Append(rProfiles, p)))
    <3>1. "Profiles" \in PropNames
          /\ Append(rProfiles, p) \in PropTypes["Profiles"]
      BY AppendProperties DEF PropNames, PropTypes, TypeOK, ProfileSeqs
    <3> QED
      BY <1>6, <2>2, <3>1, SingletonDictOK, RemoteCallMirror DEF AddProfileSync
  <2> QED
    BY <1>6, <2>1, <2>2 DEF AddProfileSync
<1>7. ASSUME NEW p \in Profiles, MakeProfileDefaultSync(p)
      PROVE  QueueFacts' /\ MirrorConverges'
  <2>1. CASE PreconditionFailed
    BY <1>7, <2>1, QuietStep DEF MakeProfileDefaultSync, PreconditionFailed,
                                 remoteVars, busVars
  <2>2. CASE RemoteCall(DeviceReachable /\ p \in Range(rProfiles),
                        Entry("Profiles", MoveToFront(rProfiles, p)))
    <3>1. p \in Range(rProfiles) =>
            /\ "Profiles" \in PropNames
            /\ MoveToFront(rProfiles, p) \in PropTypes["Profiles"]
      BY MoveToFrontTyped DEF PropNames, PropTypes, TypeOK, ProfileSeqs
    <3> QED
      BY <1>7, <2>2, <3>1, SingletonDictOK, RemoteCallMirror DEF MakeProfileDefaultSync
  <2> QED
    BY <1>7, <2>1, <2>2 DEF MakeProfileDefaultSync
<1>8. CASE GetProfileForQualifierSync
  <2>1. failures \in Nat
    BY DEF TypeOK
  <2> QED
    BY <1>8, <2>1, QuietStep
       DEF GetProfileForQualifierSync, PreconditionFailed, CallError, TransportError,
           remoteVars, busVars
<1>9. CASE ExternalChange
  <2>1. PICK d \in ExternalDicts : DaemonChange(d)
    BY <1>9 DEF ExternalChange
  <2> QED
    BY <1>9, <2>1, ExternalDictsOK, DaemonChangeMirror DEF ExternalChange
<1>10. CASE RemoveDevice
  BY <1>10, QuietStep DEF RemoveDevice, busVars
<1>11. CASE Finalize
  BY <1>11, ResetMirror DEF Finalize
<1>12. CASE Restart
  BY <1>12, ResetMirror DEF Restart
<1>13. CASE UNCHANGED vars
  BY <1>13, QuietStep DEF vars, remoteVars, busVars
<1> QED
  BY <1>1, <1>2, <1>3, <1>4, <1>5, <1>6, <1>7, <1>8, <1>9, <1>10, <1>11, <1>12, <1>13
     DEF Next

\* A new object, with nothing queued, holds MirrorInv.
LEMMA MirrorInit == Init => MirrorInv
<1> SUFFICES ASSUME Init PROVE MirrorInv
  OBVIOUS
<1>1. QueueFacts
  BY DEF Init, DeviceNew, QueueFacts
<1>2. MirrorConverges
  BY DEF Init, DeviceNew, MirrorConverges
<1> QED
  BY <1>1, <1>2, TypeOKInit DEF MirrorInv

(***************************************************************************)
(* While its handlers are connected, the object's mirror is where the      *)
(* daemon's changes leave it once the queued signals are dispatched: the   *)
(* newest queued change of each property carries the daemon's value, and a *)
(* property with none queued already holds it (the profile list a prefix,  *)
(* all of it unless a resolution failed).  MirrorInv is inductive.         *)
(***************************************************************************)
THEOREM MirrorConvergence == Spec => []MirrorConverges
<1>1. Init => MirrorInv
  BY MirrorInit
<1>2. MirrorInv /\ [Next]_vars => MirrorInv'
  BY MirrorStep
<1>3. MirrorInv => MirrorConverges
  BY DEF MirrorInv
<1> QED
  BY <1>1, <1>2, <1>3, PTL DEF Spec


=============================================================================
