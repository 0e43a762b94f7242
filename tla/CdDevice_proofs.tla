--------------------------- MODULE CdDevice_proofs ---------------------------
(***************************************************************************)
(* Proofs about CdDevice, for every value of its constants.                *)
(***************************************************************************)
EXTENDS CdDevice, FiniteSetTheorems, SequenceTheorems, TLAPS

-----------------------------------------------------------------------------
(* Lemmas on the data the model is built from *)

\* Every list the daemon may start with is a sequence of profiles.
LEMMA ProfileListsAreSeqs == ProfileLists \subseteq Seq(Profiles)
<1> SUFFICES ASSUME NEW S \in SUBSET Profiles, NEW f \in SetToSeqs(S)
             PROVE  f \in Seq(Profiles)
  BY DEF ProfileLists
<1>1. Cardinality(S) \in Nat
  BY ProfilesAssumption, FS_Subset, FS_CardinalityType
<1>2. f \in [1..Cardinality(S) -> Profiles]
  BY DEF SetToSeqs
<1> QED
  BY <1>1, <1>2

\* Each outcome of resolving a profile list leaves a sequence of profiles.
LEMMA OutcomesTyped ==
  ASSUME NEW l \in Seq(Profiles), NEW r \in ProfilesArrayOutcomes(l)
  PROVE  r.ok \in BOOLEAN /\ r.array \in Seq(Profiles)
<1>1. CASE r = [ok |-> TRUE, array |-> l]
  BY <1>1
<1>2. CASE \E k \in 1..Len(l) : r = [ok |-> FALSE, array |-> SubSeq(l, 1, k - 1)]
  <2> PICK k \in 1..Len(l) : r = [ok |-> FALSE, array |-> SubSeq(l, 1, k - 1)]
    BY <1>2
  <2> QED
    BY SubSeqProperties
<1> QED
  BY <1>1, <1>2 DEF ProfilesArrayOutcomes

\* Moving a held profile to the front leaves a sequence of profiles.
LEMMA MoveToFrontTyped ==
  ASSUME NEW l \in Seq(Profiles), NEW p \in Profiles, p \in Range(l)
  PROVE  MoveToFront(l, p) \in Seq(Profiles)
<1> DEFINE i == CHOOSE j \in 1..Len(l) : l[j] = p
<1>0. /\ Len(l) \in Nat
      /\ \A j \in 1..Len(l) : l[j] \in Profiles
  BY LenProperties, ElementOfSeq
<1>1. i \in 1..Len(l)
  BY DEF Range
<1> HIDE DEF i
<1>2. SubSeq(l, 1, i - 1) \in Seq(Profiles)
  <2>1. /\ i - 1 \in Int
        /\ \A j \in 1..(i - 1) : l[j] \in Profiles
    BY <1>0, <1>1
  <2> QED
    BY <2>1, SubSeqProperties
<1>3. SubSeq(l, i + 1, Len(l)) \in Seq(Profiles)
  <2>1. /\ i + 1 \in Int /\ Len(l) \in Int
        /\ \A j \in (i + 1)..Len(l) : l[j] \in Profiles
    BY <1>0, <1>1
  <2> QED
    BY <2>1, SubSeqProperties
<1> QED
  BY <1>2, <1>3 DEF MoveToFront, i

\* The kind conversions stay within their types.
LEMMA KindConversionsTyped ==
  /\ \A s \in KindNames : KindFromString(s) \in ClientKinds
  /\ \A k \in ClientKinds : KindToString(k) \in KindNames
BY KindAssumption DEF KindFromString, KindToString, ClientKinds

\* A well-typed PropertiesChanged dictionary.
DictOK(d) == d \in Dicts /\ DictTyped(d)

\* A dictionary of one entry of the right type is well typed.
LEMMA SingletonDictOK ==
  ASSUME NEW n \in PropNames, NEW v \in PropTypes[n]
  PROVE  DictOK(Entry(n, v))
<1>1. PropTypes[n] \subseteq PropValues
  BY DEF PropNames, PropTypes, PropValues, ProfileSeqs
<1>2. Entry(n, v) \in [{n} -> PropValues]
  BY <1>1 DEF Entry
<1>3. Entry(n, v) \in Dicts
  BY <1>2 DEF Dicts
<1> QED
  BY <1>3 DEF DictOK, DictTyped, Entry

\* The dictionaries of external changes are well typed.
LEMMA ExternalDictsOK == \A d \in ExternalDicts : DictOK(d)
<1> SUFFICES ASSUME NEW D \in {S \in SUBSET PropNames : Cardinality(S) \in 1..2},
                    NEW vm \in Models, NEW vk \in KindNames, NEW vp \in ProfileLists
             PROVE  DictOK([n \in D |-> CASE n = "Model" -> vm
                                          [] n = "Kind" -> vk
                                          [] n = "Profiles" -> vp
                                          [] OTHER -> NoValue])
  BY DEF ExternalDicts
<1>1. vp \in Seq(Profiles)
  BY ProfileListsAreSeqs
<1> QED
  BY <1>1 DEF DictOK, Dicts, DictTyped, PropNames, PropTypes, PropValues, ProfileSeqs

\* The signals a daemon change queues are well typed.
LEMMA NotifyMessagesTyped ==
  ASSUME NEW d, DictOK(d)
  PROVE  << [sig |-> "PropertiesChanged", changes |-> d],
            [sig |-> "Changed", changes |-> <<>>] >> \in Seq(TypedMessage)
<1>1. <<>> \in Dicts /\ DictTyped(<<>>)
  <2>1. <<>> \in [{} -> PropValues]
    OBVIOUS
  <2> QED
    BY <2>1 DEF Dicts, DictTyped
<1>2. [sig |-> "PropertiesChanged", changes |-> d] \in TypedMessage
  BY DEF DictOK, TypedMessage, Message, Signals
<1>3. [sig |-> "Changed", changes |-> <<>>] \in TypedMessage
  BY <1>1 DEF TypedMessage, Message, Signals
<1> QED
  BY <1>2, <1>3

\* A daemon change keeps the daemon's state and the bus well typed.
LEMMA DaemonChangeTyped ==
  ASSUME TypeOK, NEW d, DictOK(d), DaemonChange(d)
  PROVE  /\ present' \in BOOLEAN
         /\ rModel' \in Models
         /\ rKind' \in KindNames
         /\ rProfiles' \in ProfileSeqs
         /\ queue' \in Seq(TypedMessage)
         /\ sent' \in Nat
         /\ changes' \in 0..MaxChanges
<1>1. \A n \in DOMAIN d : d[n] \in PropTypes[n]
  BY DEF DictOK, DictTyped
<1>2. rModel' \in Models /\ rKind' \in KindNames /\ rProfiles' \in ProfileSeqs
  BY <1>1 DEF DaemonChange, TypeOK, PropTypes
<1>3. queue' \in Seq(TypedMessage) /\ sent' \in Nat
  <2>1. CASE Subscribed
    <3>1. queue' = queue \o << [sig |-> "PropertiesChanged", changes |-> d],
                               [sig |-> "Changed", changes |-> <<>>] >>
      BY <2>1 DEF DaemonChange, Notify
    <3> QED
      BY <2>1, <3>1, NotifyMessagesTyped, ConcatProperties
         DEF DaemonChange, Notify, TypeOK
  <2>2. CASE ~Subscribed
    BY <2>2 DEF DaemonChange, Notify, TypeOK
  <2> QED
    BY <2>1, <2>2
<1> QED
  BY <1>2, <1>3, BoundsAssumption DEF DaemonChange, TypeOK

-----------------------------------------------------------------------------
(* Type correctness *)

\* A remote call keeps TypeOK when the change it asks for is well typed.
LEMMA RemoteCallTyped ==
  ASSUME TypeOK, NEW acc, NEW d, acc => DictOK(d), RemoteCall(acc, d),
         UNCHANGED <<deviceVars, crashed>>
  PROVE  TypeOK'
<1>1. CASE acc /\ DaemonChange(d) /\ result' = "ok" /\ UNCHANGED failures
  BY <1>1, DaemonChangeTyped DEF TypeOK, deviceVars
<1>2. CASE ~acc /\ CallError /\ UNCHANGED failures
  BY <1>2 DEF TypeOK, CallError, deviceVars, remoteVars
<1>3. CASE TransportError /\ CallError
  BY <1>3, BoundsAssumption DEF TypeOK, CallError, TransportError, deviceVars, remoteVars
<1>4. CASE acc /\ TransportError /\ DaemonChange(d) /\ result' = "fail"
  BY <1>4, DaemonChangeTyped, BoundsAssumption DEF TypeOK, TransportError, deviceVars
<1> QED
  BY <1>1, <1>2, <1>3, <1>4 DEF RemoteCall

\* Every step of Next keeps TypeOK.
LEMMA TypeOKStep == TypeOK /\ [Next]_vars => TypeOK'
<1> SUFFICES ASSUME TypeOK, [Next]_vars PROVE TypeOK'
  OBVIOUS
<1>1. ASSUME NEW p \in ObjectPaths, Bind(p) PROVE TypeOK'
  <2>1. CASE TransportError /\ result' = "fail"
             /\ UNCHANGED <<deviceVars, crashed, remoteVars, queue, sent, changes>>
    BY <2>1, BoundsAssumption DEF TypeOK, TransportError, deviceVars, remoteVars
  <2>2. CASE /\ proxy' = TRUE /\ objectPath' = p
             /\ p = DevicePath /\ present
             /\ id' = DeviceIdValue /\ kind' = KindFromString(rKind)
             /\ model' = rModel /\ created' = CreatedValue
             /\ \E r \in ProfilesArrayOutcomes(rProfiles) :
                   /\ SetProfilesArray(r)
                   /\ connected' = r.ok
                   /\ result' = IF r.ok THEN "ok" ELSE "fail"
             /\ UNCHANGED crashed
             /\ UNCHANGED <<changedEmits, remoteVars, queue, sent, changes>>
    <3>1. PICK r \in ProfilesArrayOutcomes(rProfiles) :
                 /\ SetProfilesArray(r)
                 /\ connected' = r.ok
                 /\ result' = IF r.ok THEN "ok" ELSE "fail"
      BY <2>2
    <3>2. r.ok \in BOOLEAN /\ r.array \in Seq(Profiles)
      BY OutcomesTyped DEF TypeOK, ProfileSeqs
    <3>3. kind' \in ClientKinds
      BY <2>2, KindConversionsTyped DEF TypeOK
    <3> QED
      BY <2>2, <3>1, <3>2, <3>3, BoundsAssumption, PathsAssumption
         DEF TypeOK, SetProfilesArray, remoteVars, ProfileSeqs
  <2>3. CASE /\ proxy' = TRUE /\ objectPath' = p
             /\ ~(p = DevicePath /\ present)
             /\ crashed' = TRUE
             /\ UNCHANGED <<id, kind, model, created, profiles, connected,
                            result, failures>>
             /\ UNCHANGED <<changedEmits, remoteVars, queue, sent, changes>>
    BY <2>3 DEF TypeOK, remoteVars
  <2> QED
    BY <1>1, <2>1, <2>2, <2>3 DEF Bind, SetObjectPath
<1>2. CASE BindRefused
  BY <1>2 DEF BindRefused, TypeOK, deviceVars, remoteVars, busVars
<1>3. CASE Dispatch
  <2>1. Head(queue) \in TypedMessage /\ Tail(queue) \in Seq(TypedMessage)
    BY <1>3, HeadTailProperties DEF Dispatch, TypeOK
  <2> DEFINE d == Head(queue).changes
  <2>2. \A n \in DOMAIN d : d[n] \in PropTypes[n]
    BY <2>1 DEF TypedMessage, DictTyped
  <2>3. CASE ~connected /\ UNCHANGED <<model, kind, profiles, failures, changedEmits>>
    BY <1>3, <2>1, <2>3 DEF Dispatch, TypeOK, remoteVars
  <2>4. CASE connected /\ PropertiesChangedCb(d)
    <3>1. model' \in Models \cup {NoValue} /\ kind' \in ClientKinds
      BY <2>2, <2>4, KindConversionsTyped DEF PropertiesChangedCb, PropTypes, TypeOK
    <3>2. profiles' \in ProfileSeqs /\ failures' \in 0..MaxFailures
      <4>1. CASE "Profiles" \in DOMAIN d
        <5>1. d["Profiles"] \in Seq(Profiles)
          BY <2>2, <4>1 DEF PropTypes, ProfileSeqs
        <5>2. PICK r \in ProfilesArrayOutcomes(d["Profiles"]) : SetProfilesArray(r)
          BY <2>4, <4>1 DEF PropertiesChangedCb
        <5>3. r.ok \in BOOLEAN /\ r.array \in Seq(Profiles)
          BY <5>1, OutcomesTyped
        <5> QED
          BY <5>2, <5>3, BoundsAssumption DEF SetProfilesArray, TypeOK, ProfileSeqs
      <4>2. CASE "Profiles" \notin DOMAIN d
        BY <2>4, <4>2 DEF PropertiesChangedCb, TypeOK
      <4> QED
        BY <4>1, <4>2
    <3> QED
      BY <1>3, <2>1, <2>4, <3>1, <3>2 DEF Dispatch, PropertiesChangedCb, TypeOK, remoteVars
  <2>5. CASE connected /\ SignalCb(Head(queue))
    BY <1>3, <2>1, <2>5 DEF Dispatch, SignalCb, TypeOK, remoteVars
  <2> QED
    BY <1>3, <2>3, <2>4, <2>5 DEF Dispatch
<1>4. ASSUME NEW v \in Models, SetModelSync(v) PROVE TypeOK'
  <2>1. CASE PreconditionFailed
    BY <1>4, <2>1 DEF SetModelSync, PreconditionFailed, TypeOK, deviceVars, remoteVars, busVars
  <2>2. CASE SetPropertySync("Model", v)
    <3>1. "Model" \in PropNames /\ v \in PropTypes["Model"]
      BY DEF PropNames, PropTypes
    <3> QED
      BY <1>4, <2>2, <3>1, SingletonDictOK, RemoteCallTyped
         DEF SetModelSync, SetPropertySync
  <2> QED
    BY <1>4, <2>1, <2>2 DEF SetModelSync
<1>5. ASSUME NEW k \in ClientKinds, SetKindSync(k) PROVE TypeOK'
  <2>1. CASE PreconditionFailed
    BY <1>5, <2>1 DEF SetKindSync, PreconditionFailed, TypeOK, deviceVars, remoteVars, busVars
  <2>2. CASE SetPropertySync("Kind", KindToString(k))
    <3>1. "Kind" \in PropNames /\ KindToString(k) \in PropTypes["Kind"]
      BY KindConversionsTyped DEF PropNames, PropTypes
    <3> QED
      BY <1>5, <2>2, <3>1, SingletonDictOK, RemoteCallTyped
         DEF SetKindSync, SetPropertySync
  <2> QED
    BY <1>5, <2>1, <2>2 DEF SetKindSync
<1>6. ASSUME NEW p \in Profiles, AddProfileSync(p) PROVE TypeOK'
  <2>1. CASE PreconditionFailed
    BY <1>6, <2>1 DEF AddProfileSync, PreconditionFailed, TypeOK, deviceVars, remoteVars, busVars
  <2>2. CASE RemoteCall(DeviceReachable /\ p \notin Range(rProfiles),
                        Entry("Profiles", Append(rProfiles, p)))
    <3>1. "Profiles" \in PropNames
          /\ Append(rProfiles, p) \in PropTypes["Profiles"]
      BY AppendProperties DEF PropNames, PropTypes, TypeOK, ProfileSeqs
    <3> QED
      BY <1>6, <2>2, <3>1, SingletonDictOK, RemoteCallTyped DEF AddProfileSync
  <2> QED
    BY <1>6, <2>1, <2>2 DEF AddProfileSync
<1>7. ASSUME NEW p \in Profiles, MakeProfileDefaultSync(p) PROVE TypeOK'
  <2>1. CASE PreconditionFailed
    BY <1>7, <2>1 DEF MakeProfileDefaultSync, PreconditionFailed, TypeOK,
                      deviceVars, remoteVars, busVars
  <2>2. CASE RemoteCall(DeviceReachable /\ p \in Range(rProfiles),
                        Entry("Profiles", MoveToFront(rProfiles, p)))
    <3>1. p \in Range(rProfiles) =>
            /\ "Profiles" \in PropNames
            /\ MoveToFront(rProfiles, p) \in PropTypes["Profiles"]
      BY MoveToFrontTyped DEF PropNames, PropTypes, TypeOK, ProfileSeqs
    <3> QED
      BY <1>7, <2>2, <3>1, SingletonDictOK, RemoteCallTyped DEF MakeProfileDefaultSync
  <2> QED
    BY <1>7, <2>1, <2>2 DEF MakeProfileDefaultSync
<1>8. CASE GetProfileForQualifierSync
  BY <1>8, BoundsAssumption
     DEF GetProfileForQualifierSync, PreconditionFailed, CallError, TransportError,
         TypeOK, deviceVars, remoteVars, busVars
<1>9. CASE ExternalChange
  <2>1. PICK d \in ExternalDicts : DaemonChange(d)
    BY <1>9 DEF ExternalChange
  <2> QED
    BY <1>9, <2>1, ExternalDictsOK, DaemonChangeTyped DEF ExternalChange, TypeOK, deviceVars
<1>10. CASE RemoveDevice
  BY <1>10 DEF RemoveDevice, TypeOK, deviceVars, busVars
<1>11. CASE Finalize
  <2>1. queue' \in Seq(TypedMessage) /\ profiles' \in ProfileSeqs
    BY <1>11, EmptySeq DEF Finalize, DeviceReset, ProfileSeqs
  <2>2. kind' \in ClientKinds
    BY <1>11 DEF Finalize, DeviceReset, ClientKinds
  <2> QED
    BY <1>11, <2>1, <2>2 DEF Finalize, DeviceReset, TypeOK, remoteVars
<1>12. CASE Restart
  <2>1. queue' \in Seq(TypedMessage) /\ profiles' \in ProfileSeqs
    BY <1>12, EmptySeq DEF Restart, DeviceReset, ProfileSeqs
  <2>2. kind' \in ClientKinds
    BY <1>12 DEF Restart, DeviceReset, ClientKinds
  <2> QED
    BY <1>12, <2>1, <2>2 DEF Restart, DeviceReset, TypeOK, remoteVars
<1>13. CASE UNCHANGED vars
  BY <1>13 DEF vars, TypeOK, deviceVars, remoteVars, busVars
<1> QED
  BY <1>1, <1>2, <1>3, <1>4, <1>5, <1>6, <1>7, <1>8, <1>9, <1>10, <1>11, <1>12, <1>13
     DEF Next

\* Every initial state is well typed.
LEMMA TypeOKInit == Init => TypeOK
<1> SUFFICES ASSUME Init PROVE TypeOK
  OBVIOUS
<1>1. rProfiles \in ProfileSeqs
  BY ProfileListsAreSeqs DEF Init, ProfileSeqs
<1>2. queue \in Seq(TypedMessage) /\ profiles \in ProfileSeqs
  BY EmptySeq DEF Init, DeviceNew, ProfileSeqs
<1>3. changes \in 0..MaxChanges /\ failures \in 0..MaxFailures
  BY BoundsAssumption DEF Init
<1>4. kind \in ClientKinds
  BY DEF Init, DeviceNew, ClientKinds
<1> QED
  BY <1>1, <1>2, <1>3, <1>4 DEF Init, DeviceNew, TypeOK

(***************************************************************************)
(* Every reachable state is well typed.  TypeOK is inductive: each action  *)
(* is shown to keep it, the daemon-side changes through DaemonChangeTyped, *)
(* the profile resolutions through OutcomesTyped.                          *)
(***************************************************************************)
THEOREM TypeCorrect == Spec => []TypeOK
<1>1. Init => TypeOK
  BY TypeOKInit
<1>2. TypeOK /\ [Next]_vars => TypeOK'
  BY TypeOKStep
<1> QED
  BY <1>1, <1>2, PTL DEF Spec

-----------------------------------------------------------------------------
(* The lifecycle refinement *)

\* Actions that leave the binding, the path, the id and the creation time
\* alone, and with them the object's lifecycle.
LEMMA LifecycleStutters ==
  ASSUME \/ BindRefused
         \/ Dispatch
         \/ \E v \in Models : SetModelSync(v)
         \/ \E k \in ClientKinds : SetKindSync(k)
         \/ \E p \in Profiles : AddProfileSync(p) \/ MakeProfileDefaultSync(p)
         \/ GetProfileForQualifierSync
         \/ ExternalChange
         \/ RemoveDevice
         \/ UNCHANGED vars
  PROVE  UNCHANGED Lifecycle!avars
BY DEF BindRefused, Dispatch, SetModelSync, SetKindSync, AddProfileSync,
       MakeProfileDefaultSync, GetProfileForQualifierSync, ExternalChange,
       RemoveDevice, vars, deviceVars, Lifecycle!avars, LifecycleState

\* A bind is a bind of the lifecycle, or leaves it alone when the proxy
\* could not be created.
LEMMA BindRefinesLifecycle ==
  ASSUME NEW p \in ObjectPaths, Bind(p)
  PROVE  [Lifecycle!ANext]_Lifecycle!avars
<1>1. CASE TransportError /\ UNCHANGED <<deviceVars, crashed>>
  BY <1>1 DEF deviceVars, Lifecycle!avars, LifecycleState
<1>2. CASE /\ ~proxy /\ ~crashed
           /\ proxy' = TRUE /\ objectPath' = p
           /\ p = DevicePath /\ present
           /\ id' = DeviceIdValue /\ created' = CreatedValue
           /\ \E r \in ProfilesArrayOutcomes(rProfiles) : connected' = r.ok
           /\ UNCHANGED crashed
  <2>1. LifecycleState = "unbound" /\ LifecycleState' \in {"bound", "detached"}
    BY <1>2 DEF LifecycleState
  <2>2. Lifecycle!BindSnapshot
    BY <1>2, <2>1 DEF Lifecycle!BindSnapshot
  <2> QED
    BY <2>2 DEF Lifecycle!ANext
<1>3. CASE /\ ~proxy /\ ~crashed
           /\ proxy' = TRUE /\ objectPath' = p
           /\ crashed' = TRUE
           /\ UNCHANGED <<id, created>>
  <2>1. Lifecycle!BindFatal(p)
    BY <1>3 DEF Lifecycle!BindFatal, LifecycleState
  <2> QED
    BY <2>1 DEF Lifecycle!ANext
<1> QED
  BY <1>1, <1>2, <1>3 DEF Bind, SetObjectPath

(***************************************************************************)
(* The object follows the spec's lifecycle of a snapshot (LifecycleRefined *)
(* under the mapping of crashed, proxy and connected to the four states):  *)
(* the initial object is the empty unbound snapshot, a bind is a bind of   *)
(* the lifecycle, finalize releases and a restart revives, and every other *)
(* step leaves the mapped state alone.                                     *)
(***************************************************************************)
THEOREM LifecycleRefinedHolds == Spec => LifecycleRefined
<1>1. Init => Lifecycle!AInit
  BY DEF Init, DeviceNew, LifecycleState, Lifecycle!AInit
<1>2. [Next]_vars => [Lifecycle!ANext]_Lifecycle!avars
  <2> SUFFICES ASSUME [Next]_vars PROVE [Lifecycle!ANext]_Lifecycle!avars
    OBVIOUS
  <2>1. ASSUME NEW p \in ObjectPaths, Bind(p) PROVE [Lifecycle!ANext]_Lifecycle!avars
    BY <2>1, BindRefinesLifecycle
  <2>2. CASE Finalize
    <3>1. Lifecycle!Release
      BY <2>2 DEF Finalize, DeviceReset, LifecycleState, Lifecycle!Release, Lifecycle!Empty
    <3> QED
      BY <3>1 DEF Lifecycle!ANext
  <2>3. CASE Restart
    <3>1. Lifecycle!Revive
      BY <2>3 DEF Restart, DeviceReset, LifecycleState, Lifecycle!Revive, Lifecycle!Empty
    <3> QED
      BY <3>1 DEF Lifecycle!ANext
  <2>4. CASE \/ BindRefused
             \/ Dispatch
             \/ \E v \in Models : SetModelSync(v)
             \/ \E k \in ClientKinds : SetKindSync(k)
             \/ \E p \in Profiles : AddProfileSync(p) \/ MakeProfileDefaultSync(p)
             \/ GetProfileForQualifierSync
             \/ ExternalChange
             \/ RemoveDevice
             \/ UNCHANGED vars
    BY <2>4, LifecycleStutters
  <2> QED
    BY <2>1, <2>2, <2>3, <2>4 DEF Next
<1> QED
  BY <1>1, <1>2, PTL DEF Spec, LifecycleRefined, Lifecycle!ASpec

=============================================================================
