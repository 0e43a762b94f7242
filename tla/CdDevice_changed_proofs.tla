----------------------- MODULE CdDevice_changed_proofs -----------------------
(***************************************************************************)
(* Proof that no Changed signal is lost or coalesced (ChangedAccounted) in *)
(* every reachable state, for every value of the constants.                *)
(*                                                                         *)
(* ChangedAccounted is not inductive by itself: a bind connects the        *)
(* handlers of an object whose counters must already agree, which holds    *)
(* because an object without a proxy has sent and emitted nothing          *)
(* (NoProxyQuiet).  The queue facts of MirrorInv, already proved, say that *)
(* such an object has an empty queue and that a connected object receives *)
(* every daemon change.                                                    *)
(***************************************************************************)
EXTENDS CdDevice_mirror_proofs

\* An object without a proxy has been sent no Changed and emitted none.
NoProxyQuiet == ~proxy => sent = 0 /\ changedEmits = 0

\* The inductive invariant behind ChangedAccounted.
ChangedInv == MirrorInv /\ NoProxyQuiet /\ ChangedAccounted

-----------------------------------------------------------------------------
(* Counting the queued Changed signals *)

\* The positions of the Changed signals in a queue q.
ChangedAt(q) == {i \in 1..Len(q) : q[i].sig = "Changed"}

LEMMA ChangedPendingDef == ChangedPending = Cardinality(ChangedAt(queue))
BY DEF ChangedPending, ChangedAt

\* The positions are a finite set.
LEMMA ChangedAtFinite ==
  ASSUME NEW q \in Seq(Message)
  PROVE  IsFiniteSet(ChangedAt(q)) /\ Cardinality(ChangedAt(q)) \in Nat
<1>1. IsFiniteSet(1..Len(q))
  BY FS_Interval, LenProperties
<1>2. IsFiniteSet(ChangedAt(q))
  BY <1>1, FS_Subset DEF ChangedAt
<1> QED
  BY <1>2, FS_CardinalityType

\* A daemon change queues one more Changed signal.
LEMMA ChangedAtAppend ==
  ASSUME NEW q \in Seq(Message), NEW d \in Dicts
  PROVE  Cardinality(ChangedAt(q \o Sent(d))) = Cardinality(ChangedAt(q)) + 1
<1> DEFINE q2 == q \o Sent(d)
<1>1. /\ q2 \in Seq(Message)
      /\ Len(q2) = Len(q) + 2
      /\ \A i \in 1..Len(q) : q2[i] = q[i]
      /\ q2[Len(q) + 1] = Sent(d)[1]
      /\ q2[Len(q) + 2] = Sent(d)[2]
  BY AppendNewest
<1>2. Sent(d)[1].sig = "PropertiesChanged" /\ Sent(d)[2].sig = "Changed"
  BY DEF Sent
<1>3. Len(q) \in Nat
  BY LenProperties
<1>4. ChangedAt(q2) = ChangedAt(q) \cup {Len(q) + 2}
  <2>1. 1..Len(q2) = (1..Len(q)) \cup {Len(q) + 1, Len(q) + 2}
    BY <1>1, <1>3
  <2> HIDE DEF q2
  <2>2. ASSUME NEW i \in ChangedAt(q2) PROVE i \in ChangedAt(q) \cup {Len(q) + 2}
    <3>1. i \in 1..Len(q2) /\ q2[i].sig = "Changed"
      BY <2>2 DEF ChangedAt
    <3>2. CASE i \in 1..Len(q)
      BY <1>1, <3>1, <3>2 DEF ChangedAt
    <3>3. CASE i = Len(q) + 1
      BY <1>1, <1>2, <3>1, <3>3
    <3> QED
      BY <2>1, <3>1, <3>2, <3>3
  <2>3. ASSUME NEW i \in ChangedAt(q) \cup {Len(q) + 2} PROVE i \in ChangedAt(q2)
    <3>1. CASE i \in ChangedAt(q)
      BY <1>1, <1>3, <2>1, <3>1 DEF ChangedAt
    <3>2. CASE i = Len(q) + 2
      BY <1>1, <1>2, <2>1, <3>2 DEF ChangedAt
    <3> QED
      BY <2>3, <3>1, <3>2
  <2> QED
    BY <2>2, <2>3
<1>5. Len(q) + 2 \notin ChangedAt(q)
  BY <1>3 DEF ChangedAt
<1>6. Cardinality(ChangedAt(q) \cup {Len(q) + 2}) = Cardinality(ChangedAt(q)) + 1
  BY <1>5, ChangedAtFinite, FS_AddElement
<1> QED
  BY <1>4, <1>6

\* Dispatching the head removes a Changed signal exactly when the head is one.
LEMMA ChangedAtTail ==
  ASSUME NEW q \in Seq(Message), q # <<>>
  PROVE  Cardinality(ChangedAt(q)) =
           Cardinality(ChangedAt(Tail(q))) + (IF q[1].sig = "Changed" THEN 1 ELSE 0)
<1> DEFINE S == ChangedAt(q)
           T == ChangedAt(Tail(q))
           f == [i \in T |-> i + 1]
<1>1. /\ Tail(q) \in Seq(Message)
      /\ Len(Tail(q)) = Len(q) - 1
      /\ \A i \in 1..Len(Tail(q)) : Tail(q)[i] = q[i + 1]
      /\ Len(q) \in Nat \ {0}
  BY HeadTailProperties, LenProperties, EmptySeq
<1>2. f \in Bijection(T, S \ {1})
  <2>1. f \in [T -> S \ {1}]
    BY <1>1 DEF ChangedAt
  <2>2. \A x, y \in T : f[x] = f[y] => x = y
    BY DEF ChangedAt
  <2>3. \A s \in S \ {1} : \E t \in T : f[t] = s
    <3> SUFFICES ASSUME NEW s \in S \ {1} PROVE \E t \in T : f[t] = s
      OBVIOUS
    <3>1. s - 1 \in T
      BY <1>1 DEF ChangedAt
    <3>2. f[s - 1] = s
      BY <3>1 DEF ChangedAt
    <3> QED
      BY <3>1, <3>2
  <2> QED
    BY <2>1, <2>2, <2>3 DEF Bijection, Injection, Surjection, IsInjective
<1>3. IsFiniteSet(T) /\ IsFiniteSet(S)
  BY <1>1, ChangedAtFinite
<1>4. Cardinality(S \ {1}) = Cardinality(T)
  BY <1>2, <1>3, FS_Bijection DEF ExistsBijection
<1>5. CASE q[1].sig = "Changed"
  <2>1. 1 \in S
    BY <1>1, <1>5 DEF ChangedAt
  <2>2. Cardinality(S \ {1}) = Cardinality(S) - 1
    BY <1>3, <2>1, FS_RemoveElement
  <2>3. Cardinality(S) \in Nat /\ Cardinality(T) \in Nat
    BY <1>3, FS_CardinalityType
  <2> QED
    BY <1>4, <1>5, <2>2, <2>3
<1>6. CASE q[1].sig # "Changed"
  <2>1. S \ {1} = S
    BY <1>6 DEF ChangedAt
  <2>2. Cardinality(T) \in Nat
    BY <1>3, FS_CardinalityType
  <2>3. Cardinality(S) = Cardinality(T)
    BY <1>4, <2>1
  <2> QED
    BY <1>6, <2>2, <2>3
<1> QED
  BY <1>5, <1>6

-----------------------------------------------------------------------------
(* Preservation, action by action *)

\* A step that leaves the proxy, the handlers, the queue and both counters
\* alone.
LEMMA CountersUntouched ==
  ASSUME NoProxyQuiet, ChangedAccounted,
         UNCHANGED <<proxy, connected, queue, sent, changedEmits>>
  PROVE  NoProxyQuiet' /\ ChangedAccounted'
BY DEF NoProxyQuiet, ChangedAccounted, ChangedPending

\* A daemon change queues one Changed and counts it as sent, or reaches no
\* proxy at all.
LEMMA DaemonChangeCounted ==
  ASSUME MirrorInv, NoProxyQuiet, ChangedAccounted, NEW d, DictOK(d),
         DaemonChange(d), UNCHANGED deviceVars
  PROVE  NoProxyQuiet' /\ ChangedAccounted'
<1>1. CASE Subscribed
  <2>1. queue' = queue \o Sent(d) /\ sent' = sent + 1
    BY <1>1 DEF DaemonChange, Notify, Sent
  <2>2. queue \in Seq(Message) /\ d \in Dicts /\ sent \in Nat
    BY DEF MirrorInv, TypeOK, TypedMessage, DictOK
  <2>3. Cardinality(ChangedAt(queue')) = Cardinality(ChangedAt(queue)) + 1
        /\ Cardinality(ChangedAt(queue)) \in Nat
    BY <2>1, <2>2, ChangedAtAppend, ChangedAtFinite
  <2>4. changedEmits \in Nat
    BY DEF MirrorInv, TypeOK
  <2>5. ChangedAccounted'
    <3>1. ChangedPending' = Cardinality(ChangedAt(queue'))
      BY DEF ChangedPending, ChangedAt
    <3>2. connected => sent = changedEmits + Cardinality(ChangedAt(queue))
      BY ChangedPendingDef DEF ChangedAccounted
    <3>3. UNCHANGED <<connected, changedEmits>>
      BY DEF deviceVars
    <3> QED
      BY <2>1, <2>3, <2>4, <3>1, <3>2, <3>3 DEF ChangedAccounted
  <2> QED
    BY <1>1, <2>5 DEF NoProxyQuiet, Subscribed, deviceVars
<1>2. CASE ~Subscribed
  BY <1>2, CountersUntouched DEF DaemonChange, Notify, deviceVars
<1> QED
  BY <1>1, <1>2

\* A remote call counts only the signals of the change the daemon makes.
LEMMA RemoteCallCounted ==
  ASSUME MirrorInv, NoProxyQuiet, ChangedAccounted, NEW acc, NEW d,
         acc => DictOK(d), RemoteCall(acc, d), UNCHANGED deviceVars
  PROVE  NoProxyQuiet' /\ ChangedAccounted'
<1>1. CASE acc /\ DaemonChange(d)
  BY <1>1, DaemonChangeCounted
<1>2. CASE CallError
  BY <1>2, CountersUntouched DEF CallError, deviceVars
<1> QED
  BY <1>1, <1>2 DEF RemoteCall

\* Dispatching the head re-emits it exactly when it is a Changed signal.
LEMMA DispatchCounted ==
  ASSUME MirrorInv, NoProxyQuiet, ChangedAccounted, Dispatch
  PROVE  NoProxyQuiet' /\ ChangedAccounted'
<1>1. queue \in Seq(Message) /\ queue # <<>> /\ queue' = Tail(queue)
  <2>1. queue \in Seq(TypedMessage) /\ queue # <<>> /\ queue' = Tail(queue)
    BY DEF Dispatch, MirrorInv, TypeOK
  <2>2. TypedMessage \subseteq Message
    BY DEF TypedMessage
  <2> QED
    BY <2>1, <2>2, SeqMonotonic
<1>2. queue[1] \in Message /\ Head(queue) = queue[1]
  BY <1>1, HeadTailProperties
<1>3. Cardinality(ChangedAt(queue)) =
        Cardinality(ChangedAt(queue')) + (IF queue[1].sig = "Changed" THEN 1 ELSE 0)
      /\ Cardinality(ChangedAt(queue')) \in Nat
  BY <1>1, ChangedAtTail, ChangedAtFinite, HeadTailProperties
<1>4. proxy /\ proxy' /\ UNCHANGED <<connected, sent>>
  BY DEF Dispatch, Subscribed
<1>5. ASSUME connected PROVE changedEmits' = changedEmits + (IF queue[1].sig = "Changed" THEN 1 ELSE 0)
  <2>1. CASE Head(queue).sig = "PropertiesChanged" /\ PropertiesChangedCb(Head(queue).changes)
    <3>1. queue[1].sig # "Changed"
      BY <1>2, <2>1
    <3>2. changedEmits' = changedEmits
      BY <2>1 DEF PropertiesChangedCb
    <3> QED
      BY <3>1, <3>2 DEF MirrorInv, TypeOK
  <2>2. CASE Head(queue).sig # "PropertiesChanged" /\ SignalCb(Head(queue))
    BY <1>2, <2>2 DEF SignalCb, Message, Signals
  <2> QED
    BY <1>5, <2>1, <2>2 DEF Dispatch
<1>6. changedEmits \in Nat
  BY DEF MirrorInv, TypeOK
<1> QED
  BY <1>3, <1>4, <1>5, <1>6, ChangedPendingDef
     DEF NoProxyQuiet, ChangedAccounted, ChangedPending, ChangedAt

\* A bind starts counting from an object that has sent and emitted nothing.
LEMMA BindCounted ==
  ASSUME MirrorInv, NoProxyQuiet, ChangedAccounted, NEW p \in ObjectPaths, Bind(p)
  PROVE  NoProxyQuiet' /\ ChangedAccounted'
<1>1. ~proxy /\ queue = <<>> /\ sent = 0 /\ changedEmits = 0
  BY DEF Bind, MirrorInv, QueueFacts, NoProxyQuiet
<1>2. UNCHANGED <<queue, sent, changedEmits>>
  BY DEF Bind, SetObjectPath, deviceVars
<1>3. ChangedAt(<<>>) = {}
  BY DEF ChangedAt
<1> QED
  BY <1>1, <1>2, <1>3, FS_EmptySet DEF NoProxyQuiet, ChangedAccounted, ChangedPending, ChangedAt

\* Finalize and Restart start over with a new object.
LEMMA ResetCounted ==
  ASSUME DeviceReset, queue' = <<>>, sent' = 0
  PROVE  NoProxyQuiet' /\ ChangedAccounted'
BY DEF DeviceReset, NoProxyQuiet, ChangedAccounted

\* Every step of Next keeps ChangedInv.
LEMMA ChangedStep == ChangedInv /\ [Next]_vars => ChangedInv'
<1> SUFFICES ASSUME ChangedInv, [Next]_vars PROVE NoProxyQuiet' /\ ChangedAccounted'
  BY MirrorStep DEF ChangedInv
<1> USE DEF ChangedInv
<1>1. ASSUME NEW p \in ObjectPaths, Bind(p) PROVE NoProxyQuiet' /\ ChangedAccounted'
  BY <1>1, BindCounted
<1>2. CASE BindRefused
  BY <1>2, CountersUntouched DEF BindRefused, deviceVars, busVars
<1>3. CASE Dispatch
  BY <1>3, DispatchCounted
<1>4. ASSUME NEW v \in Models, SetModelSync(v) PROVE NoProxyQuiet' /\ ChangedAccounted'
  <2>1. CASE PreconditionFailed
    BY <1>4, <2>1, CountersUntouched DEF SetModelSync, PreconditionFailed, deviceVars, busVars
  <2>2. CASE SetPropertySync("Model", v)
    <3>1. "Model" \in PropNames /\ v \in PropTypes["Model"]
      BY DEF PropNames, PropTypes
    <3> QED
      BY <1>4, <2>2, <3>1, SingletonDictOK, RemoteCallCounted
         DEF SetModelSync, SetPropertySync
  <2> QED
    BY <1>4, <2>1, <2>2 DEF SetModelSync
<1>5. ASSUME NEW k \in ClientKinds, SetKindSync(k) PROVE NoProxyQuiet' /\ ChangedAccounted'
  <2>1. CASE PreconditionFailed
    BY <1>5, <2>1, CountersUntouched DEF SetKindSync, PreconditionFailed, deviceVars, busVars
  <2>2. CASE SetPropertySync("Kind", KindToString(k))
    <3>1. "Kind" \in PropNames /\ KindToString(k) \in PropTypes["Kind"]
      BY KindConversionsTyped DEF PropNames, PropTypes
    <3> QED
      BY <1>5, <2>2, <3>1, SingletonDictOK, RemoteCallCounted
         DEF SetKindSync, SetPropertySync
  <2> QED
    BY <1>5, <2>1, <2>2 DEF SetKindSync
<1>6. ASSUME NEW p \in Profiles, AddProfileSync(p) PROVE NoProxyQuiet' /\ ChangedAccounted'
  <2>1. CASE PreconditionFailed
    BY <1>6, <2>1, CountersUntouched DEF AddProfileSync, PreconditionFailed, deviceVars, busVars
  <2>2. CASE RemoteCall(DeviceReachable /\ p \notin Range(rProfiles),
                        Entry("Profiles", Append(rProfiles, p)))
    <3>1. "Profiles" \in PropNames
          /\ Append(rProfiles, p) \in PropTypes["Profiles"]
      BY AppendProperties DEF PropNames, PropTypes, MirrorInv, TypeOK, ProfileSeqs
    <3> QED
      BY <1>6, <2>2, <3>1, SingletonDictOK, RemoteCallCounted DEF AddProfileSync
  <2> QED
    BY <1>6, <2>1, <2>2 DEF AddProfileSync
<1>7. ASSUME NEW p \in Profiles, MakeProfileDefaultSync(p)
      PROVE  NoProxyQuiet' /\ ChangedAccounted'
  <2>1. CASE PreconditionFailed
    BY <1>7, <2>1, CountersUntouched DEF MakeProfileDefaultSync, PreconditionFailed,
                                         deviceVars, busVars
  <2>2. CASE RemoteCall(DeviceReachable /\ p \in Range(rProfiles),
                        Entry("Profiles", MoveToFront(rProfiles, p)))
    <3>1. p \in Range(rProfiles) =>
            /\ "Profiles" \in PropNames
            /\ MoveToFront(rProfiles, p) \in PropTypes["Profiles"]
      BY MoveToFrontTyped DEF PropNames, PropTypes, MirrorInv, TypeOK, ProfileSeqs
    <3> QED
      BY <1>7, <2>2, <3>1, SingletonDictOK, RemoteCallCounted DEF MakeProfileDefaultSync
  <2> QED
    BY <1>7, <2>1, <2>2 DEF MakeProfileDefaultSync
<1>8. CASE GetProfileForQualifierSync
  BY <1>8, CountersUntouched
     DEF GetProfileForQualifierSync, PreconditionFailed, CallError, deviceVars, busVars
<1>9. CASE ExternalChange
  <2>1. PICK d \in ExternalDicts : DaemonChange(d)
    BY <1>9 DEF ExternalChange
  <2> QED
    BY <1>9, <2>1, ExternalDictsOK, DaemonChangeCounted DEF ExternalChange
<1>10. CASE RemoveDevice
  BY <1>10, CountersUntouched DEF RemoveDevice, deviceVars, busVars
<1>11. CASE Finalize
  BY <1>11, ResetCounted DEF Finalize
<1>12. CASE Restart
  BY <1>12, ResetCounted DEF Restart
<1>13. CASE UNCHANGED vars
  BY <1>13, CountersUntouched DEF vars, deviceVars, busVars
<1> QED
  BY <1>1, <1>2, <1>3, <1>4, <1>5, <1>6, <1>7, <1>8, <1>9, <1>10, <1>11, <1>12, <1>13
     DEF Next

\* A new object has sent, queued and emitted nothing.
LEMMA ChangedInit == Init => ChangedInv
<1> SUFFICES ASSUME Init PROVE ChangedInv
  OBVIOUS
<1>1. NoProxyQuiet /\ ChangedAccounted
  BY DEF Init, DeviceNew, NoProxyQuiet, ChangedAccounted
<1> QED
  BY <1>1, MirrorInit DEF ChangedInv

(***************************************************************************)
(* No Changed signal the daemon sends to a connected object is lost or     *)
(* emitted twice: the observers have seen exactly those already dispatched *)
(* and the rest are queued.  ChangedInv is inductive.                      *)
(***************************************************************************)
THEOREM ChangedAccountedHolds == Spec => []ChangedAccounted
<1>1. Init => ChangedInv
  BY ChangedInit
<1>2. ChangedInv /\ [Next]_vars => ChangedInv'
  BY ChangedStep
<1>3. ChangedInv => ChangedAccounted
  BY DEF ChangedInv
<1> QED
  BY <1>1, <1>2, <1>3, PTL DEF Spec

=============================================================================
