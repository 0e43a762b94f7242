------------------------------ MODULE CdDevice ------------------------------
(***************************************************************************)
(* The client-side CdDevice object of libcolord (src/libcolord/cd-device.c)*)
(* together with the part of its environment it talks to: the colord      *)
(* daemon's device object and the D-Bus connection that carries the       *)
(* daemon's PropertiesChanged and Changed signals to the client's          *)
(* GDBusProxy.                                                             *)
(*                                                                         *)
(* The client mirrors the daemon's device (model, kind, profile list) and  *)
(* keeps the mirror current from the signals, which the GLib main loop     *)
(* dispatches one at a time in arrival order.  Synchronous calls           *)
(* (SetProperty, AddProfile, MakeProfileDefault, GetProfileForQualifier)   *)
(* block the caller without dispatching the main loop, so each call is one *)
(* atomic step, and so is each dispatched signal handler.                  *)
(*                                                                         *)
(* Data is abstract: object paths, device ids, model strings, kind names   *)
(* and profile paths are model values.  The daemon's side is modelled from *)
(* the repository's spec, the client's side from cd-device.c.              *)
(***************************************************************************)
EXTENDS Integers, Sequences, FiniteSets, SequencesExt

CONSTANTS
    ObjectPaths,     \* object paths a caller may bind a CdDevice to
    DevicePath,      \* the path at which the daemon exports the device
    DeviceIdValue,   \* the daemon's DeviceId property of that device
    Ids,             \* id strings a caller may write with g_object_set
    CreatedValue,    \* the daemon's Created property (seconds)
    TimeWidth,       \* bits of the guint64 creation time and of time_t
    TimeLimit,       \* the largest time, either side of 0, localtime converts
    Models,          \* values of the Model property
    KindNames,       \* strings the daemon may hold in its Kind property
    KnownKindNames,  \* the strings cd_device_kind_from_string recognises
    UnknownKindName, \* cd_device_kind_to_string (CD_DEVICE_KIND_UNKNOWN)
    KindUnknown,     \* the enum value CD_DEVICE_KIND_UNKNOWN
    Profiles,        \* object paths of profiles
    NoValue,         \* a NULL string pointer
    MaxChanges,      \* bound on the daemon-side changes of the device
    MaxFailures      \* bound on failed bus calls and profile resolutions

ASSUME PathsAssumption ==
    /\ DevicePath \in ObjectPaths
    /\ DeviceIdValue \in Ids
    /\ NoValue \notin ObjectPaths \cup Models \cup Ids

ASSUME KindAssumption ==
    /\ KnownKindNames \subseteq KindNames
    /\ UnknownKindName \in KindNames \ KnownKindNames
    /\ KindUnknown \notin KindNames

ASSUME ProfilesAssumption == IsFiniteSet(Profiles)

ASSUME BoundsAssumption ==
    /\ CreatedValue \in Nat
    /\ TimeWidth \in Nat \ {0}
    /\ TimeLimit \in Nat
    /\ MaxChanges \in Nat
    /\ MaxFailures \in Nat

VARIABLES
    (* CdDevicePrivate of the client object *)
    proxy,         \* priv->proxy != NULL
    connected,     \* the g-signal and g-properties-changed handlers are connected
    objectPath,    \* priv->object_path
    id,            \* priv->id
    model,         \* priv->model
    kind,          \* priv->kind
    created,       \* priv->created
    profiles,      \* priv->profiles, as the sequence of the profiles' paths
    changedEmits,  \* number of "changed" signals emitted to the object's observers
    result,        \* what the last call returned to its caller
    crashed,       \* the client process died
    (* the daemon's device object *)
    present,       \* the device is exported at DevicePath
    rModel, rKind, rProfiles,
    (* the bus *)
    queue,         \* signals received by the proxy, not yet dispatched
    sent,          \* Changed signals sent to this proxy
    changes,       \* daemon-side changes so far (bounded by MaxChanges)
    failures       \* failed calls and resolutions so far (bounded by MaxFailures)

deviceVars == <<proxy, connected, objectPath, id, model, kind, created,
                profiles, changedEmits>>
remoteVars == <<present, rModel, rKind, rProfiles>>
busVars == <<queue, sent, changes, failures>>
vars == <<deviceVars, result, crashed, remoteVars, busVars>>

-----------------------------------------------------------------------------
(* Data *)

ClientKinds == KnownKindNames \cup {KindUnknown}

\* The range of the "created" property: g_param_spec_uint64 (0, G_MAXUINT64).
Timestamps == 0..(2^TimeWidth - 1)

\* cd_device_to_string: (time_t) priv->created, the unsigned value read back
\* as a signed one of the same width.
CreatedAsTime(t) == IF t >= 2^(TimeWidth - 1) THEN t - 2^TimeWidth ELSE t

\* localtime returns a broken-down time, and not NULL, for times whose year
\* fits in an int.
LocaltimeDefined(t) == -TimeLimit <= t /\ t <= TimeLimit

\* Profile lists the daemon holds: a profile appears at most once.
ProfileLists == UNION {SetToSeqs(S) : S \in SUBSET Profiles}

\* The properties a PropertiesChanged signal may name, with their values.
\* "Serial" stands for any property this client does not mirror.
\* (ProfileSeqs is Seq(Profiles); TLC is given a finite set holding them all.)
ProfileSeqs == Seq(Profiles)
PropTypes == [Model |-> Models, Kind |-> KindNames,
              Profiles |-> ProfileSeqs, Serial |-> {NoValue}]
PropNames == DOMAIN PropTypes
PropValues == Models \cup KindNames \cup ProfileSeqs \cup {NoValue}

\* The changed_properties dictionary (a{sv}) of a PropertiesChanged signal.
Dicts == UNION {[D -> PropValues] : D \in SUBSET PropNames}
DictTyped(d) == \A n \in DOMAIN d : d[n] \in PropTypes[n]

Signals == {"PropertiesChanged", "Changed"}
Message == [sig : Signals, changes : Dicts]
TypedMessage == {m \in Message : DictTyped(m.changes)}

-----------------------------------------------------------------------------
(* Helpers of the client *)

\* cd_device_kind_from_string: an unrecognised string is the unknown kind.
KindFromStringRaw(s) == s
KindFromString(s) == IF s \in KnownKindNames THEN s ELSE KindUnknown

\* cd_device_kind_to_string
KindToString(k) == IF k = KindUnknown THEN UnknownKindName ELSE k

(***************************************************************************)
(* cd_device_set_profiles_array_from_variant: the array is emptied, then   *)
(* each path is resolved in turn into a new CdProfile; the first failed    *)
(* resolution ends the loop with the profiles before it in the array.      *)
(***************************************************************************)
ProfilesArrayOutcomes(list) ==
    {[ok |-> TRUE, array |-> list]}
      \cup {[ok |-> FALSE, array |-> SubSeq(list, 1, k - 1)] : k \in 1..Len(list)}

SetProfilesArrayNoClear(r) ==
    /\ r.ok \/ failures < MaxFailures
    /\ profiles' = profiles \o r.array
    /\ failures' = IF r.ok THEN failures ELSE failures + 1

SetProfilesArray(r) ==
    /\ r.ok \/ failures < MaxFailures
    /\ profiles' = r.array
    /\ failures' = IF r.ok THEN failures ELSE failures + 1

\* The fields of a new object (cd_device_init on zeroed private data).
DeviceNew ==
    /\ proxy = FALSE
    /\ connected = FALSE
    /\ objectPath = NoValue
    /\ id = NoValue
    /\ model = NoValue
    /\ kind = KindUnknown
    /\ created = 0
    /\ profiles = <<>>
    /\ changedEmits = 0

\* cd_device_new: the owner's object is replaced by a new one.
DeviceReset ==
    /\ proxy' = FALSE
    /\ connected' = FALSE
    /\ objectPath' = NoValue
    /\ id' = NoValue
    /\ model' = NoValue
    /\ kind' = KindUnknown
    /\ created' = 0
    /\ profiles' = <<>>
    /\ changedEmits' = 0

\* The proxy receives the device's signals (the process is alive).
Subscribed == proxy /\ ~crashed /\ objectPath = DevicePath

\* A method call on the proxy reaches an existing object.
DeviceReachable == objectPath = DevicePath /\ present

-----------------------------------------------------------------------------
(* The daemon's device object *)

\* The list l with its element p moved to the front.
MoveToFront(l, p) ==
    LET i == CHOOSE j \in 1..Len(l) : l[j] = p
    IN  <<p>> \o SubSeq(l, 1, i - 1) \o SubSeq(l, i + 1, Len(l))

\* The dictionary with the single entry name: value.
Entry(name, value) == [n \in {name} |-> value]

\* The daemon emits PropertiesChanged(d), then Changed, to subscribed proxies.
Notify(d) ==
    IF Subscribed
    THEN /\ queue' = queue \o << [sig |-> "PropertiesChanged", changes |-> d],
                                 [sig |-> "Changed", changes |-> <<>>] >>
         /\ sent' = sent + 1
    ELSE UNCHANGED <<queue, sent>>

\* The device takes the values of d and announces them.
DaemonChange(d) ==
    /\ present
    /\ changes < MaxChanges
    /\ changes' = changes + 1
    /\ rModel' = IF "Model" \in DOMAIN d THEN d["Model"] ELSE rModel
    /\ rKind' = IF "Kind" \in DOMAIN d THEN d["Kind"] ELSE rKind
    /\ rProfiles' = IF "Profiles" \in DOMAIN d THEN d["Profiles"] ELSE rProfiles
    /\ Notify(d)
    /\ UNCHANGED present

-----------------------------------------------------------------------------
(* Calls of the client *)

Init ==
    /\ DeviceNew
    /\ result = "none"
    /\ crashed = FALSE
    /\ present \in BOOLEAN
    /\ rModel \in Models
    /\ rKind \in KindNames
    /\ rProfiles \in ProfileLists
    /\ queue = <<>>
    /\ sent = 0
    /\ changes = 0
    /\ failures = 0

\* A failed call returns FALSE and changes nothing else.
CallError ==
    /\ result' = "fail"
    /\ UNCHANGED <<remoteVars, queue, sent, changes>>

\* The bus or the daemon refuses a call (counted against MaxFailures).
TransportError ==
    /\ failures < MaxFailures
    /\ failures' = failures + 1

\* g_return_val_if_fail (device->priv->proxy != NULL, FALSE)
PreconditionFailed ==
    /\ ~proxy
    /\ result' = "fail"
    /\ UNCHANGED <<remoteVars, busVars>>

\* cd_device_set_object_path_sync without reading the Created property.
SetObjectPathNoCreated(p) ==
    /\ ~crashed
    /\ \/ /\ TransportError
          /\ result' = "fail"
          /\ UNCHANGED <<deviceVars, crashed, remoteVars, queue, sent, changes>>
       \/ /\ proxy' = TRUE
          /\ objectPath' = p
          /\ IF p = DevicePath /\ present
             THEN /\ id' = DeviceIdValue
                  /\ kind' = KindFromString(rKind)
                  /\ model' = rModel
                  /\ UNCHANGED created
                  /\ \E r \in ProfilesArrayOutcomes(rProfiles) :
                        /\ SetProfilesArray(r)
                        /\ connected' = r.ok
                        /\ result' = IF r.ok THEN "ok" ELSE "fail"
                  /\ UNCHANGED crashed
             ELSE /\ crashed' = TRUE
                  /\ UNCHANGED <<id, kind, model, created, profiles, connected,
                                 result, failures>>
          /\ UNCHANGED <<changedEmits, remoteVars, queue, sent, changes>>

(***************************************************************************)
(* cd_device_set_object_path_sync past its guards.  The proxy             *)
(* is created, or its creation fails.  The cached properties are then read *)
(* (all of them absent when no object is exported at the path), the        *)
(* profiles are resolved, and the signal handlers are connected only if    *)
(* every profile resolved.  An absent Profiles property is passed to       *)
(* g_variant_iter_init as NULL, which dereferences it: the process dies.   *)
(* Bind adds the guard that the object has no proxy yet.                   *)
(***************************************************************************)
SetObjectPath(p) ==
    /\ ~crashed
    /\ \/ /\ TransportError
          /\ result' = "fail"
          /\ UNCHANGED <<deviceVars, crashed, remoteVars, queue, sent, changes>>
       \/ /\ proxy' = TRUE
          /\ objectPath' = p
          /\ IF p = DevicePath /\ present
             THEN /\ id' = DeviceIdValue
                  /\ kind' = KindFromString(rKind)
                  /\ model' = rModel
                  /\ created' = CreatedValue
                  /\ \E r \in ProfilesArrayOutcomes(rProfiles) :
                        /\ SetProfilesArray(r)
                        /\ connected' = r.ok
                        /\ result' = IF r.ok THEN "ok" ELSE "fail"
                  /\ UNCHANGED crashed
             ELSE /\ crashed' = TRUE
                  /\ UNCHANGED <<id, kind, model, created, profiles, connected,
                                 result, failures>>
          /\ UNCHANGED <<changedEmits, remoteVars, queue, sent, changes>>

\* cd_device_set_object_path_sync: g_return_val_if_fail (proxy == NULL)
Bind(p) ==
    /\ ~proxy
    /\ SetObjectPath(p)

\* g_return_val_if_fail (device->priv->proxy == NULL, FALSE)
BindRefused ==
    /\ ~crashed
    /\ proxy
    /\ result' = "fail"
    /\ UNCHANGED <<deviceVars, crashed, remoteVars, busVars>>

(***************************************************************************)
(* cd_device_dbus_properties_changed: each entry of the dictionary is      *)
(* applied; a failed profile resolution is ignored and the loop goes on.   *)
(* The keys of a dictionary are distinct, so the entries commute.          *)
(***************************************************************************)
PropertiesChangedCb(d) ==
    /\ model' = IF "Model" \in DOMAIN d THEN d["Model"] ELSE model
    /\ kind' = IF "Kind" \in DOMAIN d THEN KindFromString(d["Kind"]) ELSE kind
    /\ IF "Profiles" \in DOMAIN d
       THEN \E r \in ProfilesArrayOutcomes(d["Profiles"]) : SetProfilesArray(r)
       ELSE UNCHANGED <<profiles, failures>>
    /\ UNCHANGED changedEmits

\* cd_device_dbus_signal_cb, with the signal name compared case-insensitively
SignalCbWrongName(m) ==
    /\ changedEmits' = IF m.sig = "changed" THEN changedEmits + 1 ELSE changedEmits
    /\ UNCHANGED <<model, kind, profiles, failures>>

\* cd_device_dbus_signal_cb: "Changed" is re-emitted to the observers.
SignalCb(m) ==
    /\ changedEmits' = IF m.sig = "Changed" THEN changedEmits + 1 ELSE changedEmits
    /\ UNCHANGED <<model, kind, profiles, failures>>

(***************************************************************************)
(* The main loop dispatches the oldest received signal to the proxy.  With *)
(* no handler connected (a bind that failed after creating the proxy) the  *)
(* signal reaches nobody.                                                  *)
(***************************************************************************)
Dispatch ==
    /\ Subscribed
    /\ queue # <<>>
    /\ queue' = Tail(queue)
    /\ \/ /\ ~connected
          /\ UNCHANGED <<model, kind, profiles, failures, changedEmits>>
       \/ /\ connected
          /\ Head(queue).sig = "PropertiesChanged"
          /\ PropertiesChangedCb(Head(queue).changes)
       \/ /\ connected
          /\ Head(queue).sig # "PropertiesChanged"
          /\ SignalCb(Head(queue))
    /\ UNCHANGED <<proxy, connected, objectPath, id, created, result, crashed,
                   remoteVars, sent, changes>>

(***************************************************************************)
(* g_dbus_proxy_call_sync with timeout -1, the proxy's default (25 s): the *)
(* daemon applies an accepted request and replies; it refuses any other;   *)
(* the bus may fail the call before the daemon sees it; or the reply may   *)
(* come after the timeout, so the caller gets FALSE for a change the      *)
(* daemon has made.                                                        *)
(***************************************************************************)
RemoteCall(accepted, d) ==
    \/ /\ accepted
       /\ DaemonChange(d)
       /\ result' = "ok"
       /\ UNCHANGED failures
    \/ /\ ~accepted
       /\ CallError
       /\ UNCHANGED failures
    \/ TransportError /\ CallError
    \/ /\ accepted
       /\ TransportError
       /\ DaemonChange(d)
       /\ result' = "fail"

\* cd_device_set_property_sync: SetProperty(name, value) on the daemon.
SetPropertySync(name, value) == RemoteCall(DeviceReachable, Entry(name, value))

\* cd_device_set_model_sync
SetModelSync(v) ==
    /\ ~crashed
    /\ \/ PreconditionFailed
       \/ proxy /\ SetPropertySync("Model", v)
    /\ UNCHANGED <<deviceVars, crashed>>

\* cd_device_set_kind_sync
SetKindSync(k) ==
    /\ ~crashed
    /\ \/ PreconditionFailed
       \/ proxy /\ SetPropertySync("Kind", KindToString(k))
    /\ UNCHANGED <<deviceVars, crashed>>

\* cd_device_add_profile_sync: the daemon appends a profile it does not hold.
AddProfileSync(p) ==
    /\ ~crashed
    /\ \/ PreconditionFailed
       \/ /\ proxy
          /\ RemoteCall(DeviceReachable /\ p \notin Range(rProfiles),
                        Entry("Profiles", Append(rProfiles, p)))
    /\ UNCHANGED <<deviceVars, crashed>>

\* cd_device_make_profile_default_sync: the daemon moves a held profile first.
MakeProfileDefaultSync(p) ==
    /\ ~crashed
    /\ \/ PreconditionFailed
       \/ /\ proxy
          /\ RemoteCall(DeviceReachable /\ p \in Range(rProfiles),
                        Entry("Profiles", MoveToFront(rProfiles, p)))
    /\ UNCHANGED <<deviceVars, crashed>>

(***************************************************************************)
(* cd_device_get_profile_for_qualifier_sync: the daemon returns the path   *)
(* of one of the device's profiles that matches, or an error; the path is  *)
(* resolved into a new CdProfile handed to the caller, not cached.         *)
(***************************************************************************)
GetProfileForQualifierSync ==
    /\ ~crashed
    /\ \/ PreconditionFailed
       \/ /\ proxy
          /\ \/ /\ ~DeviceReachable \/ rProfiles = <<>>
                /\ CallError
                /\ UNCHANGED failures
             \/ /\ DeviceReachable
                /\ rProfiles # <<>>
                /\ result' \in {"ok", "fail"}
                /\ UNCHANGED <<remoteVars, busVars>>
             \/ TransportError /\ CallError
    /\ UNCHANGED <<deviceVars, crashed>>

-----------------------------------------------------------------------------
(* The environment *)

\* The dictionaries of one or two entries another client's change may cause.
ExternalDicts ==
    {[n \in D |-> CASE n = "Model" -> vm
                   [] n = "Kind" -> vk
                   [] n = "Profiles" -> vp
                   [] OTHER -> NoValue] :
        D \in {S \in SUBSET PropNames : Cardinality(S) \in 1..2},
        vm \in Models, vk \in KindNames, vp \in ProfileLists}

\* Another client, or the daemon itself, changes one or two properties.
ExternalChange ==
    /\ \E d \in ExternalDicts : DaemonChange(d)
    /\ UNCHANGED <<deviceVars, result, crashed, failures>>

\* The device is removed from the daemon (unplugged).
RemoveDevice ==
    /\ present
    /\ present' = FALSE
    /\ UNCHANGED <<deviceVars, result, crashed, rModel, rKind, rProfiles, busVars>>

\* The owner drops the object (cd_device_finalize) and makes a new one.
Finalize ==
    /\ ~crashed
    /\ DeviceReset
    /\ result' = "none"
    /\ queue' = <<>>
    /\ sent' = 0
    /\ UNCHANGED <<crashed, remoteVars, changes, failures>>

\* The dead client process is started again with a new object.
Restart ==
    /\ crashed
    /\ crashed' = FALSE
    /\ DeviceReset
    /\ result' = "none"
    /\ queue' = <<>>
    /\ sent' = 0
    /\ UNCHANGED <<remoteVars, changes, failures>>

Next ==
    \/ \E p \in ObjectPaths : Bind(p)
    \/ BindRefused
    \/ Dispatch
    \/ \E v \in Models : SetModelSync(v)
    \/ \E k \in ClientKinds : SetKindSync(k)
    \/ \E p \in Profiles : AddProfileSync(p) \/ MakeProfileDefaultSync(p)
    \/ GetProfileForQualifierSync
    \/ ExternalChange
    \/ RemoveDevice
    \/ Finalize
    \/ Restart

\* The GLib main loop keeps dispatching received signals.
Spec == Init /\ [][Next]_vars /\ WF_vars(Dispatch)

(***************************************************************************)
(* cd_device_set_property: the id, model, created and kind GObject         *)
(* properties are G_PARAM_READWRITE, so g_object_set on the object writes  *)
(* the private field directly, bound or not, and tells nobody.             *)
(***************************************************************************)
SetGObjectProperty ==
    /\ ~crashed
    /\ \/ \E v \in Ids \cup {NoValue} : id' = v /\ UNCHANGED <<model, created, kind>>
       \/ \E v \in Models \cup {NoValue} : model' = v /\ UNCHANGED <<id, created, kind>>
       \/ \E t \in Timestamps : created' = t /\ UNCHANGED <<id, model, kind>>
       \/ \E k \in ClientKinds : kind' = k /\ UNCHANGED <<id, model, created>>
    /\ UNCHANGED <<proxy, connected, objectPath, profiles, changedEmits, result,
                   crashed, remoteVars, busVars>>

\* A program that also writes the object's GObject properties.
LocalWritesSpec == Init /\ [][Next \/ SetGObjectProperty]_vars /\ WF_vars(Dispatch)

-----------------------------------------------------------------------------
(* Properties *)

\* Every variable holds a value of its type.
TypeOK ==
    /\ proxy \in BOOLEAN
    /\ connected \in BOOLEAN
    /\ objectPath \in ObjectPaths \cup {NoValue}
    /\ id \in Ids \cup {NoValue}
    /\ model \in Models \cup {NoValue}
    /\ kind \in ClientKinds
    /\ created \in Nat
    /\ profiles \in ProfileSeqs
    /\ changedEmits \in Nat
    /\ result \in {"none", "ok", "fail"}
    /\ crashed \in BOOLEAN
    /\ present \in BOOLEAN
    /\ rModel \in Models
    /\ rKind \in KindNames
    /\ rProfiles \in ProfileSeqs
    /\ queue \in Seq(TypedMessage)
    /\ sent \in Nat
    /\ changes \in 0..MaxChanges
    /\ failures \in 0..MaxFailures

\* Positions in the queue of signals that change property n.
PendingIndices(n) == {i \in 1..Len(queue) : n \in DOMAIN queue[i].changes}

\* The position of the newest queued signal that changes n, if any.
NewestPending(n) == {i \in PendingIndices(n) : \A j \in PendingIndices(n) : j <= i}

\* The daemon's value of each property the client mirrors.
RemoteValue == [Model |-> rModel, Kind |-> rKind, Profiles |-> rProfiles]

(***************************************************************************)
(* The mirror converges (the cache-consistency claim of the proxy): for a  *)
(* bound object whose handlers are connected, the newest queued signal     *)
(* that changes a property carries the daemon's value of it, and a         *)
(* property with no signal queued already holds the daemon's value: the    *)
(* model and the kind equal, the profile list a prefix of the daemon's     *)
(* list, the whole list when no resolution has failed.  So dispatching the *)
(* signals already received leaves the mirror at the daemon's state.  It   *)
(* is what the properties-changed handler, the daemon's PropertiesChanged  *)
(* and the bind-time snapshot together must get right.                     *)
(***************************************************************************)
MirrorConverges ==
    connected =>
        /\ \A n \in DOMAIN RemoteValue : \A i \in NewestPending(n) :
              queue[i].changes[n] = RemoteValue[n]
        /\ PendingIndices("Model") = {} => model = rModel
        /\ PendingIndices("Kind") = {} => kind = KindFromString(rKind)
        /\ PendingIndices("Profiles") = {} =>
              /\ IsPrefix(profiles, rProfiles)
              /\ failures = 0 => profiles = rProfiles

(***************************************************************************)
(* The mirror never lists a profile twice.  The daemon holds each profile  *)
(* at most once (AddProfile of a held profile is refused, MakeProfileDefault*)
(* only reorders), and the client must keep it so: every resolution of a   *)
(* Profiles value replaces the array and never adds to what it held        *)
(* (cd_device_set_profiles_array_from_variant, from the bind snapshot and  *)
(* from cd_device_dbus_properties_changed).                                *)
(***************************************************************************)
ProfilesDistinct == IsInjective(profiles)

(***************************************************************************)
(* What the spec says of a snapshot's identity: the identifier is          *)
(* immutable and the creation time is set once at bind, so while the       *)
(* object has its proxy its object path, id, creation time and handler     *)
(* connection never change (cd_device_set_object_path_sync's guard, and    *)
(* cd_device_set_property, which writes id and created of any object).     *)
(***************************************************************************)
IdentityStable ==
    [][proxy /\ proxy' => UNCHANGED <<objectPath, id, created, connected>>]_vars

\* The number of Changed signals received and not yet dispatched.
ChangedPending == Cardinality({i \in 1..Len(queue) : queue[i].sig = "Changed"})

(***************************************************************************)
(* Every Changed signal the daemon sent to a connected object has been     *)
(* re-emitted to its observers exactly once or is still queued: the        *)
(* signal handler counts each one it dispatches, drops none and emits none *)
(* twice (cd_device_dbus_signal_cb, cd_device_dbus_properties_changed and  *)
(* the daemon's PropertiesChanged-then-Changed order).                     *)
(***************************************************************************)
ChangedAccounted == connected => sent = changedEmits + ChangedPending

(***************************************************************************)
(* No Changed signal is lost or coalesced: every Changed the daemon sends  *)
(* to a connected object is eventually re-emitted to its observers, as     *)
(* long as the object is connected (cd_device_dbus_signal_cb, under a      *)
(* running main loop).                                                     *)
(***************************************************************************)
ChangedDelivered ==
    \A n \in 1..MaxChanges :
        (connected /\ sent >= n) ~> (changedEmits >= n \/ ~connected)

(***************************************************************************)
(* What the spec says of a Profiles notification: the list is replaced     *)
(* wholesale or left as it was, never partially replaced                   *)
(* (cd_device_dbus_properties_changed through                               *)
(* cd_device_set_profiles_array_from_variant).                             *)
(***************************************************************************)
ProfilesAllOrNothing ==
    [][ Dispatch /\ connected /\ "Profiles" \in DOMAIN Head(queue).changes
        => profiles' \in {profiles, Head(queue).changes["Profiles"]} ]_vars

(***************************************************************************)
(* What the spec says of binding: failures are returned as errors, there   *)
(* is no fatal path (cd_device_set_object_path_sync reading the cached     *)
(* properties of the path it was given).                                   *)
(***************************************************************************)
NoCrash == ~crashed

\* A step in which a call of the client's API returns to its caller.
ClientCall ==
    \/ \E p \in ObjectPaths : Bind(p)
    \/ BindRefused
    \/ \E v \in Models : SetModelSync(v)
    \/ \E k \in ClientKinds : SetKindSync(k)
    \/ \E p \in Profiles : AddProfileSync(p) \/ MakeProfileDefaultSync(p)
    \/ GetProfileForQualifierSync

(***************************************************************************)
(* What the spec says of the calls: they wait for the daemon's reply with  *)
(* no timeout, so a call that returns FALSE was refused and the daemon's   *)
(* device is as it was (g_dbus_proxy_call_sync in set_property_sync,       *)
(* add_profile_sync and make_profile_default_sync).                        *)
(***************************************************************************)
FailedCallHasNoEffect ==
    [][ClientCall /\ result' = "fail" => UNCHANGED <<rModel, rKind, rProfiles>>]_vars

(***************************************************************************)
(* What the spec says of the object: no operation on it is fatal.  So      *)
(* cd_device_to_string, which any holder may call at any time, must find a *)
(* creation time localtime converts; for any other, localtime returns      *)
(* NULL and strftime reads through it.                                     *)
(***************************************************************************)
ToStringDefined == LocaltimeDefined(CreatedAsTime(created))

-----------------------------------------------------------------------------
(* The binding lifecycle of the spec, as a refinement *)

\* The lifecycle state of the object: the process died in a bind, the
\* object has no proxy, or it has one with or without its handlers.
LifecycleState ==
    IF crashed THEN "dead"
    ELSE IF ~proxy THEN "unbound"
    ELSE IF connected THEN "bound"
    ELSE "detached"

Lifecycle == INSTANCE DeviceLifecycle WITH
    Paths <- ObjectPaths,
    DevicePath <- DevicePath,
    DeviceId <- DeviceIdValue,
    DeviceCreated <- CreatedValue,
    state <- LifecycleState,
    path <- objectPath,
    ident <- id,
    stamp <- created

(***************************************************************************)
(* The object follows the lifecycle the spec gives a snapshot: one bind    *)
(* (cd_device_set_object_path_sync) takes it from empty to bound or       *)
(* detached, at the device's path with the daemon's id and creation time   *)
(* (DeviceId and Created read from the proxy's cache), or to dead with the *)
(* path it was given; nothing but finalize or a restart changes these     *)
(* afterwards, and a bound object never becomes detached.                 *)
(***************************************************************************)
LifecycleRefined == Lifecycle!ASpec

=============================================================================
