# TLA+ models of the colord `CdDevice` client object

This directory holds a TLA+ verification development for
`src/libcolord/cd-device.c`. That file is the client side of a colord
device: a GObject that mirrors a device object exported by the colord
daemon on D-Bus, through a `GDBusProxy`.

## The system and its parts

| Part | Code | What it does |
|------|------|--------------|
| Binding | `cd_device_set_object_path_sync` (302-406) | Creates the proxy. Copies the cached properties (Id, Model, Created, Kind, Profiles) into the private fields. Resolves every profile path into a `CdProfile`. Then connects the `g-properties-changed` and `g-signal` handlers. |
| Profile resolution | `cd_device_set_profiles_array_from_variant` (188-227) | Empties the array, then resolves each path in turn. It stops at the first failure. |
| Notification handlers | `cd_device_dbus_properties_changed` (232-266), `cd_device_dbus_signal_cb` (271-287) | Apply a PropertiesChanged dictionary to the mirror. Re-emit the daemon's `Changed` signal to the object's observers. |
| Calls | `set_property_sync`, `set_model_sync`, `set_kind_sync`, `add_profile_sync`, `make_profile_default_sync`, `get_profile_for_qualifier_sync` (411-668) | Synchronous D-Bus method calls. None of them updates the mirror. The mirror changes only when the daemon's notification is dispatched. |
| Accessors | `cd_device_get_*` | Read the private fields. |
| GObject plumbing | `set_property` (722-749), `get_property` (751-776), `class_init`, `init`, `finalize`, `new` | Property table, construction and destruction. |
| Formatting | `cd_device_to_string` (696-716) | Formats a string for debugging. |

The parts interact like this. The daemon, which is modelled from the spec
as the environment, changes the device when this client calls it or when
another client does. On every change it emits PropertiesChanged and then
`Changed`. The bus delivers these signals in order into the proxy's queue.
The GLib main loop dispatches them one at a time to the handlers. The
synchronous calls do not run the main loop, so each call is one atomic
step of the model. Signals are applied only by the separate `Dispatch` step.

## Modules

* `CdDevice.tla` is the client object, the daemon's device object and the
  signal queue between them.
  * Client state: `proxy`, `connected` (the handlers are connected),
    `objectPath`, `id`, `model`, `kind`, `created`, `profiles` and
    `changedEmits` (how many `changed` emissions the observers saw). Also
    `result` (what the last call returned) and `crashed` (the process died).
  * Daemon state: `present`, `rModel`, `rKind` and `rProfiles`.
  * Bus state: `queue` (the FIFO of received signals), `sent` (the number
    of `Changed` signals sent to this object), `changes` and `failures`.
    `changes` and `failures` are bound counters.
  * Client actions, one per handler or call: `Bind`, `BindRefused`,
    `Dispatch` (which runs `PropertiesChangedCb` or `SignalCb`),
    `SetModelSync`, `SetKindSync`, `AddProfileSync`,
    `MakeProfileDefaultSync`, `GetProfileForQualifierSync` and `Finalize`.
  * Environment actions: `ExternalChange`, `RemoveDevice` and `Restart`.
  * Every call has the error paths of the code:
    * the `g_return_val_if_fail` guard on the proxy (`PreconditionFailed`);
    * a refusal by the daemon (`CallError`);
    * a bus failure (`TransportError`);
    * a late reply (`RemoteCall`, line 429). The call passes timeout -1,
      which is the proxy's default of 25 s. The daemon may apply the change
      and reply after the caller has been given FALSE.
  * A failed profile resolution is a nondeterministic outcome of
    `ProfilesArrayOutcomes`: all paths resolved, or only the prefix before
    the first failed path. Failures are bounded by `MaxFailures`.
  * `SetGObjectProperty` is `cd_device_set_property`. The id, model,
    created and kind properties are READWRITE, so `g_object_set` writes the
    private fields at any time. The action is not part of `Spec`, because
    nothing in the library calls it. `LocalWritesSpec` adds it, for a
    program that does.
  * `CreatedAsTime` and `LocaltimeDefined` are what `cd_device_to_string`
    does with the creation time. The `guint64` is cast to a signed `time_t`
    of the same width (`TimeWidth` bits), and `localtime` converts only
    times within `TimeLimit` of 0. The string it formats is left out.
  * Data is abstracted to model values: paths, ids, models, kind names and
    profiles. A kind is a kind name in the client when the client knows it,
    and `KindUnknown` otherwise. `KindFromString` and `KindToString` model
    that conversion.
* `DeviceLifecycle.tla` is the abstract specification of a device
  snapshot's binding, from the spec (sections 3 and 4.1). It has four
  states:
  * `unbound`;
  * `bound`;
  * `detached` (bound, but a profile failed to resolve);
  * `dead`.

  Its actions are one bind, then `Release` or `Revive`. A bind that reads
  a snapshot (`BindSnapshot`) gives the object the device's path and the
  device's identifier and creation time, its constants `DevicePath`,
  `DeviceId` and `DeviceCreated`. A fatal bind (`BindFatal`) keeps the
  path it was given. `CdDevice.tla` instantiates it as `Lifecycle`:
  * the state is `LifecycleState` (crashed, no proxy, connected or not);
  * the path, id and stamp are `objectPath`, `id` and `created`;
  * the device's path, id and creation time are `DevicePath`,
    `DeviceIdValue` and `CreatedValue`, the daemon's values.
* `MC_CdDevice.tla` gives the constants for TLC:
  * two object paths, one of them the device's;
  * two ids;
  * two models;
  * three kind names: one the client knows, the name of the unknown kind,
    and one newer than the client;
  * two profiles;
  * a 3-bit creation time, of which `localtime` converts -2..2.
* `CdDevice_proofs.tla` holds the TLAPS proofs of type correctness and of
  the refinement.
* `CdDevice_mirror_proofs.tla` holds the TLAPS proof of `MirrorConverges`.
* `CdDevice_changed_proofs.tla` holds the TLAPS proof of `ChangedAccounted`.
  It extends the mirror proofs.
* `CdDevice_distinct_proofs.tla` holds the TLAPS proof of
  `ProfilesDistinct`. It extends the mirror proofs.

## Runs

All runs use `MC_CdDevice` with `MaxChanges = 2` and `MaxFailures = 1`.

| Run | cfg | Expect | Checks |
|-----|-----|--------|--------|
| device_safety | `CdDevice_safety.cfg` | pass | `TypeOK`, `MirrorConverges`, `ChangedAccounted`, `ProfilesDistinct`, `LifecycleRefined` |
| device_liveness | `CdDevice_liveness.cfg` | pass | `ChangedDelivered` (one model, to keep the run short) |
| profiles_all_or_nothing | `CdDevice_profiles_atomic.cfg` | violation | `ProfilesAllOrNothing` |
| bind_no_crash | `CdDevice_nocrash.cfg` | violation | `NoCrash` |
| call_timeout | `CdDevice_call_timeout.cfg` | violation | `FailedCallHasNoEffect` |
| local_writes | `CdDevice_local_writes.cfg` (`LocalWritesSpec`) | violation | `IdentityStable` |
| to_string_defined | `CdDevice_to_string.cfg` (`LocalWritesSpec`) | violation | `ToStringDefined` |

What the properties say:

* `MirrorConverges`: while the handlers are connected, the mirror is
  always where the daemon's state will leave it once every pending
  notification is applied. For each property, the newest queued change
  carries the daemon's value. A property with no queued change already
  holds it:
  * the model equals `rModel`;
  * the kind equals the converted `rKind`;
  * the profile list is a prefix of `rProfiles`, and equals it when no
    resolution failed.

  This covers:
  * signals queued between the proxy's creation and the connection of the
    handlers;
  * calls that do not update the cache, and calls whose reply was late;
  * changes by other clients interleaved with the client's own calls.
* `ChangedAccounted`: for a connected object, the number of `Changed`
  signals the daemon has sent equals the number re-emitted to the
  observers plus the number still queued. No signal is lost, emitted
  twice, or coalesced with another. It is the safety half of
  `ChangedDelivered`.
* `ProfilesDistinct`: the mirror never lists a profile twice. The daemon
  keeps its list without repeats: `AddProfile` refuses a held profile, and
  `MakeProfileDefault` only reorders. The client must keep it that way:
  every resolution replaces the array (line 202) instead of adding to it.
* `LifecycleRefined`: `CdDevice` implements `DeviceLifecycle` under the
  mapping `Lifecycle`. A bind moves the object from unbound to bound or
  detached, at the device's path with the daemon's id and creation time,
  or to dead with the path it was given. A bind that reads no creation
  time, or the wrong id, or one at another path, violates it. After that,
  only finalize or a restart changes the state, the path, the id or the
  creation time: a bound object never becomes detached, and a second bind
  is refused (line 317).

  The documentation of the `created` property (line 806) says it is "the
  last time the device was updated". The code reads `Created` only at
  bind and the handler ignores it, so this property holds with the
  creation time fixed; the spec agrees with the code, and the comment is
  reported as a finding.
* `ChangedDelivered` (liveness): every `Changed` signal sent to a connected
  object is eventually re-emitted to the observers, unless the object stops
  being connected.
* `ProfilesAllOrNothing` states the spec's rule that a Profiles
  notification replaces the list completely or not at all. The code
  violates it. TLC's trace: bind, another client sets Profiles to
  `<<prof1, prof2>>`, and `prof2` fails to resolve. The mirror is left
  holding `<<prof1>>`. The code empties the array first (line 202).
* `NoCrash` states the spec's rule that no path is fatal. It is violated:
  binding to a path where no device is exported gives every cached
  property as NULL, and the NULL Profiles value reaches
  `g_variant_iter_init` (line 372 into line 203).
* `FailedCallHasNoEffect` states the spec's rule that calls wait with no
  timeout, so a call that returns FALSE changed nothing. It is violated by
  a late reply: bind, `SetModelSync(mB)` times out, and the daemon has set
  the model to `mB`.
* `IdentityStable` states the spec's rule that the identifier is
  immutable: while an object has its proxy, its path, id, creation time
  and connection never change. Under `LocalWritesSpec` it is violated: bind, then
  `g_object_set (device, "id", ...)` changes the id of the bound object.
  The spec says the identifier is fixed at bind time.
* `ToStringDefined` states that `cd_device_to_string` never crashes: the
  creation time always converts. It is violated under `LocalWritesSpec`:
  `g_object_set` writes the creation time 3, which is out of range for
  `localtime`. The code then hands NULL to `strftime` (line 710). A value
  of 4..5 wraps to a negative `time_t` out of range, too.

Why the bounds are enough:

* Two changes are enough to have two notifications in the queue at once,
  one from this client and one from another client, and to change the same
  key twice.
* One failure is enough to produce a partial profile list, a failed call,
  a late reply and a failed bind.
* Two profiles are the least that let a list be partial, reordered, or
  have a profile appended.
* A 3-bit time has values that convert, values too large, and values that
  wrap to a negative time out of range.
* The safety run has about 736,000 distinct states. The liveness run has
  about 237,000.

Every property of a passing run has a mutant: a plausible bug in the code
that TLC catches.

| Mutant | Property that catches it |
|--------|--------------------------|
| `KindFromString` without the fallback to unknown | `TypeOK` |
| A profile array not cleared before it is refilled | `MirrorConverges` |
| A profile array not cleared before it is refilled | `ProfilesDistinct` |
| `Created` not read at bind | `LifecycleRefined` |
| A wrong signal name in `SignalCb` | `ChangedDelivered` |
| A wrong signal name in `SignalCb` | `ChangedAccounted` |

## Fairness

`Spec` assumes weak fairness of `Dispatch` only. While the process lives
and the proxy holds received signals, the GLib main loop keeps dispatching
them, which is what the code relies on. The calls, other clients and the
daemon get no fairness: they may never act.

## Proofs

All proofs hold for every value of the constants. They rest on these
assumptions:

* `PathsAssumption`;
* `KindAssumption`;
* `ProfilesAssumption` (Profiles is finite);
* `BoundsAssumption`.

`CdDevice_proofs.tla`:

* `TypeCorrect`: `Spec => []TypeOK`. `TypeOK` is inductive as stated,
  because its queue clause already says that every queued message is
  typed. The step lemma `TypeOKStep` has one step per action. It rests on
  lemmas about the operators:
  * `ProfilesArrayOutcomes` yields sequences of profiles;
  * `MoveToFront` keeps a list of profiles a list of profiles (a `SubSeq`
    argument);
  * the kind conversions stay in their types;
  * the dictionaries sent by the daemon and by other clients are typed;
  * `Notify` appends typed messages;
  * `RemoteCall`, with all four outcomes, keeps the types.
* `LifecycleRefinedHolds`: `Spec => LifecycleRefined`. `Init` maps to
  `AInit`. Each step maps to an abstract step or a stutter:
  * `Bind` maps to `BindSnapshot` or `BindFatal`. The snapshot branch is
    taken only when the path is `DevicePath`, and it reads
    `DeviceIdValue` and `CreatedValue`, which is what `BindSnapshot` asks;
  * a bind whose proxy could not be created maps to a stutter;
  * `Finalize` maps to `Release`;
  * `Restart` maps to `Revive`;
  * every other action leaves the mapped state alone.

`CdDevice_mirror_proofs.tla`:

* `MirrorConvergence`: `Spec => []MirrorConverges`. `MirrorConverges` is
  not inductive by itself. The inductive invariant is
  `MirrorInv == TypeOK /\ QueueFacts /\ MirrorConverges`, where
  `QueueFacts` says three things:
  * an object without a proxy is not connected and has an empty queue.
    This is needed so that `Bind` starts from a queue that its snapshot
    already reflects;
  * a connected object has a live proxy at the device's path. This is
    needed so that every daemon change reaches its queue;
  * a queued `Changed` signal carries no property values. This is needed
    so that dispatching it leaves the mirror alone.

  The newest pending change of a property is a set
  (`{i \in Pend : \A j \in Pend : j <= i}`), not a `CHOOSE`. That way the
  proof never needs a maximum to exist. The lemmas show:
  * `AppendNewest`: appending a daemon change's two signals makes the
    change the newest of each property it sets, and leaves the others
    alone;
  * `TailNewest`: dispatching the head keeps every later index newest;
  * `OutcomePrefix`: a resolved profile list is a prefix of the list, and
    the whole list on success.

  The step proof has one lemma per kind of step: `DaemonChangeMirror`,
  `RemoteCallMirror`, `DispatchMirror`, `BindMirror`, `ResetMirror` and
  `QuietStep`.

`CdDevice_changed_proofs.tla`:

* `ChangedAccountedHolds`: `Spec => []ChangedAccounted`. The inductive
  invariant is `ChangedInv == MirrorInv /\ NoProxyQuiet /\ ChangedAccounted`.
  * `MirrorInv` supplies the queue facts: a connected object is
    subscribed, so every daemon change queues its `Changed`.
  * `NoProxyQuiet` says that an object without a proxy has sent and
    emitted nothing. It is needed because `Bind` connects the handlers:
    the count must already balance at that moment, and it does because
    both counters are 0 and the queue is empty.

  The pending count is the cardinality of the set of queue positions that
  hold `Changed`. Two lemmas compute it:
  * `ChangedAtAppend`: appending a daemon change's signals adds one;
  * `ChangedAtTail`: dispatching the head removes one exactly when the
    head is `Changed`. The proof is a bijection between positions and
    `FS_Bijection`.

`CdDevice_distinct_proofs.tla`:

* `ProfilesDistinctHolds`: `Spec => []ProfilesDistinct`. The mirror's list
  comes from the daemon's list at bind time and from queued `Profiles`
  values later. The inductive invariant
  `DistinctInv == TypeOK /\ RemoteDistinct /\ ProfilesDistinct` therefore
  also says that `rProfiles` and every queued `Profiles` value have no
  repeats. TLC checked it as an invariant of the safety instance before it
  was proved. The operator lemmas are:
  * `AppendDistinct`: appending a profile that is not held keeps a list
    without repeats. This is where `AddProfile`'s guard is used;
  * `MoveToFrontElems`: where each element of `MoveToFront` comes from,
    by `ConcatProperties` and `SubSeqProperties`;
  * `MoveToFrontDistinct`: moving a held profile to the front keeps a list
    without repeats, through an injective map of positions;
  * `OutcomeDistinct`: a resolved list, whole or cut at a failure, keeps a
    list without repeats;
  * `ProfileListsDistinct`: the daemon's initial lists and other clients'
    lists have no repeats.

  The step proof `DistinctStep` has one step per action.

Only TLC checks these:

* `ChangedDelivered`. It is liveness under fairness, which is beyond
  TLAPS here. Its safety half, `ChangedAccounted`, is proved.
* The violation runs, which are counterexamples.

## Not modelled

* The string that `cd_device_to_string` builds, and what is left of its
  formatting once the `localtime` domain is modelled.
* Memory ownership: the `object_path_tmp` leak on a failed resolution
  (line 220), and reference counts.
* `cd_device_get_property` and the `cd_device_get_*` accessors. They only
  read the private fields, which are variables of the model.
* `CdProfile` beyond the success or failure of its resolution.
* The daemon's qualifier matching: any outcome is allowed.
* Cancellation: the calls pass NULL for the cancellable, so there is
  nothing to model.

## Plan for later work

1. A mirror specification that takes local writes into account
   (`LocalWritesSpec`): which properties may `g_object_set` disturb, and
   for how long.
2. Larger instances, with three changes and two failures, on a machine
   with time for them.
3. A liveness property for the detached state: an object whose bind failed
   on a profile never resynchronises, stated and checked as such.
