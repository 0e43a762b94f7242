-------------------------- MODULE DeviceLifecycle --------------------------
(***************************************************************************)
(* What a device snapshot promises about its binding (spec.md, sections 3 *)
(* and 4.1), with no bus or profile list in sight.  A snapshot is created *)
(* empty and unbound.  One bind makes it                                   *)
(*   - "bound": bound to the device's path, with the device's identifier  *)
(*     and creation time, and its notifications flowing;                   *)
(*   - "detached": the same, but a profile failed to resolve, so it never *)
(*     hears of the device again;                                          *)
(*   - or, where the process does not survive the bind, "dead", with the  *)
(*     path it was given.                                                  *)
(* Identifier, creation time and path are then fixed until the owner       *)
(* releases the snapshot, which makes it unbound and empty again; a dead   *)
(* process is restarted with an unbound snapshot.                          *)
(***************************************************************************)
CONSTANTS
    Paths,          \* object paths a bind may be given
    DevicePath,     \* the path at which the device is exported
    DeviceId,       \* the device's identifier
    DeviceCreated,  \* the device's creation time
    NoValue         \* the empty path or identifier

VARIABLES
    state,      \* "unbound", "bound", "detached" or "dead"
    path,       \* the path of the binding
    ident,      \* the identifier read at bind time
    stamp       \* the creation time read at bind time

avars == <<state, path, ident, stamp>>

States == {"unbound", "bound", "detached", "dead"}

\* The empty snapshot.
Empty ==
    /\ path' = NoValue
    /\ ident' = NoValue
    /\ stamp' = 0

AInit ==
    /\ state = "unbound"
    /\ path = NoValue
    /\ ident = NoValue
    /\ stamp = 0

\* A bind that reads the device's snapshot at its path; it is bound or, if
\* a profile failed to resolve, detached.
BindSnapshot ==
    /\ state = "unbound"
    /\ state' \in {"bound", "detached"}
    /\ path' = DevicePath
    /\ ident' = DeviceId
    /\ stamp' = DeviceCreated

\* A bind that the process does not survive.
BindFatal(p) ==
    /\ state = "unbound"
    /\ state' = "dead"
    /\ path' = p
    /\ UNCHANGED <<ident, stamp>>

\* The owner releases the snapshot and starts from an empty one.
Release ==
    /\ state # "dead"
    /\ state' = "unbound"
    /\ Empty

\* The dead process is started again.
Revive ==
    /\ state = "dead"
    /\ state' = "unbound"
    /\ Empty

ANext ==
    \/ BindSnapshot
    \/ \E p \in Paths : BindFatal(p)
    \/ Release
    \/ Revive

ASpec == AInit /\ [][ANext]_avars

=============================================================================
