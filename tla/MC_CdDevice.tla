---------------------------- MODULE MC_CdDevice ----------------------------
(***************************************************************************)
(* A small instance of CdDevice for TLC: one exported device, one path     *)
(* that names no device, the device's id and one other id, two models,    *)
(* one kind the client knows, the unknown kind's name and one newer kind   *)
(* name, two profiles.                                                     *)
(***************************************************************************)
EXTENDS CdDevice

CONSTANTS pDevice, pOther, idDev, idOther, mA, mB, kDisplay, kUnknownName,
          kNewer, kEnumUnknown, prof1, prof2, nullStr

MC_ObjectPaths == {pDevice, pOther}
MC_Ids == {idDev, idOther}
MC_Models == {mA, mB}
MC_OneModel == {mA}
MC_KnownKindNames == {kDisplay}
MC_KindNames == {kDisplay, kUnknownName, kNewer}
MC_Profiles == {prof1, prof2}
\* Every sequence of profiles of length at most 2: all the lists the daemon
\* holds, and their prefixes.
MC_ProfileSeqs == UNION {[1..n -> MC_Profiles] : n \in 0..2}
=============================================================================
