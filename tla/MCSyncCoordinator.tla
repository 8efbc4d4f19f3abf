------------------------- MODULE MCSyncCoordinator -------------------------
(***************************************************************************)
(* SyncCoordinator on small instances.                                     *)
(***************************************************************************)
EXTENDS SyncCoordinator, TLC

CONSTANTS n1, n2

NoteSymmetry == Permutations({n1, n2})
=============================================================================
