------------------------- MODULE MCBundleRecovery -------------------------
(***************************************************************************)
(* BundleRecovery with three processes, two members and one optional file.   *)
(***************************************************************************)
EXTENDS BundleRecovery, TLC

CONSTANTS p1, p2, p3, storage, notes, logs

ProcSymmetry == Permutations({p1, p2, p3})
=============================================================================
