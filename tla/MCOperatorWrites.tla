-------------------------- MODULE MCOperatorWrites --------------------------
(***************************************************************************)
(* OperatorWrites with two requests at a time.                             *)
(***************************************************************************)
EXTENDS OperatorWrites, TLC

CONSTANTS r1, r2

\* An edit's frame goes 1, 2, 3 (committed, with its revision), 2 (undone); a
\* create's 1, 2, 1; an aborted one goes back to 1.
MCSize == [f \in Forms |->
  (IF f[1] \in {"committing", "unresolved"} \/ (f[1] = "committed" /\ f[2] = "edit") THEN 2 ELSE 1)
    + (IF f[3] THEN 1 ELSE 0)]

RequestSymmetry == Permutations({r1, r2})
=============================================================================
