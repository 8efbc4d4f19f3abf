---------------------------- MODULE RuntimeLease ----------------------------
(***************************************************************************)
(* What ending the daemon promises of the runtime and its database: it is   *)
(* released once, nobody uses it anew afterwards, and no operation is at    *)
(* work in it then.  When the daemon ends on a failure's path it is          *)
(* released early: operations whose client has gone may still be at work.   *)
(***************************************************************************)
VARIABLES
  inUse,     \* operations of clients that are there, or of the operator, are at work
  orphans,   \* operations whose client has gone are at work
  released   \* "no", "cleanly" or "early"

leaseVars == <<inUse, orphans, released>>

LeaseInit == inUse = FALSE /\ orphans = FALSE /\ released = "no"

\* Operations begin, lose their client and end.
Uses == released = "no" /\ inUse' \in BOOLEAN /\ orphans' \in BOOLEAN /\ UNCHANGED released

ReleasesCleanly ==
  /\ released = "no" /\ ~inUse /\ ~orphans
  /\ released' = "cleanly"
  /\ UNCHANGED <<inUse, orphans>>

ReleasesEarly ==
  /\ released = "no" /\ ~inUse
  /\ released' = "early"
  /\ UNCHANGED <<inUse, orphans>>

OrphansEnd == released = "early" /\ orphans' = FALSE /\ UNCHANGED <<inUse, released>>

LeaseSpec == LeaseInit /\ [][Uses \/ ReleasesCleanly \/ ReleasesEarly \/ OrphansEnd]_leaseVars
=============================================================================
