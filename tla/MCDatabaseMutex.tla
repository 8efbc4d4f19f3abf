-------------------------- MODULE MCDatabaseMutex --------------------------
(***************************************************************************)
(* DatabaseMutex with a handful of clients.                                *)
(***************************************************************************)
EXTENDS DatabaseMutex

CONSTANTS c1, c2, c3, c4
=============================================================================
