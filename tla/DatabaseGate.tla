---------------------------- MODULE DatabaseGate ----------------------------
(***************************************************************************)
(* What src/core/notesnook-database-mutex.ts promises to the code that runs *)
(* under it: the exclusive side is held by one client alone, the shared     *)
(* side by any number, and nobody changes sides without leaving.            *)
(***************************************************************************)
EXTENDS Naturals, FiniteSets

CONSTANT Clients

VARIABLE held   \* the side each client holds

Sides == {"none", "shared", "exclusive"}

Lawful(sides) ==
  \A c, d \in Clients :
    c # d /\ sides[c] = "exclusive" => sides[d] = "none"

GateInit == held = [c \in Clients |-> "none"]

\* Clients enter and leave, at most one leaving at a time; a leaver's place
\* may be handed on to others in the same step.
GateStep ==
  /\ held' \in [Clients -> Sides]
  /\ Lawful(held')
  /\ \A c \in Clients : held'[c] # held[c] => "none" \in {held[c], held'[c]}
  /\ \A c, d \in Clients :
       held[c] # "none" /\ held'[c] = "none" /\ held[d] # "none" /\ held'[d] = "none" => c = d

GateSpec == GateInit /\ [][GateStep]_held

\* The exclusive side is exclusive.
Exclusion == Lawful(held)
=============================================================================
