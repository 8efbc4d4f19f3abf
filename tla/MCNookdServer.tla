--------------------------- MODULE MCNookdServer ---------------------------
(***************************************************************************)
(* NookdServer with two connections and one operator's.                    *)
(***************************************************************************)
EXTENDS NookdServer

CONSTANTS c1, c2, o1
=============================================================================
