--------------------------- MODULE MCLocalWrites ---------------------------
(***************************************************************************)
(* LocalWrites with the two writers that the daemon is wired with: MCP's    *)
(* and the operator's.  (A writer without an origin differs from the        *)
(* operator's in its rank only; the theorems cover it.)                     *)
(***************************************************************************)
EXTENDS LocalWrites, TLC

CONSTANTS n1, n2, mcp, operator

MCOriginOf == mcp :> "mcp" @@ operator :> "operator"
=============================================================================
