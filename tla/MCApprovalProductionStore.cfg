SPECIFICATION ApprovalSpec
CONSTANTS
  n1 = n1
  Notes = {n1}
  Reserved = Reserved
  MaxPending = 2
  KeepsApproval = FALSE
  MaxAttempts = 1
  SequenceBound = 3
  CrashBound = 0
  Kinds = {"append"}
  Claims = {"mcp", "operator"}
  Requested = {"none"}
INVARIANTS
  ApprovalPersists
