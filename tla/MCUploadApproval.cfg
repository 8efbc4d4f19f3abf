SPECIFICATION ApprovalSpec
CONSTANTS
  n1 = n1
  Notes = {n1}
  Reserved = Reserved
  MaxPending = 2
  KeepsApproval = TRUE
  MaxAttempts = 1
  SequenceBound = 3
  CrashBound = 1
  Kinds = {"append"}
  Claims = {"mcp", "operator"}
  Requested = {"none"}
PROPERTIES
  ApprovesOnlyWhatWasShown
  OnlyApprovalApproves
