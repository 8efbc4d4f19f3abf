SPECIFICATION FairSpec
CONSTANTS
  n1 = n1
  n2 = n2
  mcp = mcp
  operator = operator
  Writers = {mcp, operator}
  OriginOf <- MCOriginOf
  Syncer = Syncer
  Nobody = Nobody
  Notes = {n1, n2}
  Existing = {n1}
  Reserved = Reserved
  MaxPending = 2
  KeepsApproval = TRUE
  MaxAttempts = 2
  SequenceBound = 9
  CrashBound = 1
  WriteBound = 3
  Kinds = {"update"}
  Claims = {"mcp", "operator"}
  Requested = {"none"}
INVARIANTS
  TypeOK
  UnsyncedIsMarked
  OnlyReleasedLeaves
  CommitHasRoom
  BatchIsTheQueue
PROPERTIES
  GateIsHandedBack
