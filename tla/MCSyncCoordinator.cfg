SPECIFICATION CoordinatorSpec
CONSTANTS
  n1 = n1
  n2 = n2
  Notes = {n1, n2}
  Reserved = Reserved
  MaxPending = 2
  KeepsApproval = TRUE
  MaxAttempts = 2
  SequenceBound = 3
  CrashBound = 1
  Kinds = {"append"}
  Claims = {"mcp", "operator"}
  Requested = {"none", "allow"}
SYMMETRY NoteSymmetry
INVARIANTS
  QueueLoadable
  SequenceNamesOneWrite
  OriginNeverWeakens
PROPERTIES
  DrainTakesOnlyItsBatch
  BlockingPersists
