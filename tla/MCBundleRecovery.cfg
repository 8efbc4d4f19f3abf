SPECIFICATION Spec
CONSTANTS
  p1 = p1
  p2 = p2
  p3 = p3
  storage = storage
  notes = notes
  logs = logs
  Procs = {p1, p2, p3}
  None = None
  Stale = Stale
  CarelessBound = 1
  Required = {storage, notes}
  Extra = {logs}
  DeathBound = 1
  FailureBound = 1
SYMMETRY ProcSymmetry
INVARIANTS
  LockFileIsKept
  NeverMixed
  AlwaysResumable
PROPERTIES
  NothingIsLost
  SuccessIsTrue
