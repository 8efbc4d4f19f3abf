SPECIFICATION Spec
CONSTANTS
  r1 = r1
  r2 = r2
  Requests = {r1, r2}
  None = None
  OpBound = 3
  Size <- MCSize
  MaxRecords = 2
  MaxBytes = 5
  RevBound = 2
  FaultBound = 1
  StopBound = 1
SYMMETRY RequestSymmetry
CHECK_DEADLOCK FALSE
INVARIANTS
  ChangeIsRecorded
  OutcomeIsTrue
PROPERTIES
  DirectoryWithinBounds
  UncertainIsKept
  UndoReplacesItsRevision
