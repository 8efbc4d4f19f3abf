SPECIFICATION Spec
CONSTANTS
  r1 = r1
  r2 = r2
  Requests = {r1}
  None = None
  OpBound = 1
  Size <- MCSize
  MaxRecords = 2
  MaxBytes = 8
  RevBound = 3
  FaultBound = 0
  StopBound = 0
CHECK_DEADLOCK FALSE
PROPERTIES
  UndoTakesBackItsEdit
