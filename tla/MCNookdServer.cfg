SPECIFICATION FairSpec
CONSTANTS
  c1 = c1
  c2 = c2
  o1 = o1
  Conns = {c1, c2}
  Operators = {o1}
  MaxConnections = 2
  MaxRequests = 2
  Burst = 1
  FrameBound = 1
CHECK_DEADLOCK FALSE
INVARIANTS
  ServerTypeOK
  OperationsAreBounded
  NoFrameIsStranded
  SilenceIsWatched
PROPERTIES
  NoLateOperation
  ReleasedWhenUnused
  PlacesComeBack
  ShutdownEnds
