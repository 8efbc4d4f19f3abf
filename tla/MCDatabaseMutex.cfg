SPECIFICATION FairSpec
CONSTANTS
  c1 = c1
  c2 = c2
  c3 = c3
  c4 = c4
  Clients = {c1, c2, c3, c4}
  MaxDepth = 2
  MaxSharedDepth = 2
INVARIANTS
  MutexInv
PROPERTIES
  NoOvertaking
  ImplementsGate
  EveryWaiterEnters
