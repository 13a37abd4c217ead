SPECIFICATION FairSpec
CONSTANTS
  Callers = {h1, h2}
  Backends = {b1, b2}
  MaxCycles = 2
  MaxCancels = 1
INVARIANTS
  TypeOK
  NoOrphanTasks
  AcceptMeansServed
  ReturnLeavesNothing
PROPERTIES
  StopEnds
