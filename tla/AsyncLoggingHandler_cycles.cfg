SPECIFICATION Spec
CONSTANTS
  Emitters = {e1, e2}
  Backends = {console, broker}
  Reporters = {console}
  QueueMaxsize = 1
  MaxTickets = 2
  MaxCycles = 2
SYMMETRY Symmetry
INVARIANTS
  TypeOK NoLostWakeup UnfinishedBalanced Conserved
  CompletedMeansSettled StoppedIsClean
PROPERTIES
  ImplementsDelivery HandledInOrder DropsOnlyLateOrTimedOut SilentDropsAreLate
