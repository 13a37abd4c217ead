SPECIFICATION FairSpec
CONSTANTS
  Emitters = {e1}
  Backends = {console}
  Reporters = {console}
  QueueMaxsize = 1
  MaxTickets = 2
  MaxCycles = 2
PROPERTIES
  StopReturns IngressDrained EventuallySettled
