SPECIFICATION Spec
CONSTANTS
  MaxRecords = 1
  Malformed = {1}
  QueueMaxsize = 1
  MaxCycles = 1
  MaxCancels = 0
INVARIANT
  RunsWhileActive
