SPECIFICATION Spec
CONSTANTS
  QueueMaxsize = 1
  MaxCalls = 2
  RecursionLimit = 2
INVARIANT
  EmitNeverRaises
