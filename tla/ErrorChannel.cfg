SPECIFICATION Spec
CONSTANTS
  QueueMaxsize = 2
  MaxCalls = 5
  RecursionLimit = 2
INVARIANT
  TypeOK
PROPERTIES
  StoppingNeverRaises LoopYieldsOnceStopping
