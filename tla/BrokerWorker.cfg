SPECIFICATION FairSpec
CONSTANTS
  MaxRecords = 3
  Malformed = {}
  QueueMaxsize = 2
  MaxCycles = 2
  MaxCancels = 2
INVARIANTS
  TypeOK DeadClientDropped BackoffMatchesFailures ReleasedAtEnd
PROPERTIES
  ImplementsSink CancelEnds SettledWhenReachable
