SPECIFICATION FairSpec
CONSTANTS
  Kinds = {"console", "plain", "rotating", "timed", "watched"}
  MaxRecords = 2
  QueueMaxsize = 2
  MaxCycles = 2
  MaxCancels = 2
INVARIANTS
  TypeOK SoleWriter ClosedAtEnd
PROPERTIES
  ImplementsSink CancelEnds SettledUnlessCancelled
