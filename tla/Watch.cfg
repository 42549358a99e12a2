CONSTANTS
  MaxSteps = 4
  QueueCap = 2
SPECIFICATION FairSpec
INVARIANTS TypeOK QuietMeansCurrent
PROPERTIES CatchesUp CancelStops CloseStops
CHECK_DEADLOCK FALSE
