SPECIFICATION FairSpec
CONSTANTS
  SteeringMode = "one-at-a-time"
  FollowUpMode = "one-at-a-time"
  Concurrency = 2
  MaxCalls = 1
  MaxToolTurns = 1
  MaxUser = 1
  MaxRetries = 0
  MayThrow = TRUE
CHECK_DEADLOCK FALSE
PROPERTIES
  RunEnds
