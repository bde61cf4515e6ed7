SPECIFICATION FairSpec
CONSTANTS
  SteeringMode = "one-at-a-time"
  FollowUpMode = "all"
  Concurrency = 2
  MaxCalls = 3
  MaxToolTurns = 1
  MaxUser = 2
  MaxRetries = 1
  MayThrow = FALSE
CHECK_DEADLOCK FALSE
INVARIANTS
  TypeOK
  ToolCallsAnswered
  ViewFollowsLoop
  WritesRunAlone
  ResultsComplete
PROPERTIES
  RunEnds
