SPECIFICATION Spec
CONSTANTS
  SteeringMode = "all"
  FollowUpMode = "one-at-a-time"
  Concurrency = 1
  MaxCalls = 2
  MaxToolTurns = 1
  MaxUser = 3
  MaxRetries = 0
  MayThrow = TRUE
CHECK_DEADLOCK FALSE
INVARIANTS
  SkipsAreExplained
PROPERTIES
  IsConversation
