SPECIFICATION FairSpec
CONSTANTS
  Callers = {c1}
  MaxRetries = 1
  Budgets <- Hangs
CHECK_DEADLOCK FALSE
PROPERTIES
  PromptReturns
