SPECIFICATION FairSpec
CONSTANTS
  Callers = {c1, c2}
  MaxRetries = 1
  Budgets <- LivelyBudgets
CHECK_DEADLOCK FALSE
PROPERTIES
  PromptReturns
  CompactionResumes
