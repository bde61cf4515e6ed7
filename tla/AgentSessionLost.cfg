SPECIFICATION Spec
CONSTANTS
  Callers = {c1, c2}
  MaxRetries = 1
  Budgets <- Lost
CHECK_DEADLOCK FALSE
INVARIANTS
  ContextMatchesFile
