SPECIFICATION TerminalSpec
CONSTANTS
  Callers = {c1, c2, c3}
  Loop = c1
  Flushers = {c2, c3}
  Clients = {c1}
  MaxRetries = 1
  Budgets <- TerminalBudgets
CHECK_DEADLOCK FALSE
INVARIANTS
  TerminalTypeOK
  CopiesAgree
  RecoveryBounded
  TextsKept
  EscapeActs
PROPERTIES
  RemovesOnlyFailures
