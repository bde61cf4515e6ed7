SPECIFICATION Spec
CONSTANTS
  f1 = f1
  f2 = f2
  Files <- MCFiles
  Scopes <- ForkScopes
SYMMETRY Symmetry
CHECK_DEADLOCK FALSE
INVARIANT
  HistoryIntact
