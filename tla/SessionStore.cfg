SPECIFICATION Spec
CONSTANTS
  f1 = f1
  f2 = f2
  Files <- MCFiles
  Scopes <- StoreScopes
SYMMETRY Symmetry
CHECK_DEADLOCK FALSE
INVARIANTS
  TypeOK
  LabelsAreCurrent
  NoDuplicateLines
  PathsIntact
  Durable
  ReloadEquivalent
PROPERTIES
  AppendOnly
