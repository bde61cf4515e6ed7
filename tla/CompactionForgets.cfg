SPECIFICATION Spec
CONSTANTS
  KeepRecent = 3
  Sizes = {1, 3}
  MaxEntries = 6
  MaxCompactions = 2
CHECK_DEADLOCK FALSE
INVARIANTS
  NothingForgotten
