CONSTANTS
  Configs = {q1}
  None = None
  Missing = Missing
  Menu <- MCMenu
  Overlap = TRUE
  EarlyUse = FALSE
SPECIFICATION Spec
CHECK_DEADLOCK FALSE
INVARIANTS NothingUnsetIsUsed
