CONSTANTS
  Configs = {q1}
  None = None
  Missing = Missing
  Menu <- MCMenu
  Overlap = TRUE
  EarlyUse = TRUE
SPECIFICATION FairSpec
CHECK_DEADLOCK FALSE
INVARIANTS TypeOK NoPathWithoutPlan
PROPERTIES BecomesReady
