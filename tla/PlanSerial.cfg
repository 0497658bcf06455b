CONSTANTS
  Configs = {q1, q2}
  None = None
  Missing = Missing
  Menu <- MCMenu
  Overlap = FALSE
  EarlyUse = FALSE
SPECIFICATION Spec
CHECK_DEADLOCK FALSE
INVARIANTS ShownIsPlanned ShownIsTarget ActsOnWhatIsShown ResetLeavesNoPlan NothingUnsetIsUsed
PROPERTIES ImplementsWorkbench
