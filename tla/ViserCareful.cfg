CONSTANTS
  Configs = {q0, q1}
  Home = q0
  None = None
  Workers = {w1}
  Used <- MCUsed
  Careful = TRUE
  MaxQueue = 1
SPECIFICATION Spec
CHECK_DEADLOCK FALSE
INVARIANTS TypeOK PlanButtonIsRight NoPlanDuringAnimation PlanShowsItsStart
PROPERTIES SnapsToShown
