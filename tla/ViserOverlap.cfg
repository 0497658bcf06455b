CONSTANTS
  Configs = {q0}
  Home = q0
  None = None
  Workers = {w1, w2}
  Used <- MCPlanning
  Careful = FALSE
  MaxQueue = 1
SPECIFICATION FairSpec
CHECK_DEADLOCK FALSE
INVARIANTS AssertsHold AnimateHasTrajectory
PROPERTIES GivesButtonBack
