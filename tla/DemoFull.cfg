CONSTANTS
  Script <- run_demo
  wp_map <- RobotWaypoints
  wait_for_prompt <- RobotPrompt
  hw <- RobotHw
  InitialAcm <- MCInitialAcm
  MaxLaunches = 2
SPECIFICATION Spec
CHECK_DEADLOCK FALSE
INVARIANTS
  TypeOK ExecutesTheLastPlan FailuresStopTheDemo ChecksRestored
  OnlyTheArcIsUnchecked PublishedOnlyIfOpen SuccessMeansPlaced
PROPERTIES DroppedOnlyByARelaunch
