CONSTANTS
  Script <- run_demo
  wp_map <- RobotWaypoints
  wait_for_prompt <- RobotPrompt
  hw <- RobotHw
  InitialAcm <- MCInitialAcm
  MaxLaunches = 1
SPECIFICATION Spec
CHECK_DEADLOCK FALSE
INVARIANTS GraspOnlyAtHandle
