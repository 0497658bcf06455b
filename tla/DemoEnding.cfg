CONSTANTS
  Script <- run_demo
  wp_map <- SimulationWaypoints
  wait_for_prompt <- SimulationPrompt
  hw <- SimulationHw
  InitialAcm <- MCInitialAcm
  MaxLaunches = 1
SPECIFICATION FairSpec
CHECK_DEADLOCK FALSE
INVARIANTS SuccessNeedsEveryWaypoint
PROPERTIES DemoEnds ComesCloser
