----------------------------- MODULE MCRunDemo -----------------------------
(***************************************************************************)
(* RunDemo with the script of run_demo and the repository's waypoint file, *)
(* on the robot and with the prompts of the launch file's defaults; or     *)
(* unprompted, in simulation and without one of the names the script uses. *)
(***************************************************************************)
EXTENDS RunDemo, DemoScript

ASSUME NothingAllowedAgain == NotAllowedAgain

ASSUME RestoredInTime == RestoresInTime

ASSUME ArcsComeFirst == ArcBeforePublish

ASSUME ReleasedAtTheBench == ReleasesOnlyAtTheBench

ASSUME GraspedAfterReaching == GraspsAfterReaching

ASSUME TheBagIsCarried == CarriesTheBag

Robot == parameter_setup([waypoint_cfg |-> waypoints_yaml, hw |-> TRUE])

RobotPrompt == Robot.wait_for_prompt
RobotHw == Robot.hw
RobotWaypoints == Robot.wp_map

Simulation ==
  parameter_setup(
    [waypoint_cfg |-> [n \in DOMAIN waypoints_yaml \ {"center_ctb"} |-> waypoints_yaml[n]],
     wait_for_prompt |-> FALSE])

SimulationPrompt == Simulation.wait_for_prompt
SimulationHw == Simulation.hw
SimulationWaypoints == Simulation.wp_map

\* Two fingers that touch by construction are not checked against each other.
MCInitialAcm == {{"finger_1_link", "finger_2_link"}}
=============================================================================
