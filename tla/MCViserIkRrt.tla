---------------------------- MODULE MCViserIkRrt ----------------------------
(***************************************************************************)
(* Small instances of ViserIkRrt: one configuration and the controls that  *)
(* touch buttons and trajectories where the properties are about these,    *)
(* two configurations and every control where they are about the display.  *)
(***************************************************************************)
EXTENDS ViserIkRrt

MCUsed == Controls
MCPlanning == {"capture_start", "capture_goal", "plan", "animate"}
=============================================================================
