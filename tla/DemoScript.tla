---------------------------- MODULE DemoScript -----------------------------
(***************************************************************************)
(* What run_demo does, as a sequence of the operations that module RunDemo *)
(* carries out.  One definition per member function of RunDemoNode, under  *)
(* the function's name; the waypoints of the yaml file, and how they are   *)
(* loaded.                                                                 *)
(***************************************************************************)
EXTENDS Sequences

\* plan_and_execute(wp_map.at(n)), whose result the function returns.
Motion(n) == <<[kind |-> "motion", name |-> n, uses |-> {n}, onFail |-> "return"]>>

\* plan_and_execute of a pose computed with the named waypoints.
Computed(n, uses, onFail) ==
  <<[kind |-> "computed", name |-> n, uses |-> uses, onFail |-> onFail]>>

\* set_collisions(allowed, "bench_lid", link), whose result nobody looks at.
SetCollisions(allowed, link) ==
  <<[kind |-> "collisions", allowed |-> allowed, pair |-> {"bench_lid", link},
     onFail |-> "discard"]>>

GetGlobalTransform == <<[kind |-> "lookup", onFail |-> "return"]>>

-----------------------------------------------------------------------------
(* The functions that run_demo calls.                                      *)

AllThree(allowed) ==
  SetCollisions(allowed, "finger_1_link") \o SetCollisions(allowed, "finger_2_link")
    \o SetCollisions(allowed, "gripper_base_link")

open_bench_seat ==
  AllThree(TRUE)
    \o GetGlobalTransform         \* bench_lid
    \o GetGlobalTransform         \* grasp_frame
    \o <<[kind |-> "arc", name |-> "bench_arc", uses |-> {}, onFail |-> "remember"]>>
    \o AllThree(FALSE)
    \o <<[kind |-> "publish", onFail |-> "return"]>>

approach_ctb_handle ==
  <<[kind |-> "detect", onFail |-> "return"]>>
    \o GetGlobalTransform         \* the camera's frame
    \o Computed("above_handle", {"ctb_offset"}, "discard")
    \o Motion("descend_to_ctb_handle")

demo_home == Motion("demo_home")
init == Motion("init")
approach_bench_seat == Motion("approach_bench_seat")
back_out == Motion("back_out")
approach_stow == Motion("approach_stow")
stow == Motion("stow")
traverse_right == Motion("traverse_right")
close_grasp == Motion("close_grasp")
lift_ctb == Motion("lift_relative") \o Motion("stow_ctb") \o Motion("lift_lift")
reorient_ctb == GetGlobalTransform \o Computed("approach_wp_1", {}, "return")
traverse_left_1 == Motion("traverse_left_1")
pre_drop_ctb == Motion("pre_drop_ctb")
traverse_left_2 == Motion("traverse_left_2")
center_ctb == Motion("center_ctb")
drop_ctb == Motion("drop_arm") \o Motion("drop_lift")
open_grasp == Motion("open_grasp")
back_off == Motion("back_off")

\* run_demo returns as soon as one of its functions returns false.
run_demo ==
  demo_home \o init \o approach_bench_seat \o open_bench_seat
    \o back_out \o approach_stow \o stow \o traverse_right \o open_grasp
    \o approach_ctb_handle \o close_grasp \o lift_ctb \o reorient_ctb
    \o traverse_left_1 \o pre_drop_ctb \o traverse_left_2 \o center_ctb
    \o drop_ctb \o open_grasp \o back_off \o demo_home

-----------------------------------------------------------------------------
(* The waypoint file.  An entry has the keys that decide how it is planned *)
(* (the ones with a value that is not looked at are in `has').             *)

\* load_waypoints_from_yaml: the first of config, pose and preset_name counts.
LoadWaypoint(e) ==
  LET kind == CHOOSE k \in e.has :
                \/ k = "config"
                \/ k = "pose" /\ "config" \notin e.has
                \/ k = "preset_name" /\ e.has \cap {"config", "pose"} = {}
  IN  [is_preset      |-> kind = "preset_name",
       use_jconfig    |-> kind = "config",
       plan_cartesian |-> kind # "preset_name" /\ e.cartesian,
       is_relative    |-> kind = "pose" /\ e.relative]

\* An entry with none of the three keys is skipped.
load_waypoints_from_yaml(file) ==
  [n \in {m \in DOMAIN file : file[m].has # {}} |-> LoadWaypoint(file[n])]

Configs == {"demo_home", "init", "approach_bench_seat", "approach_stow", "stow",
            "traverse_right", "lift_lift", "traverse_left_1", "traverse_left_2",
            "drop_lift"}
RelativePoses == {"back_out", "ctb_offset", "descend_to_ctb_handle",
                  "lift_relative", "stow_ctb", "center_ctb", "drop_arm", "back_off"}
AbsolutePoses == {"pre_drop_ctb"}
Presets == {"close_grasp", "open_grasp"}

waypoints_yaml ==
  [n \in Configs \cup RelativePoses \cup AbsolutePoses \cup Presets |->
     [has |-> CASE n \in Configs -> {"config"}
                [] n \in Presets -> {"preset_name"}
                [] OTHER -> {"pose"},
      cartesian |-> n \in RelativePoses,
      relative  |-> n \in RelativePoses]]
-----------------------------------------------------------------------------
\* parameter_setup, from the parameters that were given: the others have
\* defaults, and without a waypoint file there are no waypoints.
parameter_setup(given) ==
  [wait_for_prompt |-> "wait_for_prompt" \in DOMAIN given => given.wait_for_prompt,
   hw              |-> "hw" \in DOMAIN given /\ given.hw,
   wp_map          |-> IF "waypoint_cfg" \in DOMAIN given
                       THEN load_waypoints_from_yaml(given.waypoint_cfg)
                       ELSE [n \in {} |-> n]]
=============================================================================
