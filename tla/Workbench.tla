----------------------------- MODULE Workbench -----------------------------
(***************************************************************************)
(* What plan_and_execute_node promises its operator: a target, at most one *)
(* plan, and four operations that each happen at one instant.              *)
(* PlanAndExecute implements it as long as the marker's menu and the       *)
(* services are not used at the same time.                                 *)
(***************************************************************************)
CONSTANTS Configs,   \* joint configurations
          None

VARIABLES target,    \* where the marker was moved, or None
          plan,      \* the trajectory that Execute would send, or None
          sent       \* the last trajectory given to the controller, or None

vars == <<target, plan, sent>>

Init == target = None /\ plan = None /\ sent = None

\* The marker is moved to a reachable pose; a plan made before is kept.
Aim == target' \in Configs /\ UNCHANGED <<plan, sent>>

\* From wherever the robot is to the target as it now is.
Plan ==
  /\ target # None
  /\ \E c \in Configs : plan' = [from |-> c, to |-> target]
  /\ UNCHANGED <<target, sent>>

Execute == plan # None /\ sent' = plan /\ UNCHANGED <<target, plan>>

Reset == target' = None /\ plan' = None /\ UNCHANGED sent

Next == Aim \/ Plan \/ Execute \/ Reset

Spec == Init /\ [][Next]_vars
=============================================================================
