-------------------------- MODULE MCPlanAndExecute --------------------------
(***************************************************************************)
(* Small instances of PlanAndExecute: two configurations, so that the      *)
(* robot can be elsewhere than where it was and than where it is to go.    *)
(***************************************************************************)
EXTENDS PlanAndExecute

MCMenu == Operations
=============================================================================
