--------------------------- MODULE ToggleService ---------------------------
(***************************************************************************)
(* What the toggle_collision service promises its callers: between the     *)
(* request and the reply, one atomic update of the collision matrix as it  *)
(* then is (or none, if MoveIt rejects it), and a reply that tells which.  *)
(* AcmModifier implements it as long as requests do not overlap.           *)
(***************************************************************************)
EXTENDS PlanningScene

CONSTANTS Clients,     \* callers of the service, one request each at a time
          Links,       \* the gripper_links parameter
          Targets,     \* names that a request can be about
          InitialAcm   \* the matrix the scene starts with

VARIABLES scene,    \* the matrix
          allow,    \* [Clients -> BOOLEAN], the request's data field
          outcome   \* [Clients -> Outcome]

vars == <<scene, allow, outcome>>

Outcome == {"none", "pending", "applied", "rejected", "ok", "failed"}

Init ==
  /\ scene = InitialAcm
  /\ allow = [c \in Clients |-> FALSE]
  /\ outcome = [c \in Clients |-> "none"]

\* A caller without a request in progress sends one.
Ask(c) ==
  /\ outcome[c] \in {"none", "ok", "failed"}
  /\ \E a \in BOOLEAN : allow' = [allow EXCEPT ![c] = a]
  /\ outcome' = [outcome EXCEPT ![c] = "pending"]
  /\ UNCHANGED scene

\* The instant at which the request takes effect.
Apply(c) ==
  /\ outcome[c] = "pending"
  /\ \E t \in Targets : scene' = SetEntries(scene, PairsWith(Links, t), allow[c])
  /\ outcome' = [outcome EXCEPT ![c] = "applied"]
  /\ UNCHANGED allow

Reject(c) ==
  /\ outcome[c] = "pending"
  /\ outcome' = [outcome EXCEPT ![c] = "rejected"]
  /\ UNCHANGED <<scene, allow>>

Answer(c) ==
  /\ outcome[c] \in {"applied", "rejected"}
  /\ outcome' = [outcome EXCEPT ![c] = IF @ = "applied" THEN "ok" ELSE "failed"]
  /\ UNCHANGED <<scene, allow>>

Next == \E c \in Clients : Ask(c) \/ Apply(c) \/ Reject(c) \/ Answer(c)

Spec == Init /\ [][Next]_vars
=============================================================================
