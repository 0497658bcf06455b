---------------------------- MODULE AcmModifier ----------------------------
(***************************************************************************)
(* acm_modifier_node: the toggle_collision service, which disables or      *)
(* re-enables collision checks between the gripper and the part named by   *)
(* the target_part parameter.                                              *)
(*                                                                         *)
(* A handler reads move_group's matrix, changes its copy and writes the    *)
(* copy back.  The service's callback group is reentrant, so handlers run  *)
(* concurrently, each on a thread of the executor and blocked there while  *)
(* it waits for move_group.  A response reaches the handler's future only  *)
(* when another thread of the same executor takes it from the client.      *)
(***************************************************************************)
EXTENDS PlanningScene, Naturals, FiniteSets

CONSTANTS Clients,         \* callers of ~/toggle_collision
          Links,           \* the gripper_links parameter
          Parts,           \* values that target_part may be given
          Names,           \* names the matrix can hold an entry for
          InitialAcm,      \* the matrix before the first request
          Threads,         \* threads of the MultiThreadedExecutor
          MaxOutstanding,  \* requests that callers have in progress at once
          Prompt           \* does move_group answer every call within 5 s?

Pairs == UNION {PairsWith(Names, n) : n \in Names}

\* handle_toggle_service's translation of target_part.
TargetOf(part) ==
  IF part \in {"all", "", "default_part_name"} THEN "" ELSE part

Targets == {TargetOf(p) : p \in Parts}

ASSUME AcmModifierAssumption ==
  /\ IsFiniteSet(Clients)
  /\ Parts # {}
  /\ Links \subseteq Names
  /\ Targets \cup {""} \subseteq Names     \* "" is a name like any other
  /\ InitialAcm \subseteq Pairs
  /\ Threads \in Nat /\ Threads >= 2      \* rclcpp's default is at least 2
  /\ MaxOutstanding \in Nat
  /\ Prompt \in BOOLEAN

VARIABLES scene,        \* move_group's matrix
          target_part,  \* the ROS parameter
          node,         \* "up", or "crashed" by the null response of a timeout
          pc,           \* where each caller's request is
          allow,        \* the request's data field
          target,       \* the handler's local: the name it works on
          call,         \* the handler's call to move_group
          copy,         \* the matrix in the handler's hands or in its call
          accepted,     \* apply_response->success
          reply         \* the last reply each caller got

vars == <<scene, target_part, node, pc, allow, target, call, copy, accepted, reply>>

handlerVars == <<target_part, node, pc, allow, target, reply>>

Outstanding == {c \in Clients : pc[c] # "idle"}

\* Definitions whose name ends in _Wrong... are mistakes that the code could
\* have and has not: the properties below tell them from the real ones.

\* A handler occupies its thread from the request to the reply.
Busy == {c \in Clients : pc[c] \in {"getting", "applying"}}
ThreadFree_WrongCount == Cardinality(Busy) + 1 < Threads
ThreadFree == Cardinality(Busy) < Threads

Init ==
  /\ scene = InitialAcm
  /\ target_part \in Parts
  /\ node = "up"
  /\ pc = [c \in Clients |-> "idle"]
  /\ allow = [c \in Clients |-> FALSE]
  /\ target = [c \in Clients |-> ""]
  /\ call = [c \in Clients |-> "none"]
  /\ copy = [c \in Clients |-> {}]
  /\ accepted = [c \in Clients |-> FALSE]
  /\ reply = [c \in Clients |-> "none"]

-----------------------------------------------------------------------------
(* Callers.                                                                *)

\* ros2 param set: the parameter service needs a thread of the executor too.
SetTargetPart ==
  /\ node = "up" /\ ThreadFree
  /\ target_part' \in Parts
  /\ UNCHANGED <<scene, node, pc, allow, target, call, copy, accepted, reply>>

Submit(c) ==
  /\ pc[c] = "idle"
  /\ Cardinality(Outstanding) < MaxOutstanding
  /\ node = "up"
  /\ pc' = [pc EXCEPT ![c] = "queued"]
  /\ \E a \in BOOLEAN : allow' = [allow EXCEPT ![c] = a]
  /\ reply' = [reply EXCEPT ![c] = "none"]
  /\ UNCHANGED <<scene, target_part, node, target, call, copy, accepted>>

-----------------------------------------------------------------------------
(* The handler of c's request.                                             *)

\* handle_toggle_service and execute_acm_update up to the first call.
StartToggle(c) ==
  /\ node = "up" /\ ThreadFree
  /\ pc[c] = "queued"
  /\ target' = [target EXCEPT ![c] = TargetOf(target_part)]
  /\ pc' = [pc EXCEPT ![c] = "getting"]
  /\ call' = [call EXCEPT ![c] = "sent"]
  /\ UNCHANGED <<scene, target_part, node, allow, copy, accepted, reply>>

\* What the modifying step has in common with the mistakes it could make.
SendBack(c, matrix) ==
  /\ node = "up"
  /\ pc[c] = "getting" /\ call[c] = "ready"
  /\ copy' = [copy EXCEPT ![c] = matrix]
  /\ pc' = [pc EXCEPT ![c] = "applying"]
  /\ call' = [call EXCEPT ![c] = "sent"]
  /\ UNCHANGED <<scene, target_part, node, allow, target, accepted, reply>>

ModifyAndApply_WrongMatrix(c) ==
  SendBack(c, SetEntries({}, PairsWith(Links, target[c]), allow[c]))
ModifyAndApply_WrongName(c) ==
  SendBack(c, SetEntries(copy[c], PairsWith(Links, target_part), allow[c]))
ModifyAndApply_WrongSense(c) ==
  SendBack(c, SetEntries(copy[c], PairsWith(Links, target[c]), ~allow[c]))
ModifyAndApply_WrongLoop(c) ==
  SendBack(c, SetEntries(copy[c], PairsWith({CHOOSE l \in Links : TRUE}, target[c]), allow[c]))

\* The copy is changed for every gripper link and sent back.
ModifyAndApply(c) ==
  SendBack(c, SetEntries(copy[c], PairsWith(Links, target[c]), allow[c]))

\* The handler returns; its local variables end.
Return(c, result) ==
  /\ node = "up"
  /\ pc[c] = "applying" /\ call[c] = "ready"
  /\ reply' = [reply EXCEPT ![c] = result]
  /\ pc' = [pc EXCEPT ![c] = "idle"]
  /\ call' = [call EXCEPT ![c] = "none"]
  /\ copy' = [copy EXCEPT ![c] = {}]
  /\ target' = [target EXCEPT ![c] = ""]
  /\ accepted' = [accepted EXCEPT ![c] = FALSE]
  /\ UNCHANGED <<scene, target_part, node, allow>>

ReplyToCaller_WrongResult(c) == Return(c, "ok")
ReplyToCaller(c) == Return(c, IF accepted[c] THEN "ok" ELSE "failed")

\* The wrong version has the clients in the handlers' own, not reentrant, group.
Deliver_WrongGroup(c) ==
  /\ node = "up" /\ Busy = {}
  /\ call[c] = "served"
  /\ call' = [call EXCEPT ![c] = "ready"]
  /\ UNCHANGED <<scene, copy, accepted, handlerVars>>

\* A thread that is not in a handler completes the future of c's call.
Deliver(c) ==
  /\ node = "up" /\ ThreadFree
  /\ call[c] = "served"
  /\ call' = [call EXCEPT ![c] = "ready"]
  /\ UNCHANGED <<scene, copy, accepted, handlerVars>>

\* Every thread is in a handler whose response has come, and nobody is left
\* to take the responses: time is all that passes.
Starved == ~ThreadFree /\ \A c \in Busy : call[c] = "served"

\* request_response gives up after 5 s and returns a null pointer, which both
\* of its callers dereference.
Timeout(c) ==
  /\ node = "up"
  /\ call[c] \in {"sent", "served"}
  /\ Prompt => Starved
  /\ node' = "crashed"
  /\ UNCHANGED <<scene, target_part, pc, allow, target, call, copy, accepted, reply>>

-----------------------------------------------------------------------------
(* move_group, which also serves the calls of a node that has crashed.     *)

ServeGet(c) ==
  /\ pc[c] = "getting" /\ call[c] = "sent"
  /\ copy' = [copy EXCEPT ![c] = scene]
  /\ call' = [call EXCEPT ![c] = "served"]
  /\ UNCHANGED <<scene, accepted, handlerVars>>

ServeApply(c) ==
  /\ pc[c] = "applying" /\ call[c] = "sent"
  /\ \/ scene' = copy[c] /\ accepted' = [accepted EXCEPT ![c] = TRUE]
     \/ scene' = scene /\ accepted' = [accepted EXCEPT ![c] = FALSE]
  /\ call' = [call EXCEPT ![c] = "served"]
  /\ UNCHANGED <<copy, handlerVars>>

-----------------------------------------------------------------------------
Handler(c) ==
  \/ StartToggle(c) \/ ModifyAndApply(c) \/ ReplyToCaller(c)
  \/ Deliver(c) \/ Timeout(c)

MoveGroup(c) == ServeGet(c) \/ ServeApply(c)

Next ==
  \/ SetTargetPart
  \/ \E c \in Clients : Submit(c) \/ Handler(c) \/ MoveGroup(c)

Spec == Init /\ [][Next]_vars

\* The operating system runs the node's threads and move_group serves its
\* calls.  Callers, the parameter and the clock owe nothing.
Fairness ==
  \A c \in Clients :
    /\ WF_vars(StartToggle(c)) /\ WF_vars(ModifyAndApply(c))
    /\ WF_vars(ReplyToCaller(c)) /\ WF_vars(Deliver(c))
    /\ WF_vars(ServeGet(c)) /\ WF_vars(ServeApply(c))

FairSpec == Spec /\ Fairness

-----------------------------------------------------------------------------
(* Properties.                                                             *)

\* Every variable holds a value of its kind.
TypeOK ==
  /\ scene \subseteq Pairs
  /\ target_part \in Parts
  /\ node \in {"up", "crashed"}
  /\ pc \in [Clients -> {"idle", "queued", "getting", "applying"}]
  /\ allow \in [Clients -> BOOLEAN]
  /\ target \in [Clients -> Targets \cup {""}]
  /\ call \in [Clients -> {"none", "sent", "served", "ready"}]
  /\ copy \in [Clients -> SUBSET Pairs]
  /\ accepted \in [Clients -> BOOLEAN]
  /\ reply \in [Clients -> {"none", "ok", "failed"}]

\* The entries that the service exists to change.
Managed == UNION {PairsWith(Links, t) : t \in Targets \cup {""}}

Unmanaged(acm) == acm \ Managed

\* However handlers overlap, and whatever stale copy one of them writes back,
\* an entry that is not between a gripper link and a target keeps the value it
\* had when the node started: execute_acm_update sends the whole matrix.
UnmanagedUntouched == Unmanaged(scene) = Unmanaged(InitialAcm)

\* execute_acm_update returns true, and the caller is told that the matrix was
\* updated, only when the matrix then says what the caller asked for.
TruthfulReply ==
  [][\A c \in Clients :
       reply[c] = "none" /\ reply'[c] = "ok"
         => Says(scene', PairsWith(Links, target[c]), allow[c])]_vars

\* A pair stops being checked only in a write of a handler whose request asks
\* for that pair to be allowed; a request that re-enables checks never turns
\* one off.
ChecksOffOnlyWhenAsked ==
  [][\A p \in scene' \ scene : \E c \in Clients :
       pc[c] = "applying" /\ allow[c] /\ p \in PairsWith(Links, target[c])]_vars

\* If move_group answers in time, no handler times out: some thread is always
\* left to take the responses that the handlers wait for.
NoTimeoutWhilePrompt == Prompt => node = "up"

\* Every request that reaches the node gets its reply.
EveryRequestAnswered ==
  \A c \in Clients : (pc[c] = "queued") ~> (pc[c] = "idle")

-----------------------------------------------------------------------------
(* Refinement.  A request takes effect when move_group decides its apply.  *)

outcome == [c \in Clients |->
  IF pc[c] = "idle" THEN reply[c]
  ELSE IF pc[c] = "applying" /\ call[c] \in {"served", "ready"}
       THEN IF accepted[c] THEN "applied" ELSE "rejected"
       ELSE "pending"]

Abstract == INSTANCE ToggleService WITH Targets <- Targets \cup {""}

\* The node does what ToggleService promises: each request is one atomic update
\* of the matrix between its arrival and its reply.
ImplementsToggleService == Abstract!Spec
=============================================================================
