--------------------------- MODULE PlanAndExecute ---------------------------
(***************************************************************************)
(* plan_and_execute_node: the operator moves an interactive marker to set  *)
(* a target, plans, previews, executes and resets, by the marker's menu or *)
(* by services.                                                            *)
(*                                                                         *)
(* Three threads share the node's attributes without a lock.  "main" runs  *)
(* the constructor and then the services, one at a time, as they share the *)
(* node's default callback group.  "marker" is the single-threaded         *)
(* executor of the marker's feedback and menu.  The third listens for      *)
(* joint states.  A step below reads or writes one attribute.              *)
(***************************************************************************)
CONSTANTS Configs,   \* joint configurations
          None,      \* Python's None
          Missing,   \* an attribute the constructor has not yet assigned
          Menu,      \* the operations that are used
          Overlap,   \* are the menu and the services used at the same time?
          EarlyUse   \* is the marker used before the node says "Ready"?

\* A trajectory is told by its ends.
Trajectories == [from : Configs, to : Configs]

Operations == {"plan", "preview", "execute", "reset"}

ASSUME PlanAndExecuteAssumption ==
  /\ None \notin Configs \cup Trajectories
  /\ Missing \notin Configs \cup Trajectories \cup {None}
  /\ Menu \subseteq Operations
  /\ Overlap \in BOOLEAN /\ EarlyUse \in BOOLEAN

VARIABLES js,        \* _last_joint_state: where the robot is said to be
          listener,  \* the joint-state thread: "up", or "down" by an exception
          latest,    \* _latest_joint_positions
          target,    \* _target_q
          planned,   \* _planned_traj
          path,      \* the path last published, with a latched QoS
          ghost,     \* the configuration shown in blue
          playing,   \* the trajectory that the player shows in green
          sent,      \* the last goal given to the controller
          ready,     \* has the constructor returned?
          pc,        \* where each thread is
          traj,      \* each thread's own trajectory, made or read
          aimed      \* the feedback callback's own q

joints == <<js, listener>>
attributes == <<latest, target, planned>>
shown == <<path, ghost, playing>>
locals == <<traj, aimed>>
vars == <<joints, attributes, shown, sent, ready, pc, locals>>

Threads == {"main", "marker"}

\* How a thread ends: by using a value that is not there, by an exception of
\* the planner's post-processing, or by an interrupt.
Ended == {"unset", "unsolved", "interrupted"}

\* An exception in a service ends main and with it the process; the marker's
\* executor ends alone (spin_executor), and the process goes on without it.
Alive == pc["main"] \notin Ended

At(t, label) == Alive /\ pc[t] = label
GoTo(t, label) == pc' = [pc EXCEPT ![t] = label]

Init ==
  /\ js = None /\ listener = "up"
  /\ latest = None /\ target = Missing /\ planned = Missing
  /\ path = None /\ ghost = None /\ playing = None
  /\ sent = None /\ ready = FALSE
  /\ pc = [t \in Threads |-> IF t = "main" THEN "wait" ELSE "idle"]
  /\ traj = [t \in Threads |-> None] /\ aimed = None

-----------------------------------------------------------------------------
(* The joint-state thread, the player and the operator's Ctrl-C.           *)

\* The wrong version subscribes on the node itself, which nobody spins yet.
JointState_WrongNode ==
  /\ Alive /\ ready /\ listener = "up"
  /\ js' \in Configs
  /\ UNCHANGED <<listener, attributes, shown, sent, ready, pc, locals>>

JointState ==
  /\ Alive /\ listener = "up"
  /\ js' \in Configs
  /\ UNCHANGED <<listener, attributes, shown, sent, ready, pc, locals>>

\* buildConversionMap raises on a first message that does not fit the model.
ListenerDies ==
  /\ Alive /\ listener = "up" /\ js = None
  /\ listener' = "down"
  /\ UNCHANGED <<js, attributes, shown, sent, ready, pc, locals>>

PreviewEnds ==
  /\ Alive /\ playing # None
  /\ playing' = None
  /\ UNCHANGED <<joints, attributes, path, ghost, sent, ready, pc, locals>>

\* A service that is running is waited for (MultiThreadedExecutor.shutdown).
Interrupt ==
  /\ Alive /\ (~ready \/ pc["main"] = "idle")
  /\ GoTo("main", "interrupted")
  /\ UNCHANGED <<joints, attributes, shown, sent, ready, locals>>

-----------------------------------------------------------------------------
(* The constructor, from its wait for joint states to its call of _reset.  *)

Construct(from, to) ==
  /\ At("main", from) /\ GoTo("main", to)
  /\ UNCHANGED <<joints, latest, shown, sent, ready, locals>>

WaitForJoints == js # None /\ Construct("wait", "menu") /\ UNCHANGED <<target, planned>>
InsertMenu == Construct("menu", "visualizers") /\ UNCHANGED <<target, planned>>
CreateVisualizers == Construct("visualizers", "fields") /\ UNCHANGED <<target, planned>>
InitFields == Construct("fields", "reset") /\ target' = None /\ planned' = None

HasMarker == pc["main"] # "wait"
HasMenu == pc["main"] \notin {"wait", "menu"}
HasVisualizers == pc["main"] \notin {"wait", "menu", "visualizers"}

-----------------------------------------------------------------------------
(* Callbacks.  Both threads run the operations; feedback is the marker's.  *)

MayBegin(t) ==
  /\ At(t, "idle")
  /\ ready \/ (t = "marker" /\ EarlyUse /\ HasMarker)
  /\ Overlap \/ ~ready \/ \A u \in Threads \ {t} : pc[u] \in Ended \cup {"idle"}

\* A callback that begins, goes on, returns or raises, and changes no more.
Proceed(t, from, to) ==
  /\ At(t, from) /\ GoTo(t, to)
  /\ UNCHANGED <<joints, attributes, shown, sent, ready, locals>>

\* A trajectory comes into the thread's hands.
Take(t, from, to, x) ==
  /\ At(t, from) /\ GoTo(t, to)
  /\ traj' = [traj EXCEPT ![t] = x]
  /\ UNCHANGED <<joints, attributes, shown, sent, ready, aimed>>

\* A local is dropped when it is used for the last time.
Drop(t) == traj' = [traj EXCEPT ![t] = None]

\* The callback ends with the trajectory it was working on.
Leave(t, from, to) ==
  /\ At(t, from) /\ GoTo(t, to) /\ Drop(t)
  /\ UNCHANGED <<joints, attributes, shown, sent, ready, aimed>>

Call(t, op) == MayBegin(t) /\ (t = "marker" => HasMenu) /\ Proceed(t, "idle", op)

\* What an operation does with an attribute it needs: without a value it is
\* refused, and an attribute that does not exist raises.
Refuse(t, from, x) ==
  \/ x = None /\ Proceed(t, from, "idle")
  \/ x = Missing /\ Proceed(t, from, "unset")

\* _on_ik_feedback.  The seed is None until the constructor's reset, and the
\* IK may find no solution.
Feedback == MayBegin("marker") /\ Proceed("marker", "idle", "aim")

SeedRejected == latest = None /\ Proceed("marker", "aim", "unset")

IkFails == Proceed("marker", "aim", "idle")

SetTarget ==
  /\ At("marker", "aim") /\ GoTo("marker", "show")
  /\ aimed' \in Configs
  /\ target' = aimed'
  /\ UNCHANGED <<joints, latest, planned, shown, sent, ready, traj>>

ShowTarget ==
  \/ /\ HasVisualizers
     /\ At("marker", "show") /\ GoTo("marker", "idle")
     /\ ghost' = aimed /\ aimed' = None
     /\ UNCHANGED <<joints, attributes, path, playing, sent, ready, traj>>
  \/ ~HasVisualizers /\ Proceed("marker", "show", "unset")

\* _plan.  The joint state is there: the constructor waited for it.
PlanCheck_WrongOmitted(t) == Proceed(t, "plan", "start")
PlanCheck(t) ==
  \/ target \in Configs /\ Proceed(t, "plan", "start")
  \/ Refuse(t, "plan", target)

PlanStart(t) ==
  /\ At(t, "start") /\ GoTo(t, "goal")
  /\ latest' = js
  /\ UNCHANGED <<joints, target, planned, shown, sent, ready, locals>>

PlanGoal_WrongEnds(t) ==
  \/ target \in Configs /\ Take(t, "goal", "solve", [from |-> target, to |-> latest])
  \/ target \notin Configs /\ Proceed(t, "goal", "unset")
PlanGoal(t) ==
  \/ target \in Configs /\ Take(t, "goal", "solve", [from |-> latest, to |-> target])
  \/ target \notin Configs /\ Proceed(t, "goal", "unset")

PlanFails(t) == Leave(t, "solve", "idle")

\* shortcut and generate are not in the try statement.
PlanRaises_WrongStored(t) ==
  /\ At(t, "solve") /\ GoTo(t, "unsolved")
  /\ planned' = traj[t] /\ Drop(t)
  /\ UNCHANGED <<joints, latest, target, shown, sent, ready, aimed>>
PlanRaises(t) == Leave(t, "solve", "unsolved")

StorePlan(t) ==
  /\ At(t, "solve") /\ GoTo(t, "draw")
  /\ planned' = traj[t] /\ Drop(t)
  /\ UNCHANGED <<joints, latest, target, shown, sent, ready, aimed>>

\* The path is made from the attribute, not from what was just computed.
DrawPath(t) ==
  \/ planned \in Trajectories /\ Take(t, "draw", "publish", planned)
  \/ planned \notin Trajectories /\ Proceed(t, "draw", "unset")

PublishPath(t) ==
  /\ At(t, "publish") /\ GoTo(t, "count")
  /\ path' = traj[t] /\ Drop(t)
  /\ UNCHANGED <<joints, attributes, ghost, playing, sent, ready, aimed>>

\* The reply counts the points of the attribute.
CountPoints_WrongLocal(t) == Proceed(t, "count", "idle")
CountPoints(t) ==
  \/ planned \in Trajectories /\ Proceed(t, "count", "idle")
  \/ planned \notin Trajectories /\ Proceed(t, "count", "unset")

\* _preview.  The player takes over from one that is still playing.
PreviewCheck(t) ==
  \/ planned \in Trajectories /\ Proceed(t, "preview", "play")
  \/ Refuse(t, "preview", planned)

\* The player raises on None.
Play(t) ==
  \/ /\ planned \in Trajectories
     /\ At(t, "play") /\ GoTo(t, "idle")
     /\ playing' = planned
     /\ UNCHANGED <<joints, attributes, path, ghost, sent, ready, locals>>
  \/ planned \notin Trajectories /\ Proceed(t, "play", "unset")

\* _execute.  The controller's server may not be there within 2 s.
ExecuteCheck(t) ==
  \/ planned \in Trajectories /\ Proceed(t, "execute", "server")
  \/ Refuse(t, "execute", planned)

WaitForServer(t) == Proceed(t, "server", "convert") \/ Proceed(t, "server", "idle")

ConvertPlan(t) ==
  \/ planned \in Trajectories /\ Take(t, "convert", "send", planned)
  \/ planned \notin Trajectories /\ Proceed(t, "convert", "unset")

SendGoal(t) ==
  /\ At(t, "send") /\ GoTo(t, "idle")
  /\ sent' = traj[t] /\ Drop(t)
  /\ UNCHANGED <<joints, attributes, shown, ready, aimed>>

\* _reset.
ResetJoints(t) ==
  /\ At(t, "reset") /\ GoTo(t, "pose")
  /\ latest' = js
  /\ UNCHANGED <<joints, target, planned, shown, sent, ready, locals>>

\* The menu's handler logs the exception of a reset that comes too early.
ResetPose_WrongShown(t) ==
  \/ /\ HasVisualizers
     /\ At(t, "pose") /\ GoTo(t, "clear_target")
     /\ ghost' = target
     /\ UNCHANGED <<joints, attributes, path, playing, sent, ready, locals>>
  \/ ~HasVisualizers /\ Proceed(t, "pose", "idle")
ResetPose(t) ==
  \/ /\ HasVisualizers
     /\ At(t, "pose") /\ GoTo(t, "clear_target")
     /\ ghost' = latest
     /\ UNCHANGED <<joints, attributes, path, playing, sent, ready, locals>>
  \/ ~HasVisualizers /\ Proceed(t, "pose", "idle")

ClearTarget_WrongOmitted(t) == Proceed(t, "clear_target", "clear_plan")
ClearTarget(t) ==
  /\ At(t, "clear_target") /\ GoTo(t, "clear_plan")
  /\ target' = None
  /\ UNCHANGED <<joints, latest, planned, shown, sent, ready, locals>>

ClearPlan_WrongOmitted(t) == Proceed(t, "clear_plan", "erase")
ClearPlan(t) ==
  /\ At(t, "clear_plan") /\ GoTo(t, "erase")
  /\ planned' = None
  /\ UNCHANGED <<joints, latest, target, shown, sent, ready, locals>>

\* The green preview is erased too, until the player's next frame.
ErasePath_WrongOmitted(t) == Proceed(t, "erase", "done")
ErasePath(t) ==
  /\ At(t, "erase") /\ GoTo(t, "done")
  /\ path' = None
  /\ UNCHANGED <<joints, attributes, ghost, playing, sent, ready, locals>>

\* main's first return from _reset is the end of the constructor.
ResetReturns(t) ==
  /\ At(t, "done") /\ GoTo(t, "idle")
  /\ ready' = (ready \/ t = "main")
  /\ UNCHANGED <<joints, attributes, shown, sent, locals>>

-----------------------------------------------------------------------------
Constructor == WaitForJoints \/ InsertMenu \/ CreateVisualizers \/ InitFields

IkFeedback == Feedback \/ SeedRejected \/ IkFails \/ SetTarget \/ ShowTarget

Plan(t) ==
  \/ PlanCheck(t) \/ PlanStart(t) \/ PlanGoal(t) \/ PlanFails(t) \/ PlanRaises(t)
  \/ StorePlan(t) \/ DrawPath(t) \/ PublishPath(t) \/ CountPoints(t)

Preview(t) == PreviewCheck(t) \/ Play(t)

Execute(t) == ExecuteCheck(t) \/ WaitForServer(t) \/ ConvertPlan(t) \/ SendGoal(t)

Reset(t) ==
  \/ ResetJoints(t) \/ ResetPose(t) \/ ClearTarget(t) \/ ClearPlan(t)
  \/ ErasePath(t) \/ ResetReturns(t)

Next ==
  \/ JointState \/ ListenerDies \/ PreviewEnds \/ Interrupt
  \/ Constructor \/ IkFeedback
  \/ \E t \in Threads :
       (\E op \in Menu : Call(t, op)) \/ Plan(t) \/ Preview(t) \/ Execute(t) \/ Reset(t)

Spec == Init /\ [][Next]_vars

\* Joint states arrive as long as somebody listens, and main runs.
FairSpec == Spec /\ WF_vars(JointState) /\ WF_vars(Constructor) /\ WF_vars(Reset("main"))

-----------------------------------------------------------------------------
(* Properties.                                                             *)

\* Every variable holds a value of its kind.
TypeOK ==
  /\ js \in Configs \cup {None} /\ listener \in {"up", "down"}
  /\ latest \in Configs \cup {None}
  /\ target \in Configs \cup {None, Missing}
  /\ planned \in Trajectories \cup {None, Missing}
  /\ path \in Trajectories \cup {None} /\ ghost \in Configs \cup {None}
  /\ playing \in Trajectories \cup {None} /\ sent \in Trajectories \cup {None}
  /\ ready \in BOOLEAN
  /\ traj \in [Threads -> Trajectories \cup {None}] /\ aimed \in Configs \cup {None}
  /\ pc \in [Threads -> Ended \cup Operations \cup
       {"wait", "menu", "visualizers", "fields", "idle", "aim", "show", "start",
        "goal", "solve", "draw", "publish", "count", "play", "server", "convert",
        "send", "pose", "clear_target", "clear_plan", "erase", "done"}]

AtRest == ready /\ pc["main"] = "idle" /\ pc["marker"] \in Ended \cup {"idle"}

\* Between callbacks, the path that RViz shows is the plan that Preview and
\* Execute would use, whether plans succeeded, failed or raised in between.
ShownIsPlanned == AtRest => path = planned

\* Between callbacks, the blue robot is at the target, or where the robot was
\* at the last reset if there is no target.
ShownIsTarget == AtRest => ghost = IF target = None THEN latest ELSE target

\* What is previewed, and what is sent to the robot, is the trajectory whose
\* path is shown at that time.
ActsOnWhatIsShown ==
  \A t \in Threads :
    /\ pc[t] = "play" => planned = path
    /\ pc[t] = "send" => traj[t] = path

\* When a reset returns there is no plan and no path is shown: _reset "Clears
\* all plans and resets to a hardware state" (line 431).
ResetLeavesNoPlan ==
  (\E t \in Threads : pc[t] = "done") => planned = None /\ path = None

\* No callback uses a value that it has checked and that is gone by then.
NothingUnsetIsUsed == \A t \in Threads : pc[t] # "unset"

\* However plans and resets overlap, a path that RViz goes on showing has a plan
\* behind it, unless a callback raised: a plan whose path comes after a reset
\* has cleared it fails when it counts its points.
NoPathWithoutPlan ==
  AtRest /\ planned = None /\ pc["marker"] # "unset" => path = None

\* The constructor waits for a joint state, and gets one although nobody spins
\* the node yet.
BecomesReady == <>(ready \/ listener = "down" \/ ~Alive)

-----------------------------------------------------------------------------
(* Refinement.  A reset takes effect when it clears the target.            *)

Value(x) == IF x = Missing THEN None ELSE x

Abstract == INSTANCE Workbench WITH
  target <- Value(target),
  plan <- IF \E t \in Threads : pc[t] = "clear_plan" THEN None ELSE Value(planned)

\* With one callback at a time the node is a Workbench: each operation happens
\* at one instant, however many steps its callback takes.
ImplementsWorkbench == Abstract!Spec
=============================================================================
