----------------------------- MODULE ViserIkRrt -----------------------------
(***************************************************************************)
(* viser_ik_rrt: a window with an IK marker and buttons that capture a     *)
(* start and a goal, plan between them and animate the plan.               *)
(*                                                                         *)
(* The viewer runs each callback on a thread of its pool; the main loop    *)
(* plots new trajectories and animates.  They share the enclosing          *)
(* function's variables without a lock.  A configuration stands for the    *)
(* full one and for the joint group's, and for the marker's pose there.    *)
(***************************************************************************)
EXTENDS Naturals, Sequences

CONSTANTS Configs,    \* configurations
          Home,       \* the fixed configuration that is displayed first
          None,       \* Python's None, and a pose that no configuration reaches
          Workers,    \* threads of the viewer's pool
          Used,       \* the controls that are used
          Careful,    \* does the operator wait for callbacks and animations?
          MaxQueue    \* bound: trajectories that wait for the main loop

Trajectories == [from : Configs, to : Configs]

Controls == {"ik", "snap", "capture_start", "capture_goal", "move_start", "move_goal",
             "plan", "animate"}

ASSUME ViserAssumption ==
  /\ Home \in Configs
  /\ None \notin Configs \cup Trajectories
  /\ "loop" \notin Workers
  /\ Used \subseteq Controls
  /\ Careful \in BOOLEAN
  /\ MaxQueue \in Nat

VARIABLES current,    \* current_q_full
          shown,      \* what the viewer displays
          group,      \* current_q_group, which the buttons capture
          solution,   \* the IK's result, one object for every callback
          marker,     \* where the controls are
          start, goal,          \* start_config and goal_config
          queue,      \* traj_queue
          cur,        \* cur_traj
          animate,
          planOff,    \* plan_button.disabled
          animateOff, \* animate_button.disabled
          pc,         \* where each thread is
          back,       \* where it returns to from display_full
          arg,        \* the configuration it works on
          frame,      \* the configuration it gives to viz.display
          traj,       \* the trajectory it plans
          off,        \* what it is about to write to plan_button.disabled
          left        \* the main loop's frames still to show

robot == <<current, shown, group, solution, marker>>
captured == <<start, goal>>
buttons == <<planOff, animateOff>>
plans == <<queue, cur, animate>>
locals == <<back, arg, frame, traj, off, left>>
vars == <<robot, captured, buttons, plans, pc, locals>>

Threads == Workers \cup {"loop"}

At(t, label) == pc[t] = label
GoTo(t, label) == pc' = [pc EXCEPT ![t] = label]

\* A step that changes no more than where the thread is, or one shared flag.
Proceed(t, from, to) ==
  /\ At(t, from) /\ GoTo(t, to)
  /\ UNCHANGED <<robot, captured, buttons, plans, locals>>

WritePlanOff(t, from, to, value) ==
  /\ At(t, from) /\ GoTo(t, to)
  /\ planOff' = value
  /\ UNCHANGED <<robot, captured, animateOff, plans, locals>>

WriteAnimateOff(t, from, to, value) ==
  /\ At(t, from) /\ GoTo(t, to)
  /\ animateOff' = value
  /\ UNCHANGED <<robot, captured, planOff, plans, locals>>

WriteAnimate(t, from, to, value) ==
  /\ At(t, from) /\ GoTo(t, to)
  /\ animate' = value
  /\ UNCHANGED <<robot, captured, buttons, queue, cur, locals>>

Init ==
  /\ current = Home /\ shown = Home /\ group = Home /\ marker = Home
  /\ solution = None /\ start = None /\ goal = None
  /\ queue = <<>> /\ cur = None /\ animate = FALSE
  /\ planOff = TRUE /\ animateOff = TRUE
  /\ pc = [t \in Threads |-> IF t = "loop" THEN "top" ELSE "idle"]
  /\ back = [t \in Threads |-> "idle"]
  /\ arg = [t \in Threads |-> None] /\ frame = [t \in Threads |-> None]
  /\ traj = [t \in Workers |-> None] /\ off = [t \in Workers |-> TRUE]
  /\ left = <<>>

-----------------------------------------------------------------------------
(* The display.                                                            *)

\* A local is dropped when it is used for the last time.
DropArg(t) == arg' = [arg EXCEPT ![t] = None]

Display(t, from, q, return) ==
  /\ At(t, from) /\ GoTo(t, "set")
  /\ arg' = [arg EXCEPT ![t] = q]
  /\ back' = [back EXCEPT ![t] = return]

\* display_full.
SetCurrent_WrongOmitted(t) ==
  /\ At(t, "set") /\ GoTo(t, "draw")
  /\ frame' = [frame EXCEPT ![t] = arg[t]]
  /\ UNCHANGED <<robot, captured, buttons, plans, back, arg, traj, off, left>>
SetCurrent(t) ==
  /\ At(t, "set") /\ GoTo(t, "fetch")
  /\ current' = arg[t]
  /\ UNCHANGED <<shown, group, solution, marker, captured, buttons, plans, locals>>

FetchFrame(t) ==
  /\ At(t, "fetch") /\ GoTo(t, "draw")
  /\ frame' = [frame EXCEPT ![t] = current]
  /\ UNCHANGED <<robot, captured, buttons, plans, back, arg, traj, off, left>>

Draw(t) ==
  /\ At(t, "draw") /\ GoTo(t, back[t])
  /\ shown' = frame[t]
  /\ frame' = [frame EXCEPT ![t] = None]
  /\ back' = [back EXCEPT ![t] = "idle"]
  /\ UNCHANGED <<current, group, solution, marker, captured, buttons, plans,
                 arg, traj, off, left>>

-----------------------------------------------------------------------------
(* Callbacks.                                                              *)

Animating == animate \/ pc["loop"] \notin {"top", "test"}

\* A careful operator uses one control at a time, and during an animation at
\* most the two buttons that it should have disabled; when it has given back
\* one of them, the operator waits for the other.
MayUse(w, op) ==
  /\ At(w, "idle") /\ op \in Used
  /\ Careful => /\ \A v \in Workers : pc[v] = "idle"
                /\ Animating => op \in {"plan", "animate"} /\ pc["loop"] # "stop_animate"

\* A button that is not disabled is clicked; its callback begins later.
Click(w, op) ==
  /\ MayUse(w, op)
  /\ op = "plan" => ~planOff /\ Len(queue) < MaxQueue
  /\ op = "animate" => ~animateOff
  /\ op = "move_start" => start # None
  /\ op = "move_goal" => goal # None
  /\ Proceed(w, "idle", op)

\* solveIk, which runs each time the marker is dragged.
Drag(w) ==
  /\ MayUse(w, "ik")
  /\ marker' \in Configs \cup {None}
  /\ GoTo(w, "ik")
  /\ UNCHANGED <<current, shown, group, solution, captured, buttons, plans, locals>>

IkFails(w) == Proceed(w, "ik", "idle")

SolveIk_WrongUnreached(w) ==
  /\ At(w, "ik") /\ GoTo(w, "read")
  /\ solution' = marker
  /\ UNCHANGED <<current, shown, group, marker, captured, buttons, plans, locals>>
SolveIk(w) ==
  /\ At(w, "ik") /\ GoTo(w, "read")
  /\ marker # None
  /\ solution' = marker
  /\ UNCHANGED <<current, shown, group, marker, captured, buttons, plans, locals>>

ShowSolution(w) ==
  /\ Display(w, "read", solution, "ik_group")
  /\ UNCHANGED <<robot, captured, buttons, plans, frame, traj, off, left>>

KeepSolution(w) ==
  /\ At(w, "ik_group") /\ GoTo(w, "idle")
  /\ group' = solution /\ DropArg(w)
  /\ UNCHANGED <<current, shown, solution, marker, captured, buttons, plans,
                 back, frame, traj, off, left>>

\* snap_marker_to_robot, which is also all that the reset button does.
Snap(w) ==
  /\ At(w, "snap") /\ GoTo(w, "idle")
  /\ marker' = current
  /\ UNCHANGED <<current, shown, group, solution, captured, buttons, plans, locals>>

\* move_marker_to_group_config, from either button.
MoveToCaptured(w) ==
  /\ \/ Display(w, "move_start", start, "move_group")
     \/ Display(w, "move_goal", goal, "move_group")
  /\ UNCHANGED <<robot, captured, buttons, plans, frame, traj, off, left>>

KeepCaptured(w) ==
  /\ At(w, "move_group") /\ GoTo(w, "snap")
  /\ group' = arg[w] /\ DropArg(w)
  /\ UNCHANGED <<current, shown, solution, marker, captured, buttons, plans,
                 back, frame, traj, off, left>>

\* set_start_pose and set_goal_pose.
Capture(w) ==
  /\ \/ At(w, "capture_start") /\ start' = group /\ UNCHANGED goal
     \/ At(w, "capture_goal") /\ goal' = group /\ UNCHANGED start
  /\ GoTo(w, "check")
  /\ UNCHANGED <<robot, buttons, plans, locals>>

\* update_plan_button: the condition is computed, then written.
CheckCaptured(w) ==
  /\ At(w, "check") /\ GoTo(w, "update")
  /\ off' = [off EXCEPT ![w] = (start = None \/ goal = None)]
  /\ UNCHANGED <<robot, captured, buttons, plans, back, arg, frame, traj, left>>

UpdateButton_WrongEnabled(w) == WritePlanOff(w, "update", "idle", FALSE)
UpdateButton(w) ==
  /\ At(w, "update") /\ GoTo(w, "idle")
  /\ planOff' = off[w]
  /\ off' = [off EXCEPT ![w] = TRUE]
  /\ UNCHANGED <<robot, captured, animateOff, plans, back, arg, frame, traj, left>>

-----------------------------------------------------------------------------
(* plan_path.                                                              *)

StopAnimating(w) == WriteAnimate(w, "plan", "plan_off", FALSE)
DisablePlan(w) == WritePlanOff(w, "plan_off", "anim_off", TRUE)
DisableAnimate(w) == WriteAnimateOff(w, "anim_off", "assert", TRUE)

\* The asserts, and the search for a path from start to goal as they are now.
BeginSearch(w) ==
  /\ At(w, "assert") /\ GoTo(w, "search")
  /\ start # None /\ goal # None
  /\ traj' = [traj EXCEPT ![w] = [from |-> start, to |-> goal]]
  /\ UNCHANGED <<robot, captured, buttons, plans, back, arg, frame, off, left>>

\* The finally clause enables the button whether or not a path is found.
EndSearch_WrongFinally(w) ==
  /\ At(w, "search")
  /\ \/ GoTo(w, "generate") /\ planOff' = FALSE /\ UNCHANGED traj
     \/ GoTo(w, "idle") /\ traj' = [traj EXCEPT ![w] = None] /\ UNCHANGED planOff
  /\ UNCHANGED <<robot, captured, animateOff, plans, back, arg, frame, off, left>>
EndSearch(w) ==
  /\ At(w, "search")
  /\ planOff' = FALSE
  /\ \/ GoTo(w, "generate") /\ UNCHANGED traj
     \/ GoTo(w, "idle") /\ traj' = [traj EXCEPT ![w] = None]
  /\ UNCHANGED <<robot, captured, animateOff, plans, back, arg, frame, off, left>>

\* shortcut or generate raises: the animate button stays disabled.
GenerateRaises(w) ==
  /\ At(w, "generate") /\ GoTo(w, "idle")
  /\ traj' = [traj EXCEPT ![w] = None]
  /\ UNCHANGED <<robot, captured, buttons, plans, back, arg, frame, off, left>>

\* "Restore the robot to the start pose": to start as it is by now.
RestoreStart_WrongGoal(w) ==
  /\ Display(w, "generate", goal, "put")
  /\ UNCHANGED <<robot, captured, buttons, plans, frame, traj, off, left>>
RestoreStart(w) ==
  /\ Display(w, "generate", start, "put")
  /\ UNCHANGED <<robot, captured, buttons, plans, frame, traj, off, left>>

PutTrajectory_WrongLost(w) ==
  /\ At(w, "put") /\ GoTo(w, "anim_on")
  /\ traj' = [traj EXCEPT ![w] = None] /\ DropArg(w)
  /\ UNCHANGED <<robot, captured, buttons, plans, back, frame, off, left>>
PutTrajectory(w) ==
  /\ At(w, "put") /\ GoTo(w, "anim_on")
  /\ queue' = Append(queue, traj[w])
  /\ traj' = [traj EXCEPT ![w] = None] /\ DropArg(w)
  /\ UNCHANGED <<robot, captured, buttons, cur, animate, back, frame, off, left>>

EnableAnimate(w) == WriteAnimateOff(w, "anim_on", "idle", FALSE)

-----------------------------------------------------------------------------
(* animate_trajectory.                                                     *)

HoldPlan_WrongOmitted(w) == Proceed(w, "animate", "animate_off")
HoldPlan(w) == WritePlanOff(w, "animate", "animate_off", TRUE)
HoldAnimate(w) == WriteAnimateOff(w, "animate_off", "animate_on", TRUE)
RequestAnimation(w) == WriteAnimate(w, "animate_on", "idle", TRUE)

-----------------------------------------------------------------------------
(* The main loop.                                                          *)

TakeTrajectory ==
  /\ At("loop", "top") /\ queue # <<>>
  /\ cur' = Head(queue) /\ queue' = Tail(queue)
  /\ UNCHANGED <<robot, captured, buttons, animate, pc, locals>>

FindQueueEmpty == queue = <<>> /\ Proceed("loop", "top", "test")

TestAnimate ==
  /\ At("loop", "test")
  /\ IF animate /\ cur # None
     THEN GoTo("loop", "frames") /\ left' = <<cur.from, cur.to>>
     ELSE GoTo("loop", "top") /\ UNCHANGED left
  /\ UNCHANGED <<robot, captured, buttons, plans, back, arg, frame, traj, off>>

NextFrame ==
  /\ left # <<>>
  /\ Display("loop", "frames", Head(left), "frames")
  /\ left' = Tail(left)
  /\ UNCHANGED <<robot, captured, buttons, plans, frame, traj, off>>

FramesShown == left = <<>> /\ WriteAnimate("loop", "frames", "stop_plan", FALSE)

ReleasePlan_WrongOmitted == Proceed("loop", "stop_plan", "stop_animate")
ReleasePlan == WritePlanOff("loop", "stop_plan", "stop_animate", FALSE)
ReleaseAnimate == WriteAnimateOff("loop", "stop_animate", "top", FALSE)

-----------------------------------------------------------------------------
DisplayFull(t) == SetCurrent(t) \/ FetchFrame(t) \/ Draw(t)

Callback(w) ==
  \/ IkFails(w) \/ SolveIk(w) \/ ShowSolution(w) \/ KeepSolution(w)
  \/ Snap(w) \/ MoveToCaptured(w) \/ KeepCaptured(w)
  \/ Capture(w) \/ CheckCaptured(w) \/ UpdateButton(w)
  \/ StopAnimating(w) \/ DisablePlan(w) \/ DisableAnimate(w) \/ BeginSearch(w)
  \/ EndSearch(w) \/ GenerateRaises(w) \/ RestoreStart(w) \/ PutTrajectory(w)
  \/ EnableAnimate(w)
  \/ HoldPlan(w) \/ HoldAnimate(w) \/ RequestAnimation(w)

MainLoop ==
  \/ TakeTrajectory \/ FindQueueEmpty \/ TestAnimate \/ NextFrame \/ FramesShown
  \/ ReleasePlan \/ ReleaseAnimate

Next ==
  \/ \E w \in Workers : Drag(w) \/ Callback(w) \/ \E op \in Controls \ {"ik"} : Click(w, op)
  \/ \E t \in Threads : DisplayFull(t)
  \/ MainLoop

Spec == Init /\ [][Next]_vars

\* Every thread runs; the operator need not do anything.
Fairness ==
  /\ \A w \in Workers : WF_vars(Callback(w))
  /\ \A t \in Threads : WF_vars(DisplayFull(t))
  /\ WF_vars(MainLoop)

FairSpec == Spec /\ Fairness

-----------------------------------------------------------------------------
(* Properties.                                                             *)

Labels == Controls \cup
  {"idle", "top", "test", "frames", "stop_plan", "stop_animate", "set", "fetch", "draw",
   "read", "ik_group", "move_group", "check", "update", "plan_off", "anim_off", "assert",
   "search", "generate", "put", "anim_on", "animate_off", "animate_on"}

\* Every variable holds a value of its kind (TypeOK, in parts).
RobotOK ==
  /\ current \in Configs /\ shown \in Configs /\ group \in Configs
  /\ solution \in Configs \cup {None} /\ marker \in Configs \cup {None}
  /\ start \in Configs \cup {None} /\ goal \in Configs \cup {None}

PlansOK ==
  /\ queue \in Seq(Trajectories) /\ cur \in Trajectories \cup {None}
  /\ traj \in [Workers -> Trajectories \cup {None}]
  /\ left \in Seq(Configs)

ButtonsOK ==
  /\ animate \in BOOLEAN /\ planOff \in BOOLEAN /\ animateOff \in BOOLEAN
  /\ off \in [Workers -> BOOLEAN]

ThreadsOK ==
  /\ pc \in [Threads -> Labels] /\ back \in [Threads -> Labels]
  /\ arg \in [Threads -> Configs \cup {None}] /\ frame \in [Threads -> Configs \cup {None}]

TypeOK == RobotOK /\ PlansOK /\ ButtonsOK /\ ThreadsOK

\* plan_path's asserts hold, whatever is clicked during whatever: its button is
\* enabled only by somebody who has seen both configurations.
AssertsHold == \A w \in Workers : pc[w] = "assert" => start # None /\ goal # None

\* Whenever an animation is asked for, or could be, there is a trajectory for it.
AnimateHasTrajectory == animate \/ ~animateOff => queue # <<>> \/ cur # None

\* A plan or an animation that has disabled the plan button gives it back, if
\* the search fails as well, and however callbacks overlap.
GivesButtonBack ==
  /\ planOff /\ \/ animate
                \/ pc["loop"] \in {"frames", "stop_plan"}
                \/ \E w \in Workers : pc[w] \in {"anim_off", "assert", "search",
                                                  "animate_off", "animate_on"}
  ~> ~planOff

AtRest == (\A w \in Workers : pc[w] = "idle") /\ ~Animating

\* "Path planning button (disabled until both start and goal are set)" (line
\* 319): and enabled from then on, whenever nothing is in progress.
PlanButtonIsRight == AtRest => planOff = (start = None \/ goal = None)

\* No plan is made while the loop animates: the loop gives the button back only
\* after the last frame.
NoPlanDuringAnimation ==
  (\E w \in Workers : pc[w] \in {"plan_off", "anim_off", "assert", "search", "generate", "put"})
    => pc["loop"] \in {"top", "test", "stop_animate"}

\* When a plan is put into the queue the robot is shown where the plan starts.
PlanShowsItsStart == \A w \in Workers : pc[w] = "put" => shown = traj[w].from

\* "Keep this updated everywhere we display so the marker can always snap back
\* to what is shown" (lines 193-194).
SnapsToShown ==
  [][\A w \in Workers : pc[w] = "snap" /\ pc'[w] = "idle" => marker' = shown]_vars
=============================================================================
