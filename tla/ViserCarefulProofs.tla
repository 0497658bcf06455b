------------------------- MODULE ViserCarefulProofs -------------------------
(***************************************************************************)
(* What is proved about ViserIkRrt for a careful operator, who waits for   *)
(* callbacks and animations: whatever the configurations and however many  *)
(* threads the viewer's pool has.                                          *)
(***************************************************************************)
EXTENDS ViserIkRrtProofs

\* At most one thread is at work: a callback's, or the loop's.
OneAtATime ==
  /\ \A v, w \in Workers : v # w => pc[v] = "idle" \/ pc[w] = "idle"
  /\ Animating => \A w \in Workers : pc[w] = "idle"

\* An animation holds both buttons until it gives them back, and so does a
\* callback that is about to ask for one.
ButtonsHeld ==
  /\ Animating /\ pc["loop"] # "stop_animate" => planOff /\ animateOff
  /\ pc["loop"] \in {"stop_plan", "stop_animate"} => ~animate
  /\ pc["loop"] = "stop_animate" => ~planOff
  /\ \A w \in Workers :
       /\ pc[w] \in {"animate_off", "animate_on"} => planOff
       /\ pc[w] = "animate_on" => animateOff

\* Where the plan button may differ from what has been captured.
Unsettled == {"check", "update", "anim_off", "assert", "search", "animate_off", "animate_on"}

\* Elsewhere the button follows what has been captured, and whoever is about to
\* write it knows.
PlanButtonFollows ==
  /\ \A w \in Workers : pc[w] = "update" => (off[w] <=> ~BothSet)
  /\ ~Animating /\ (\A w \in Workers : pc[w] \notin Unsettled) => (planOff <=> ~BothSet)

\* What is displayed follows current_q_full, except within display_full.
DisplayFollows ==
  /\ \A t \in Threads :
       /\ pc[t] \in {"fetch", "draw"} => current = arg[t]
       /\ pc[t] = "draw" => frame[t] = arg[t]
  /\ (\A t \in Threads : pc[t] \notin {"fetch", "draw"}) => shown = current

\* plan_path puts the trajectory that it planned from where the robot is shown.
StartShown ==
  \A w \in Workers :
    /\ pc[w] \in {"search", "generate"} => traj[w].from = start
    /\ back[w] = "put" => arg[w] = traj[w].from
    /\ pc[w] = "put" => shown = traj[w].from

CarefulInv == OneAtATime /\ ButtonsHeld /\ PlanButtonFollows /\ DisplayFollows /\ StartShown

-----------------------------------------------------------------------------
(* One at a time.                                                          *)

\* Nobody but thread t moves.
OnlyMoves(t) == \A u \in Threads : u # t => pc'[u] = pc[u]

\* While a callback runs, the other threads wait, and nothing is animated.
LEMMA Alone ==
  ASSUME Inv, OneAtATime, NEW w \in Workers, pc[w] # "idle"
  PROVE  /\ \A v \in Workers : v # w => pc[v] = "idle"
         /\ pc["loop"] \in {"top", "test"} /\ ~animate
BY DEF OneAtATime, Animating

\* While something is animated, no callback runs and none begins.
LEMMA AnimatedAlone ==
  ASSUME Inv, Careful, OneAtATime, ButtonsHeld, Animating, NEW w \in Workers
  PROVE  /\ pc[w] = "idle"
         /\ ~Drag(w)
         /\ \A o \in Controls \ {"ik"} : ~Click(w, o)
<1>1. pc[w] = "idle"
  BY DEF OneAtATime
<1>2. ASSUME NEW o \in Controls, MayUse(w, o)
      PROVE  o \in {"plan", "animate"} /\ planOff /\ animateOff
  BY <1>2 DEF MayUse, ButtonsHeld
<1>. QED
  BY <1>1, <1>2 DEF Drag, Click, Controls

\* What begins a callback, and what the callback's thread does.
LEMMA BeginMoves ==
  ASSUME Inv, Careful, NEW w \in Workers,
         Drag(w) \/ \E o \in Controls \ {"ik"} : Click(w, o)
  PROVE  /\ \A v \in Workers : pc[v] = "idle"
         /\ pc'[w] \in Controls /\ OnlyMoves(w)
         /\ UNCHANGED <<current, shown, captured, buttons, plans, locals>>
BY DEF Drag, Click, MayUse, Proceed, GoTo, At, OnlyMoves, Inv, TypeOK, ThreadsOK,
       Threads, Controls, robot

\* What a step of a callback does to the threads.
LEMMA CallbackMoves ==
  ASSUME Inv, NEW w \in Workers, Callback(w) \/ DisplayFull(w)
  PROVE  /\ pc[w] # "idle" /\ OnlyMoves(w)
         /\ animate' => animate \/ pc'[w] = "idle"
<1>. USE DEF Inv, TypeOK, ThreadsOK, Threads, At, GoTo, OnlyMoves, plans
<1>1. CASE \/ IkFails(w) \/ SolveIk(w) \/ ShowSolution(w) \/ KeepSolution(w)
           \/ Snap(w) \/ MoveToCaptured(w) \/ KeepCaptured(w)
           \/ Capture(w) \/ CheckCaptured(w) \/ UpdateButton(w)
  BY <1>1 DEF IkFails, Proceed, SolveIk, ShowSolution, Display, KeepSolution, Snap,
              MoveToCaptured, KeepCaptured, Capture, CheckCaptured, UpdateButton
<1>2. CASE \/ StopAnimating(w) \/ DisablePlan(w) \/ DisableAnimate(w) \/ BeginSearch(w)
           \/ EndSearch(w) \/ GenerateRaises(w) \/ RestoreStart(w) \/ PutTrajectory(w)
           \/ EnableAnimate(w)
  BY <1>2 DEF StopAnimating, DisablePlan, DisableAnimate, BeginSearch, EndSearch,
              GenerateRaises, RestoreStart, PutTrajectory, EnableAnimate, Display,
              WriteAnimate, WritePlanOff, WriteAnimateOff
<1>3. CASE HoldPlan(w) \/ HoldAnimate(w) \/ RequestAnimation(w)
  BY <1>3 DEF HoldPlan, HoldAnimate, RequestAnimation,
              WriteAnimate, WritePlanOff, WriteAnimateOff
<1>4. CASE DisplayFull(w)
  BY <1>4 DEF DisplayFull, SetCurrent, FetchFrame, Draw
<1>. QED
  BY <1>1, <1>2, <1>3, <1>4 DEF Callback

\* The loop's thread alone moves, and animates nothing that was not asked for.
LEMMA LoopMoves ==
  ASSUME Inv, MainLoop \/ DisplayFull("loop")
  PROVE  OnlyMoves("loop") /\ (Animating' => Animating)
<1>. USE DEF Inv, TypeOK, ThreadsOK, Threads, LabelsOK, At, GoTo, OnlyMoves, plans,
             Animating
<1>1. CASE MainLoop
  BY <1>1 DEF MainLoop, TakeTrajectory, FindQueueEmpty, Proceed, TestAnimate, NextFrame,
              Display, FramesShown, ReleasePlan, ReleaseAnimate, WriteAnimate,
              WritePlanOff, WriteAnimateOff
<1>2. CASE DisplayFull("loop")
  BY <1>2 DEF DisplayFull, SetCurrent, FetchFrame, Draw
<1>. QED
  BY <1>1, <1>2

\* A careful operator, the callbacks and the loop keep out of each other's way.
LEMMA OneAtATimeStep ==
  ASSUME Inv, Careful, OneAtATime, ButtonsHeld, [Next]_vars
  PROVE  OneAtATime'
<1>. USE ViserAssumption DEF Threads
<1>1. ASSUME NEW w \in Workers, Drag(w) \/ \E o \in Controls \ {"ik"} : Click(w, o)
      PROVE  OneAtATime'
  <2>1. ~Animating
    BY <1>1, AnimatedAlone
  <2>. QED
    BY <1>1, <2>1, BeginMoves DEF OneAtATime, OnlyMoves, Animating, plans
<1>2. ASSUME NEW w \in Workers, Callback(w) \/ DisplayFull(w)
      PROVE  OneAtATime'
  BY <1>2, CallbackMoves, Alone DEF OneAtATime, OnlyMoves, Animating
<1>3. CASE MainLoop \/ DisplayFull("loop")
  BY <1>3, LoopMoves DEF OneAtATime, OnlyMoves
<1>4. CASE UNCHANGED vars
  BY <1>4 DEF vars, plans, OneAtATime, Animating
<1>. QED
  BY <1>1, <1>2, <1>3, <1>4 DEF Next

-----------------------------------------------------------------------------
(* The buttons.                                                            *)

\* A callback of the display's controls writes no button and no flag.
LEMMA DisplayCallbacks ==
  ASSUME Inv, NEW w \in Workers,
         \/ IkFails(w) \/ SolveIk(w) \/ ShowSolution(w) \/ KeepSolution(w)
         \/ Snap(w) \/ MoveToCaptured(w) \/ KeepCaptured(w)
         \/ GenerateRaises(w) \/ RestoreStart(w) \/ PutTrajectory(w)
         \/ DisplayFull(w)
  PROVE  /\ pc[w] \notin Unsettled /\ pc'[w] \notin Unsettled
         /\ UNCHANGED <<captured, buttons, animate>>
<1>. USE DEF Inv, TypeOK, ThreadsOK, LabelsOK, Threads, At, GoTo, Unsettled
<1>1. CASE \/ IkFails(w) \/ SolveIk(w) \/ ShowSolution(w) \/ KeepSolution(w)
           \/ Snap(w) \/ MoveToCaptured(w) \/ KeepCaptured(w)
  BY <1>1 DEF IkFails, Proceed, SolveIk, ShowSolution, Display, KeepSolution, Snap,
              MoveToCaptured, KeepCaptured, plans
<1>2. CASE GenerateRaises(w) \/ RestoreStart(w) \/ PutTrajectory(w)
  BY <1>2 DEF GenerateRaises, RestoreStart, PutTrajectory, Display, plans
<1>3. CASE DisplayFull(w)
  BY <1>3 DEF DisplayFull, SetCurrent, FetchFrame, Draw, plans
<1>. QED
  BY <1>1, <1>2, <1>3

\* Both buttons are held for as long as something is animated.
LEMMA ButtonsHeldStep ==
  ASSUME Inv, Careful, OneAtATime, ButtonsHeld, [Next]_vars
  PROVE  ButtonsHeld'
<1>. USE ViserAssumption DEF Threads
<1>1. ASSUME NEW w \in Workers, Drag(w) \/ \E o \in Controls \ {"ik"} : Click(w, o)
      PROVE  ButtonsHeld'
  BY <1>1, BeginMoves, AnimatedAlone
     DEF ButtonsHeld, OnlyMoves, Animating, buttons, plans, Controls
<1>2. ASSUME NEW w \in Workers, Callback(w) \/ DisplayFull(w)
      PROVE  ButtonsHeld'
  <2>. DEFINE Held == /\ pc'[w] \in {"animate_off", "animate_on"} => planOff'
                      /\ pc'[w] = "animate_on" => animateOff'
                      /\ animate' => planOff' /\ animateOff'
  <2>1. /\ \A v \in Workers : v # w => pc'[v] = "idle"
        /\ pc'["loop"] \in {"top", "test"} /\ ~animate
    BY <1>2, Alone, CallbackMoves DEF OnlyMoves
  <2>2. SUFFICES Held
    BY <2>1, <2>2 DEF ButtonsHeld, Animating
  <2>. USE DEF Inv, TypeOK, ThreadsOK, At, GoTo
  <2>3. CASE \/ IkFails(w) \/ SolveIk(w) \/ ShowSolution(w) \/ KeepSolution(w)
             \/ Snap(w) \/ MoveToCaptured(w) \/ KeepCaptured(w)
             \/ GenerateRaises(w) \/ RestoreStart(w) \/ PutTrajectory(w)
             \/ DisplayFull(w)
    <3>1. /\ pc'[w] \notin {"animate_off", "animate_on"}
          /\ UNCHANGED animate
      BY <2>3, DisplayCallbacks DEF Unsettled
    <3>. QED
      BY <2>1, <3>1
  <2>4. CASE Capture(w) \/ CheckCaptured(w) \/ UpdateButton(w)
    BY <2>1, <2>4 DEF Capture, CheckCaptured, UpdateButton, plans
  <2>5. CASE \/ StopAnimating(w) \/ DisablePlan(w) \/ DisableAnimate(w)
             \/ BeginSearch(w) \/ EndSearch(w) \/ EnableAnimate(w)
    BY <2>1, <2>5 DEF StopAnimating, DisablePlan, DisableAnimate, BeginSearch, EndSearch,
       EnableAnimate, WriteAnimate, WritePlanOff, WriteAnimateOff, plans
  <2>6. CASE HoldPlan(w)
    BY <2>1, <2>6 DEF HoldPlan, WritePlanOff, plans
  <2>7. CASE HoldAnimate(w) \/ RequestAnimation(w)
    BY <2>1, <2>7 DEF HoldAnimate, RequestAnimation, WriteAnimate, WriteAnimateOff,
                      ButtonsHeld, buttons, plans
  <2>. QED
    BY <1>2, <2>3, <2>4, <2>5, <2>6, <2>7 DEF Callback
<1>3. CASE MainLoop
  <2>. USE DEF Inv, TypeOK, ThreadsOK, At, GoTo, ButtonsHeld, Animating
  <2>1. CASE TakeTrajectory \/ FindQueueEmpty \/ TestAnimate \/ NextFrame
    BY <2>1 DEF TakeTrajectory, FindQueueEmpty, Proceed, TestAnimate, NextFrame, Display,
                buttons, plans
  <2>2. CASE FramesShown \/ ReleasePlan \/ ReleaseAnimate
    <3>1. \A w \in Workers : pc'[w] = "idle"
      BY <2>2 DEF FramesShown, ReleasePlan, ReleaseAnimate, WriteAnimate, WritePlanOff,
                  WriteAnimateOff, OneAtATime
    <3>. QED
      BY <2>2, <3>1 DEF FramesShown, ReleasePlan, ReleaseAnimate, WriteAnimate,
                        WritePlanOff, WriteAnimateOff, buttons, plans
  <2>. QED
    BY <1>3, <2>1, <2>2 DEF MainLoop
<1>4. CASE DisplayFull("loop")
  BY <1>4 DEF DisplayFull, SetCurrent, FetchFrame, Draw, Inv, TypeOK, ThreadsOK, LabelsOK,
              At, GoTo, ButtonsHeld, Animating, buttons, plans
<1>5. CASE UNCHANGED vars
  BY <1>5 DEF vars, buttons, plans, ButtonsHeld, Animating
<1>. QED
  BY <1>1, <1>2, <1>3, <1>4, <1>5 DEF Next

\* Whoever leaves the plan button alone, or gives it back, leaves it right.
LEMMA PlanButtonStep ==
  ASSUME Inv, Careful, OneAtATime, ButtonsHeld, PlanButtonFollows, [Next]_vars
  PROVE  PlanButtonFollows'
<1>. USE ViserAssumption DEF Threads
<1>1. ASSUME NEW w \in Workers, Drag(w) \/ \E o \in Controls \ {"ik"} : Click(w, o)
      PROVE  PlanButtonFollows'
  BY <1>1, BeginMoves
     DEF PlanButtonFollows, OnlyMoves, Animating, BothSet, captured, buttons, plans,
         locals, Controls, Unsettled
<1>2. ASSUME NEW w \in Workers, Callback(w) \/ DisplayFull(w)
      PROVE  PlanButtonFollows'
  <2>1. /\ \A v \in Workers : v # w => pc[v] = "idle" /\ pc'[v] = "idle"
        /\ UNCHANGED pc["loop"] /\ ~Animating
    BY <1>2, Alone, CallbackMoves DEF OnlyMoves, Animating
  <2>. DEFINE Follows == /\ pc'[w] = "update" => (off'[w] <=> ~BothSet')
                         /\ pc'[w] \notin Unsettled /\ ~animate'
                              => (planOff' <=> ~BothSet')
  <2>2. SUFFICES Follows
    BY <2>1, <2>2 DEF PlanButtonFollows, Unsettled, Animating
  <2>3. pc[w] \notin Unsettled => (planOff <=> ~BothSet)
    BY <2>1 DEF PlanButtonFollows, Unsettled
  <2>. USE DEF Inv, TypeOK, ThreadsOK, ButtonsOK, At, GoTo
  <2>4. CASE \/ IkFails(w) \/ SolveIk(w) \/ ShowSolution(w) \/ KeepSolution(w)
             \/ Snap(w) \/ MoveToCaptured(w) \/ KeepCaptured(w)
             \/ GenerateRaises(w) \/ RestoreStart(w) \/ PutTrajectory(w)
             \/ DisplayFull(w)
    BY <2>3, <2>4, DisplayCallbacks DEF Unsettled, BothSet, captured, buttons
  <2>5. CASE Capture(w) \/ CheckCaptured(w)
    BY <2>5 DEF Capture, CheckCaptured, Unsettled, BothSet, captured
  <2>6. CASE UpdateButton(w)
    BY <2>6 DEF UpdateButton, PlanButtonFollows, BothSet, captured
  <2>7. CASE StopAnimating(w) \/ DisablePlan(w) \/ EnableAnimate(w)
    BY <2>3, <2>7 DEF StopAnimating, DisablePlan, EnableAnimate, WriteAnimate,
       WritePlanOff, WriteAnimateOff, Unsettled, BothSet, captured, buttons
  <2>8. CASE DisableAnimate(w) \/ BeginSearch(w)
    BY <2>8 DEF DisableAnimate, BeginSearch, WriteAnimateOff, Unsettled
  <2>9. CASE EndSearch(w)
    BY <2>9 DEF EndSearch, SeenBoth, BothSet, captured
  <2>10. CASE HoldPlan(w) \/ HoldAnimate(w)
    BY <2>10 DEF HoldPlan, HoldAnimate, WritePlanOff, WriteAnimateOff, Unsettled
  <2>11. CASE RequestAnimation(w)
    BY <2>11 DEF RequestAnimation, WriteAnimate
  <2>. QED
    BY <1>2, <2>4, <2>5, <2>6, <2>7, <2>8, <2>9, <2>10, <2>11 DEF Callback
<1>3. CASE MainLoop
  <2>. USE DEF Inv, TypeOK, ThreadsOK, ButtonsOK, At, GoTo, PlanButtonFollows,
               Animating, BothSet, captured
  <2>1. CASE TakeTrajectory \/ FindQueueEmpty \/ TestAnimate \/ NextFrame
    BY <2>1 DEF TakeTrajectory, FindQueueEmpty, Proceed, TestAnimate, NextFrame, Display,
                buttons, plans, locals
  <2>2. CASE FramesShown \/ ReleasePlan
    BY <2>2 DEF FramesShown, ReleasePlan, WriteAnimate, WritePlanOff, plans, locals
  <2>3. CASE ReleaseAnimate
    BY <2>3 DEF ReleaseAnimate, WriteAnimateOff, ButtonsHeld, SeenBoth, plans, locals
  <2>. QED
    BY <1>3, <2>1, <2>2, <2>3 DEF MainLoop
<1>4. CASE DisplayFull("loop")
  BY <1>4 DEF DisplayFull, SetCurrent, FetchFrame, Draw, Inv, TypeOK, ThreadsOK, LabelsOK,
              At, GoTo, PlanButtonFollows, Animating, BothSet, captured, buttons,
              plans, locals
<1>5. CASE UNCHANGED vars
  BY <1>5 DEF vars, captured, buttons, plans, locals, PlanButtonFollows, Animating,
              BothSet
<1>. QED
  BY <1>1, <1>2, <1>3, <1>4, <1>5 DEF Next

-----------------------------------------------------------------------------
(* The display.                                                            *)

InDisplay(t) == pc[t] \in {"fetch", "draw"}

\* Outside display_full nothing that DisplayFollows is about changes, except
\* that a thread drops its arg.
LEMMA OutsideDisplay ==
  ASSUME Inv, [Next]_vars, ~\E t \in Threads : DisplayFull(t)
  PROVE  UNCHANGED <<current, shown, frame>>
<1>1. CASE \E w \in Workers : Drag(w) \/ \E o \in Controls \ {"ik"} : Click(w, o)
  BY <1>1 DEF Drag, Click, Proceed, robot, locals
<1>2. ASSUME NEW w \in Workers,
             \/ IkFails(w) \/ SolveIk(w) \/ ShowSolution(w) \/ KeepSolution(w)
             \/ Snap(w) \/ MoveToCaptured(w) \/ KeepCaptured(w)
             \/ Capture(w) \/ CheckCaptured(w) \/ UpdateButton(w)
      PROVE  UNCHANGED <<current, shown, frame>>
  BY <1>2 DEF IkFails, Proceed, SolveIk, ShowSolution, KeepSolution, Snap, MoveToCaptured,
              KeepCaptured, Capture, CheckCaptured, UpdateButton, robot, locals
<1>3. ASSUME NEW w \in Workers,
             \/ StopAnimating(w) \/ DisablePlan(w) \/ DisableAnimate(w) \/ BeginSearch(w)
             \/ EndSearch(w) \/ GenerateRaises(w) \/ RestoreStart(w) \/ PutTrajectory(w)
             \/ EnableAnimate(w) \/ HoldPlan(w) \/ HoldAnimate(w) \/ RequestAnimation(w)
      PROVE  UNCHANGED <<current, shown, frame>>
  BY <1>3 DEF StopAnimating, DisablePlan, DisableAnimate, BeginSearch, EndSearch,
              GenerateRaises, RestoreStart, PutTrajectory, EnableAnimate, HoldPlan,
              HoldAnimate, RequestAnimation, WriteAnimate, WritePlanOff, WriteAnimateOff,
              robot, locals
<1>4. CASE MainLoop
  BY <1>4 DEF MainLoop, TakeTrajectory, FindQueueEmpty, Proceed, TestAnimate, NextFrame,
              FramesShown, ReleasePlan, ReleaseAnimate, WriteAnimate, WritePlanOff,
              WriteAnimateOff, robot, locals
<1>5. CASE UNCHANGED vars
  BY <1>5 DEF vars, robot, locals
<1>. QED
  BY <1>1, <1>2, <1>3, <1>4, <1>5 DEF Next, Callback

\* Nobody enters or leaves the middle of display_full but by its own steps.
LEMMA OutsideFetchAndDraw ==
  ASSUME Inv, [Next]_vars, ~\E t \in Threads : DisplayFull(t), NEW t \in Threads
  PROVE  /\ InDisplay(t)' <=> InDisplay(t)
         /\ InDisplay(t) => pc'[t] = pc[t] /\ arg'[t] = arg[t]
<1>. USE ViserAssumption DEF Inv, TypeOK, ThreadsOK, LabelsOK, Threads, At, GoTo,
                             InDisplay, locals
<1>1. ASSUME NEW w \in Workers, Drag(w) \/ \E o \in Controls \ {"ik"} : Click(w, o)
      PROVE  /\ InDisplay(t)' <=> InDisplay(t)
             /\ InDisplay(t) => pc'[t] = pc[t] /\ arg'[t] = arg[t]
  BY <1>1 DEF Drag, Click, MayUse, Proceed, Controls
<1>2. ASSUME NEW w \in Workers,
             \/ IkFails(w) \/ SolveIk(w) \/ ShowSolution(w) \/ KeepSolution(w)
             \/ Snap(w) \/ MoveToCaptured(w) \/ KeepCaptured(w)
             \/ Capture(w) \/ CheckCaptured(w) \/ UpdateButton(w)
      PROVE  /\ InDisplay(t)' <=> InDisplay(t)
             /\ InDisplay(t) => pc'[t] = pc[t] /\ arg'[t] = arg[t]
  BY <1>2 DEF IkFails, Proceed, SolveIk, ShowSolution, KeepSolution, Snap, MoveToCaptured,
              KeepCaptured, Capture, CheckCaptured, UpdateButton, Display, DropArg
<1>3. ASSUME NEW w \in Workers,
             \/ StopAnimating(w) \/ DisablePlan(w) \/ DisableAnimate(w) \/ BeginSearch(w)
             \/ EndSearch(w) \/ GenerateRaises(w) \/ RestoreStart(w) \/ PutTrajectory(w)
             \/ EnableAnimate(w) \/ HoldPlan(w) \/ HoldAnimate(w) \/ RequestAnimation(w)
      PROVE  /\ InDisplay(t)' <=> InDisplay(t)
             /\ InDisplay(t) => pc'[t] = pc[t] /\ arg'[t] = arg[t]
  BY <1>3 DEF StopAnimating, DisablePlan, DisableAnimate, BeginSearch, EndSearch,
              GenerateRaises, RestoreStart, PutTrajectory, EnableAnimate, HoldPlan,
              HoldAnimate, RequestAnimation, WriteAnimate, WritePlanOff, WriteAnimateOff,
              Display, DropArg
<1>4. CASE MainLoop
  BY <1>4 DEF MainLoop, TakeTrajectory, FindQueueEmpty, Proceed, TestAnimate, NextFrame,
              FramesShown, ReleasePlan, ReleaseAnimate, WriteAnimate, WritePlanOff,
              WriteAnimateOff, Display
<1>5. CASE UNCHANGED vars
  BY <1>5 DEF vars
<1>. QED
  BY <1>1, <1>2, <1>3, <1>4, <1>5 DEF Next, Callback

\* A thread in display_full is the only one at work.
LEMMA DisplayAlone ==
  ASSUME Inv, OneAtATime, NEW t \in Threads, pc[t] \in {"set", "fetch", "draw"}
  PROVE  \A u \in Threads : u # t => pc[u] \notin {"set", "fetch", "draw"}
<1>1. CASE t \in Workers
  BY <1>1, Alone DEF Threads
<1>2. CASE t = "loop"
  BY <1>2 DEF OneAtATime, Animating, Threads
<1>. QED
  BY <1>1, <1>2 DEF Threads

\* display_full shows what it has made current.
LEMMA DisplayFollowsStep ==
  ASSUME Inv, OneAtATime, DisplayFollows, [Next]_vars
  PROVE  DisplayFollows'
<1>1. ASSUME NEW t \in Threads, DisplayFull(t)
      PROVE  DisplayFollows'
  <2>1. \A u \in Threads : u # t => ~InDisplay(u) /\ ~InDisplay(u)'
    BY <1>1, DisplayAlone DEF DisplayFull, SetCurrent, FetchFrame, Draw, At, GoTo, InDisplay,
                              Inv, TypeOK, ThreadsOK
  <2>. USE DEF Inv, TypeOK, ThreadsOK, LabelsOK, At, GoTo, InDisplay, DisplayFollows, locals
  <2>2. CASE SetCurrent(t)
    BY <2>1, <2>2 DEF SetCurrent
  <2>3. CASE FetchFrame(t)
    BY <2>1, <2>3 DEF FetchFrame, robot
  <2>4. CASE Draw(t)
    <3>1. ~InDisplay(t)' /\ shown' = current'
      BY <2>4, ViserAssumption DEF Draw, Threads
    <3>. QED
      BY <2>1, <3>1
  <2>. QED
    BY <1>1, <2>2, <2>3, <2>4 DEF DisplayFull
<1>2. CASE ~\E t \in Threads : DisplayFull(t)
  BY <1>2, OutsideDisplay, OutsideFetchAndDraw DEF DisplayFollows, InDisplay
<1>. QED
  BY <1>1, <1>2

\* From the search to the queue, start stays where the trajectory begins.
LEMMA StartShownStep ==
  ASSUME Inv, Careful, OneAtATime, ButtonsHeld, DisplayFollows, StartShown, [Next]_vars
  PROVE  StartShown'
<1>. USE ViserAssumption DEF Threads
<1>1. ASSUME NEW w \in Workers, Drag(w) \/ \E o \in Controls \ {"ik"} : Click(w, o)
      PROVE  StartShown'
  BY <1>1, BeginMoves DEF StartShown, OnlyMoves, captured, locals, Controls
<1>2. ASSUME NEW w \in Workers, Callback(w) \/ DisplayFull(w)
      PROVE  StartShown'
  <2>1. \A v \in Workers : v # w => pc[v] = "idle" /\ pc'[v] = "idle" /\ back[v] = "idle"
    BY <1>2, Alone, CallbackMoves DEF OnlyMoves, Inv, LabelsOK
  <2>. DEFINE Shown == /\ pc'[w] \in {"search", "generate"} => traj'[w].from = start'
                       /\ back'[w] = "put" => arg'[w] = traj'[w].from
                       /\ pc'[w] = "put" => shown' = traj'[w].from
  <2>2. \A v \in Workers : v # w => back'[v] # "put"
    <3>1. back' = [back EXCEPT ![w] = back'[w]]
      <4>. USE DEF Inv, TypeOK, ThreadsOK, locals
      <4>1. CASE \/ IkFails(w) \/ SolveIk(w) \/ ShowSolution(w) \/ KeepSolution(w)
                 \/ Snap(w) \/ MoveToCaptured(w) \/ KeepCaptured(w)
                 \/ Capture(w) \/ CheckCaptured(w) \/ UpdateButton(w)
        BY <4>1 DEF IkFails, Proceed, SolveIk, ShowSolution, Display, KeepSolution, Snap,
                    MoveToCaptured, KeepCaptured, Capture, CheckCaptured, UpdateButton
      <4>2. CASE \/ StopAnimating(w) \/ DisablePlan(w) \/ DisableAnimate(w) \/ BeginSearch(w)
                 \/ EndSearch(w) \/ GenerateRaises(w) \/ RestoreStart(w) \/ PutTrajectory(w)
                 \/ EnableAnimate(w) \/ HoldPlan(w) \/ HoldAnimate(w) \/ RequestAnimation(w)
        BY <4>2 DEF StopAnimating, DisablePlan, DisableAnimate, BeginSearch, EndSearch,
                    GenerateRaises, RestoreStart, PutTrajectory, EnableAnimate, HoldPlan,
                    HoldAnimate, RequestAnimation, WriteAnimate, WritePlanOff,
                    WriteAnimateOff, Display
      <4>3. CASE DisplayFull(w)
        BY <4>3 DEF DisplayFull, SetCurrent, FetchFrame, Draw
      <4>. QED
        BY <1>2, <4>1, <4>2, <4>3 DEF Callback
    <3>. QED
      BY <2>1, <3>1 DEF Inv, TypeOK, ThreadsOK
  <2>3. SUFFICES Shown
    BY <2>1, <2>2, <2>3 DEF StartShown
  <2>. USE DEF Inv, TypeOK, ThreadsOK, PlansOK, LabelsOK, At, GoTo, StartShown, locals
  <2>4. CASE \/ IkFails(w) \/ SolveIk(w) \/ ShowSolution(w) \/ KeepSolution(w)
             \/ Snap(w) \/ MoveToCaptured(w) \/ KeepCaptured(w)
    BY <2>4 DEF IkFails, Proceed, SolveIk, ShowSolution, Display, KeepSolution, Snap,
                MoveToCaptured, KeepCaptured
  <2>5. CASE Capture(w) \/ CheckCaptured(w) \/ UpdateButton(w)
    BY <2>5 DEF Capture, CheckCaptured, UpdateButton
  <2>6. CASE \/ StopAnimating(w) \/ DisablePlan(w) \/ DisableAnimate(w)
             \/ EnableAnimate(w) \/ HoldPlan(w) \/ HoldAnimate(w) \/ RequestAnimation(w)
    BY <2>6 DEF StopAnimating, DisablePlan, DisableAnimate, EnableAnimate, HoldPlan,
                HoldAnimate, RequestAnimation, WriteAnimate, WritePlanOff, WriteAnimateOff
  <2>7. CASE BeginSearch(w)
    BY <2>7 DEF BeginSearch, captured
  <2>8. CASE EndSearch(w)
    BY <2>8 DEF EndSearch, captured
  <2>9. CASE GenerateRaises(w) \/ PutTrajectory(w)
    BY <2>9 DEF GenerateRaises, PutTrajectory, DropArg
  <2>10. CASE RestoreStart(w)
    BY <2>10 DEF RestoreStart, Display
  <2>11. CASE DisplayFull(w)
    BY <2>11 DEF DisplayFull, SetCurrent, FetchFrame, Draw, DisplayFollows
  <2>. QED
    BY <1>2, <2>4, <2>5, <2>6, <2>7, <2>8, <2>9, <2>10, <2>11 DEF Callback
<1>3. CASE MainLoop
  <2>. USE DEF Inv, TypeOK, ThreadsOK, LabelsOK, At, GoTo, StartShown, robot, captured, locals
  <2>1. CASE TakeTrajectory \/ FindQueueEmpty \/ TestAnimate
    BY <2>1 DEF TakeTrajectory, FindQueueEmpty, Proceed, TestAnimate
  <2>2. CASE NextFrame
    BY <2>2 DEF NextFrame, Display
  <2>3. CASE FramesShown \/ ReleasePlan \/ ReleaseAnimate
    BY <2>3 DEF FramesShown, ReleasePlan, ReleaseAnimate, WriteAnimate, WritePlanOff,
                WriteAnimateOff
  <2>. QED
    BY <1>3, <2>1, <2>2, <2>3 DEF MainLoop
<1>4. CASE DisplayFull("loop")
  <2>1. \A w \in Workers : pc[w] = "idle" /\ back[w] = "idle"
    BY <1>4 DEF DisplayFull, SetCurrent, FetchFrame, Draw, At, OneAtATime, Animating, Inv,
                LabelsOK
  <2>. QED
    BY <1>4, <2>1 DEF DisplayFull, SetCurrent, FetchFrame, Draw, GoTo, Inv, TypeOK,
                      ThreadsOK, StartShown, locals
<1>5. CASE UNCHANGED vars
  BY <1>5 DEF vars, robot, captured, locals, StartShown
<1>. QED
  BY <1>1, <1>2, <1>3, <1>4, <1>5 DEF Next

-----------------------------------------------------------------------------
(* The theorems.                                                           *)

\* Together with Inv of ViserIkRrtProofs, the parts are inductive.
LEMMA CarefulInvariant ==
  ASSUME Careful
  PROVE  Spec => []CarefulInv
<1>1. Init => CarefulInv
  <2>. SUFFICES ASSUME Init
                PROVE  CarefulInv
    OBVIOUS
  <2>. USE ViserAssumption DEF Init, Threads
  <2>1. OneAtATime
    BY DEF OneAtATime
  <2>2. ButtonsHeld
    BY DEF ButtonsHeld, Animating
  <2>3. PlanButtonFollows
    BY DEF PlanButtonFollows, BothSet
  <2>4. DisplayFollows
    BY DEF DisplayFollows
  <2>5. StartShown
    BY DEF StartShown
  <2>. QED
    BY <2>1, <2>2, <2>3, <2>4, <2>5 DEF CarefulInv
<1>2. Inv /\ CarefulInv /\ [Next]_vars => CarefulInv'
  BY OneAtATimeStep, ButtonsHeldStep, PlanButtonStep, DisplayFollowsStep, StartShownStep
     DEF CarefulInv
<1>. QED
  BY <1>1, <1>2, InvInvariant, PTL DEF Spec

\* For a careful operator the plan button is enabled exactly when both
\* configurations are captured, whenever nothing is in progress.
THEOREM PlanButtonFollowsCaptures ==
  ASSUME Careful
  PROVE  Spec => []PlanButtonIsRight
<1>1. Inv /\ CarefulInv => PlanButtonIsRight
  <2>. SUFFICES ASSUME Inv, CarefulInv, AtRest
                PROVE  planOff = (start = None \/ goal = None)
    BY DEF PlanButtonIsRight
  <2>1. planOff \in BOOLEAN
    BY DEF Inv, TypeOK, ButtonsOK
  <2>2. planOff <=> ~BothSet
    BY DEF AtRest, CarefulInv, PlanButtonFollows, Unsettled
  <2>. QED
    BY <2>1, <2>2 DEF BothSet
<1>. QED
  BY <1>1, InvInvariant, CarefulInvariant, PTL

\* No plan of a careful operator's is made while the loop animates: the buttons
\* are held until the last frame is shown.
THEOREM PlansWaitForAnimations ==
  ASSUME Careful
  PROVE  Spec => []NoPlanDuringAnimation
<1>1. CarefulInv => NoPlanDuringAnimation
  BY DEF CarefulInv, OneAtATime, Animating, NoPlanDuringAnimation
<1>. QED
  BY <1>1, CarefulInvariant, PTL

\* A careful operator's plan is put into the queue with the robot shown where
\* the plan starts.
THEOREM PlansBeginWhereShown ==
  ASSUME Careful
  PROVE  Spec => []PlanShowsItsStart
<1>1. CarefulInv => PlanShowsItsStart
  BY DEF CarefulInv, StartShown, PlanShowsItsStart
<1>. QED
  BY <1>1, CarefulInvariant, PTL

\* The marker of a careful operator snaps back to what is shown.
THEOREM MarkerSnapsToShown ==
  ASSUME Careful
  PROVE  Spec => SnapsToShown
<1>. DEFINE Snaps == \A w \in Workers : pc[w] = "snap" /\ pc'[w] = "idle" => marker' = shown
<1>1. Inv /\ CarefulInv /\ [Next]_vars => [Snaps]_vars
  <2>. SUFFICES ASSUME Inv, CarefulInv, [Next]_vars,
                       NEW w \in Workers, pc[w] = "snap", pc'[w] = "idle"
                PROVE  marker' = shown
    OBVIOUS
  <2>1. /\ \A v \in Workers : v # w => pc[v] = "idle"
        /\ pc["loop"] \in {"top", "test"} /\ ~Animating
    BY Alone DEF CarefulInv, Animating
  <2>2. shown = current
    BY <2>1 DEF CarefulInv, DisplayFollows, Threads
  <2>3. Snap(w)
    <3>1. CASE Drag(w) \/ \E o \in Controls \ {"ik"} : Click(w, o)
      BY <3>1 DEF Drag, Click, MayUse, At
    <3>2. ASSUME NEW v \in Workers, v # w,
                 \/ Drag(v) \/ (\E o \in Controls \ {"ik"} : Click(v, o))
                 \/ Callback(v) \/ DisplayFull(v)
          PROVE  FALSE
      BY <3>2, BeginMoves, CallbackMoves DEF OnlyMoves, Threads
    <3>3. CASE \/ MainLoop \/ DisplayFull("loop")
      BY <3>3, LoopMoves, ViserAssumption DEF OnlyMoves, Threads
    <3>4. CASE Callback(w) \/ DisplayFull(w)
      BY <3>4 DEF Callback, IkFails, Proceed, SolveIk, ShowSolution, Display, KeepSolution,
         MoveToCaptured, KeepCaptured, Capture, CheckCaptured, UpdateButton,
         StopAnimating, DisablePlan, DisableAnimate, BeginSearch, EndSearch, GenerateRaises,
         RestoreStart, PutTrajectory, EnableAnimate, HoldPlan, HoldAnimate, RequestAnimation,
         WriteAnimate, WritePlanOff, WriteAnimateOff, DisplayFull, SetCurrent, FetchFrame,
         Draw, At
    <3>5. CASE UNCHANGED vars
      BY <3>5 DEF vars
    <3>. QED
      BY <3>1, <3>2, <3>3, <3>4, <3>5 DEF Next, Threads
  <2>. QED
    BY <2>2, <2>3 DEF Snap
<1>. QED
  BY <1>1, InvInvariant, CarefulInvariant, PTL DEF Spec, SnapsToShown
=============================================================================
