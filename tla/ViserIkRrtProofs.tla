-------------------------- MODULE ViserIkRrtProofs --------------------------
(***************************************************************************)
(* What is proved about ViserIkRrt for every set of configurations, any    *)
(* number of threads in the viewer's pool, and any operator.               *)
(***************************************************************************)
EXTENDS ViserIkRrt, SequenceTheorems, TLAPS

BothSet == start # None /\ goal # None

\* Where a thread is tells what it has in its hands.
HandsOK(t) ==
  /\ pc[t] \in {"set", "fetch", "draw"} => arg[t] \in Configs
  /\ pc[t] = "draw" => frame[t] \in Configs
  /\ pc[t] = "move_group" => arg[t] \in Configs
  /\ pc[t] \in {"read", "ik_group"} \/ back[t] = "ik_group" => solution # None
  /\ pc[t] = "move_start" => start # None
  /\ pc[t] = "move_goal" => goal # None
  /\ t \in Workers /\ (pc[t] \in {"search", "generate", "put"} \/ back[t] = "put") => traj[t] # None

\* The loop's labels are its own.
LoopLabels == {"top", "test", "frames", "stop_plan", "stop_animate"}

LabelsOK ==
  /\ pc["loop"] \in LoopLabels \cup {"set", "fetch", "draw"}
  /\ pc["loop"] \in {"set", "fetch", "draw"} => back["loop"] = "frames"
  /\ \A w \in Workers :
       /\ pc[w] \in Labels \ LoopLabels
       /\ back[w] \in {"idle", "ik_group", "move_group", "put"}
       /\ pc[w] \notin {"set", "fetch", "draw"} => back[w] = "idle"

\* Whoever may enable a button, or has found one enabled, has seen both
\* configurations; they are never unset.
SeenBoth ==
  /\ ~planOff \/ ~animateOff \/ animate => BothSet
  /\ pc["loop"] \notin {"top", "test"} => BothSet
  /\ \A w \in Workers :
       /\ pc[w] \in {"plan", "plan_off", "anim_off", "assert", "search", "generate", "put",
                     "anim_on", "animate", "animate_off", "animate_on"} => BothSet
       /\ back[w] = "put" => BothSet
       /\ pc[w] = "update" /\ ~off[w] => BothSet

\* Whoever may enable or has used the animate button has a trajectory.
SeenTrajectory ==
  LET available == queue # <<>> \/ cur # None
  IN  /\ ~animateOff \/ animate => available
      /\ pc["loop"] \notin {"top", "test"} => cur # None
      /\ \A w \in Workers :
           pc[w] \in {"anim_on", "animate", "animate_off", "animate_on"} => available

Inv ==
  /\ TypeOK
  /\ LabelsOK
  /\ \A t \in Threads : HandsOK(t)
  /\ SeenBoth
  /\ SeenTrajectory

-----------------------------------------------------------------------------
(* Proofs.                                                                 *)

LEMMA InvInvariant == Spec => []Inv
<1>1. Init => Inv
  <2>. SUFFICES ASSUME Init
                PROVE  Inv
    OBVIOUS
  <2>. USE ViserAssumption DEF Init, Threads
  <2>1. RobotOK
    BY DEF RobotOK
  <2>6. PlansOK
    BY DEF PlansOK
  <2>7. ButtonsOK
    BY DEF ButtonsOK
  <2>5. ThreadsOK
    BY DEF ThreadsOK, Labels, Controls
  <2>2. LabelsOK
    BY DEF LabelsOK, LoopLabels, Labels, Controls
  <2>3. \A t \in Threads : HandsOK(t)
    BY DEF HandsOK
  <2>4. SeenBoth /\ SeenTrajectory
    BY DEF SeenBoth, SeenTrajectory
  <2>. QED
    BY <2>1, <2>2, <2>3, <2>4, <2>5, <2>6, <2>7 DEF Inv, TypeOK
<1>2. Inv /\ [Next]_vars => Inv'
  <2>. SUFFICES ASSUME Inv, [Next]_vars
                PROVE  Inv'
    OBVIOUS
  <2>. USE ViserAssumption DEF Inv, TypeOK, RobotOK, PlansOK, ButtonsOK,
     ThreadsOK, Threads, At, GoTo, robot,
           captured, buttons, plans, locals
  <2>1. ASSUME NEW w \in Workers, Drag(w)
        PROVE  Inv'
    BY <2>1 DEF Drag, MayUse, Labels, Controls, LabelsOK, LoopLabels, HandsOK,
       SeenBoth, BothSet, SeenTrajectory
  <2>2. ASSUME NEW w \in Workers, IkFails(w)
        PROVE  Inv'
    BY <2>2 DEF IkFails, Proceed, Labels, Controls, LabelsOK, LoopLabels,
       HandsOK, SeenBoth, BothSet, SeenTrajectory
  <2>3. ASSUME NEW w \in Workers, SolveIk(w)
        PROVE  Inv'
    BY <2>3 DEF SolveIk, Labels, Controls, LabelsOK, LoopLabels, HandsOK,
       SeenBoth, BothSet, SeenTrajectory
  <2>4. ASSUME NEW w \in Workers, ShowSolution(w)
        PROVE  Inv'
    BY <2>4 DEF ShowSolution, Display, Labels, Controls, LabelsOK, LoopLabels,
       HandsOK, SeenBoth, BothSet, SeenTrajectory
  <2>5. ASSUME NEW w \in Workers, KeepSolution(w)
        PROVE  Inv'
    BY <2>5 DEF KeepSolution, DropArg, Labels, Controls, LabelsOK, LoopLabels,
       HandsOK, SeenBoth, BothSet, SeenTrajectory
  <2>6. ASSUME NEW w \in Workers, Snap(w)
        PROVE  Inv'
    BY <2>6 DEF Snap, Labels, Controls, LabelsOK, LoopLabels, HandsOK, SeenBoth,
       BothSet, SeenTrajectory
  <2>7. ASSUME NEW w \in Workers, MoveToCaptured(w)
        PROVE  Inv'
    <3>1. CASE Display(w, "move_start", start, "move_group")
      BY <2>7, <3>1 DEF MoveToCaptured, Display, Labels, Controls, LabelsOK,
         LoopLabels,
         HandsOK, SeenBoth, BothSet, SeenTrajectory
    <3>2. CASE Display(w, "move_goal", goal, "move_group")
      BY <2>7, <3>2 DEF MoveToCaptured, Display, Labels, Controls, LabelsOK,
         LoopLabels,
         HandsOK, SeenBoth, BothSet, SeenTrajectory
    <3>. QED
      BY <2>7, <3>1, <3>2 DEF MoveToCaptured
  <2>8. ASSUME NEW w \in Workers, KeepCaptured(w)
        PROVE  Inv'
    BY <2>8 DEF KeepCaptured, DropArg, Labels, Controls, LabelsOK, LoopLabels,
       HandsOK, SeenBoth, BothSet, SeenTrajectory
  <2>9. ASSUME NEW w \in Workers, Capture(w)
        PROVE  Inv'
    BY <2>9 DEF Capture, Labels, Controls, LabelsOK, LoopLabels, HandsOK,
       SeenBoth, BothSet, SeenTrajectory
  <2>10. ASSUME NEW w \in Workers, CheckCaptured(w)
        PROVE  Inv'
    BY <2>10 DEF CheckCaptured, Labels, Controls, LabelsOK, LoopLabels, HandsOK,
       SeenBoth, BothSet, SeenTrajectory
  <2>11. ASSUME NEW w \in Workers, UpdateButton(w)
        PROVE  Inv'
    BY <2>11 DEF UpdateButton, Labels, Controls, LabelsOK, LoopLabels, HandsOK,
       SeenBoth, BothSet, SeenTrajectory
  <2>12. ASSUME NEW w \in Workers, StopAnimating(w)
        PROVE  Inv'
    <3>1. RobotOK'
      BY <2>12 DEF StopAnimating, WriteAnimate, HandsOK
    <3>2. PlansOK'
      BY <2>12 DEF StopAnimating, WriteAnimate, HandsOK
    <3>3. ButtonsOK'
      BY <2>12 DEF StopAnimating, WriteAnimate
    <3>4. ThreadsOK'
      BY <2>12 DEF StopAnimating, WriteAnimate, Labels, Controls, HandsOK,
         SeenBoth, BothSet
    <3>5. LabelsOK'
      BY <2>12 DEF StopAnimating, WriteAnimate, LabelsOK, LoopLabels, Labels,
         Controls
    <3>6. \A u \in Threads : HandsOK(u)'
      BY <2>12 DEF StopAnimating, WriteAnimate, HandsOK, LabelsOK, LoopLabels,
         SeenBoth, BothSet
    <3>7. SeenBoth'
      BY <2>12 DEF StopAnimating, WriteAnimate, SeenBoth, BothSet
    <3>8. SeenTrajectory'
      BY <2>12 DEF StopAnimating, WriteAnimate, SeenTrajectory
    <3>. QED
      BY <3>1, <3>2, <3>3, <3>4, <3>5, <3>6, <3>7, <3>8
  <2>13. ASSUME NEW w \in Workers, DisablePlan(w)
        PROVE  Inv'
    BY <2>13 DEF DisablePlan, WritePlanOff, Labels, Controls, LabelsOK,
       LoopLabels, HandsOK, SeenBoth, BothSet, SeenTrajectory
  <2>14. ASSUME NEW w \in Workers, DisableAnimate(w)
        PROVE  Inv'
    BY <2>14 DEF DisableAnimate, WriteAnimateOff, Labels, Controls, LabelsOK,
       LoopLabels, HandsOK, SeenBoth, BothSet, SeenTrajectory
  <2>15. ASSUME NEW w \in Workers, BeginSearch(w)
        PROVE  Inv'
    <3>1. RobotOK'
      BY <2>15 DEF BeginSearch, Trajectories, HandsOK
    <3>2. PlansOK'
      BY <2>15 DEF BeginSearch, Trajectories, HandsOK
    <3>3. ButtonsOK'
      BY <2>15 DEF BeginSearch, Trajectories
    <3>4. ThreadsOK'
      BY <2>15 DEF BeginSearch, Trajectories, Labels, Controls, HandsOK,
         SeenBoth, BothSet
    <3>5. LabelsOK'
      BY <2>15 DEF BeginSearch, Trajectories, LabelsOK, LoopLabels, Labels, Controls
    <3>6. \A u \in Threads : HandsOK(u)'
      BY <2>15 DEF BeginSearch, Trajectories, HandsOK, LabelsOK, LoopLabels,
         SeenBoth, BothSet
    <3>7. SeenBoth'
      BY <2>15 DEF BeginSearch, Trajectories, SeenBoth, BothSet
    <3>8. SeenTrajectory'
      BY <2>15 DEF BeginSearch, Trajectories, SeenTrajectory
    <3>. QED
      BY <3>1, <3>2, <3>3, <3>4, <3>5, <3>6, <3>7, <3>8
  <2>16. ASSUME NEW w \in Workers, EndSearch(w)
        PROVE  Inv'
    <3>1. CASE GoTo(w, "generate") /\ UNCHANGED traj
      <4>1. /\ \A u \in Threads : u # w => pc'[u] = pc[u]
            /\ pc[w] = "search" /\ pc'[w] = "generate" /\ w \in Workers
        BY <2>16, <3>1 DEF EndSearch
      <4>2. TypeOK'
        BY <2>16, <3>1 DEF EndSearch, Labels, Controls
      <4>3. LabelsOK'
        BY <2>16, <4>1 DEF EndSearch, Labels, Controls, LabelsOK, LoopLabels
      <4>4. \A u \in Threads : HandsOK(u)'
        <5>1. traj[w] # None
          BY <4>1 DEF HandsOK
        <5>. QED
          BY <2>16, <3>1, <4>1, <5>1 DEF EndSearch, HandsOK
      <4>5. SeenBoth' /\ SeenTrajectory'
        BY <2>16, <3>1, <4>1 DEF EndSearch, SeenBoth, BothSet, SeenTrajectory
      <4>. QED
        BY <4>2, <4>3, <4>4, <4>5
    <3>2. CASE GoTo(w, "idle") /\ traj' = [traj EXCEPT ![w] = None]
      <4>1. back[w] = "idle" /\ w \in Threads
        BY <2>16 DEF EndSearch, LabelsOK, LoopLabels
      <4>2. TypeOK'
        BY <2>16, <3>2 DEF EndSearch, Labels, Controls
      <4>3. /\ \A u \in Threads : u # w => pc'[u] = pc[u]
            /\ pc'[w] = "idle" /\ w \in Workers /\ back' = back
        BY <2>16, <3>2 DEF EndSearch
      <4>4. LabelsOK'
        BY <4>1, <4>3 DEF Labels, Controls, LabelsOK, LoopLabels
      <4>5. \A u \in Threads : HandsOK(u)'
        BY <2>16, <3>2, <4>1 DEF EndSearch, HandsOK
      <4>6. SeenBoth' /\ SeenTrajectory'
        BY <2>16, <3>2 DEF EndSearch, SeenBoth, BothSet, SeenTrajectory
      <4>. QED
        BY <4>2, <4>4, <4>5, <4>6
    <3>. QED
      BY <2>16, <3>1, <3>2 DEF EndSearch
  <2>17. ASSUME NEW w \in Workers, GenerateRaises(w)
        PROVE  Inv'
    <3>1. RobotOK'
      BY <2>17 DEF GenerateRaises, HandsOK
    <3>2. PlansOK'
      BY <2>17 DEF GenerateRaises, HandsOK
    <3>3. ButtonsOK'
      BY <2>17 DEF GenerateRaises
    <3>4. ThreadsOK'
      BY <2>17 DEF GenerateRaises, Labels, Controls, HandsOK, SeenBoth, BothSet
    <3>5. LabelsOK'
      BY <2>17 DEF GenerateRaises, LabelsOK, LoopLabels, Labels, Controls
    <3>6. \A u \in Threads : HandsOK(u)'
      BY <2>17 DEF GenerateRaises, HandsOK, LabelsOK, LoopLabels, SeenBoth, BothSet
    <3>7. SeenBoth'
      BY <2>17 DEF GenerateRaises, SeenBoth, BothSet
    <3>8. SeenTrajectory'
      BY <2>17 DEF GenerateRaises, SeenTrajectory
    <3>. QED
      BY <3>1, <3>2, <3>3, <3>4, <3>5, <3>6, <3>7, <3>8
  <2>18. ASSUME NEW w \in Workers, RestoreStart(w)
        PROVE  Inv'
    BY <2>18 DEF RestoreStart, Display, Labels, Controls, LabelsOK, LoopLabels,
       HandsOK, SeenBoth, BothSet, SeenTrajectory
  <2>19. ASSUME NEW w \in Workers, PutTrajectory(w)
        PROVE  Inv'
    <3>1. RobotOK'
      BY <2>19 DEF PutTrajectory, DropArg, HandsOK
    <3>2. PlansOK'
      BY <2>19 DEF PutTrajectory, DropArg, HandsOK
    <3>3. ButtonsOK'
      BY <2>19 DEF PutTrajectory, DropArg
    <3>4. ThreadsOK'
      BY <2>19 DEF PutTrajectory, DropArg, Labels, Controls, HandsOK, SeenBoth,
         BothSet
    <3>5. LabelsOK'
      BY <2>19 DEF PutTrajectory, DropArg, LabelsOK, LoopLabels, Labels, Controls
    <3>6. \A u \in Threads : HandsOK(u)'
      BY <2>19 DEF PutTrajectory, DropArg, HandsOK, LabelsOK, LoopLabels,
         SeenBoth, BothSet
    <3>7. SeenBoth'
      BY <2>19 DEF PutTrajectory, DropArg, SeenBoth, BothSet
    <3>8. SeenTrajectory'
      <4>1. queue' = Append(queue, traj[w]) /\ traj[w] \in Trajectories
        BY <2>19 DEF PutTrajectory, DropArg, HandsOK
      <4>2. queue' # <<>>
        BY <4>1, AppendProperties
      <4>. QED
        BY <2>19, <4>2 DEF PutTrajectory, DropArg, SeenTrajectory
    <3>. QED
      BY <3>1, <3>2, <3>3, <3>4, <3>5, <3>6, <3>7, <3>8
  <2>20. ASSUME NEW w \in Workers, EnableAnimate(w)
        PROVE  Inv'
    <3>1. RobotOK'
      BY <2>20 DEF EnableAnimate, WriteAnimateOff, HandsOK
    <3>2. PlansOK'
      BY <2>20 DEF EnableAnimate, WriteAnimateOff, HandsOK
    <3>3. ButtonsOK'
      BY <2>20 DEF EnableAnimate, WriteAnimateOff
    <3>4. ThreadsOK'
      BY <2>20 DEF EnableAnimate, WriteAnimateOff, Labels, Controls, HandsOK,
         SeenBoth, BothSet
    <3>5. LabelsOK'
      BY <2>20 DEF EnableAnimate, WriteAnimateOff, LabelsOK, LoopLabels, Labels,
         Controls
    <3>6. \A u \in Threads : HandsOK(u)'
      BY <2>20 DEF EnableAnimate, WriteAnimateOff, HandsOK, LabelsOK, LoopLabels,
         SeenBoth, BothSet
    <3>7. SeenBoth'
      BY <2>20 DEF EnableAnimate, WriteAnimateOff, SeenBoth, BothSet
    <3>8. SeenTrajectory'
      BY <2>20 DEF EnableAnimate, WriteAnimateOff, SeenTrajectory
    <3>. QED
      BY <3>1, <3>2, <3>3, <3>4, <3>5, <3>6, <3>7, <3>8
  <2>21. ASSUME NEW w \in Workers, HoldPlan(w)
        PROVE  Inv'
    BY <2>21 DEF HoldPlan, WritePlanOff, Labels, Controls, LabelsOK, LoopLabels,
       HandsOK, SeenBoth, BothSet, SeenTrajectory
  <2>22. ASSUME NEW w \in Workers, HoldAnimate(w)
        PROVE  Inv'
    BY <2>22 DEF HoldAnimate, WriteAnimateOff, Labels, Controls, LabelsOK,
       LoopLabels, HandsOK, SeenBoth, BothSet, SeenTrajectory
  <2>23. ASSUME NEW w \in Workers, RequestAnimation(w)
        PROVE  Inv'
    BY <2>23 DEF RequestAnimation, WriteAnimate, Labels, Controls, LabelsOK,
       LoopLabels, HandsOK, SeenBoth, BothSet, SeenTrajectory
  <2>24. ASSUME NEW w \in Workers, NEW op \in Controls \ {"ik"}, Click(w, op)
        PROVE  Inv'
    BY <2>24 DEF Click, MayUse, Proceed, Labels, Controls, LabelsOK, LoopLabels,
       HandsOK, SeenBoth, BothSet, SeenTrajectory
  <2>25. ASSUME NEW t \in Threads, SetCurrent(t)
        PROVE  Inv'
    BY <2>25 DEF SetCurrent, Labels, Controls, LabelsOK, LoopLabels, HandsOK,
       SeenBoth, BothSet, SeenTrajectory
  <2>26. ASSUME NEW t \in Threads, FetchFrame(t)
        PROVE  Inv'
    BY <2>26 DEF FetchFrame, Labels, Controls, LabelsOK, LoopLabels, HandsOK,
       SeenBoth, BothSet, SeenTrajectory
  <2>27. ASSUME NEW t \in Threads, Draw(t)
        PROVE  Inv'
    BY <2>27 DEF Draw, Labels, Controls, LabelsOK, LoopLabels, HandsOK, SeenBoth,
       BothSet, SeenTrajectory
  <2>28. CASE TakeTrajectory
    BY <2>28 DEF TakeTrajectory, Labels, Controls, LabelsOK, LoopLabels, HandsOK,
       SeenBoth, BothSet, SeenTrajectory
  <2>29. CASE FindQueueEmpty
    BY <2>29 DEF FindQueueEmpty, Proceed, Labels, Controls, LabelsOK, LoopLabels,
       HandsOK, SeenBoth, BothSet, SeenTrajectory
  <2>30. CASE TestAnimate
    <3>1. RobotOK'
      BY <2>30 DEF TestAnimate, Trajectories, HandsOK
    <3>2. PlansOK'
      <4>1. animate /\ cur # None => cur.from \in Configs /\ cur.to \in Configs
        BY DEF Trajectories
      <4>2. CASE animate /\ cur # None
        <5>1. left' = <<cur.from, cur.to>>
          BY <2>30, <4>2 DEF TestAnimate
        <5>2. left' \in Seq(Configs)
          BY <4>1, <4>2, <5>1
        <5>. QED
          BY <2>30, <5>2 DEF TestAnimate
      <4>3. CASE ~(animate /\ cur # None)
        BY <2>30, <4>3 DEF TestAnimate
      <4>. QED
        BY <4>2, <4>3
    <3>3. ButtonsOK'
      BY <2>30 DEF TestAnimate, Trajectories
    <3>4. ThreadsOK'
      BY <2>30 DEF TestAnimate, Trajectories, Labels, Controls, HandsOK,
         SeenBoth, BothSet
    <3>5. LabelsOK'
      BY <2>30 DEF TestAnimate, Trajectories, LabelsOK, LoopLabels, Labels, Controls
    <3>6. \A u \in Threads : HandsOK(u)'
      BY <2>30 DEF TestAnimate, Trajectories, HandsOK, LabelsOK, LoopLabels,
         SeenBoth, BothSet
    <3>7. SeenBoth'
      BY <2>30 DEF TestAnimate, Trajectories, SeenBoth, BothSet
    <3>8. SeenTrajectory'
      BY <2>30 DEF TestAnimate, Trajectories, SeenTrajectory
    <3>. QED
      BY <3>1, <3>2, <3>3, <3>4, <3>5, <3>6, <3>7, <3>8
  <2>31. CASE NextFrame
    BY <2>31 DEF NextFrame, Display, Labels, Controls, LabelsOK, LoopLabels,
       HandsOK, SeenBoth, BothSet, SeenTrajectory
  <2>32. CASE FramesShown
    BY <2>32 DEF FramesShown, WriteAnimate, Labels, Controls, LabelsOK,
       LoopLabels, HandsOK, SeenBoth, BothSet, SeenTrajectory
  <2>33. CASE ReleasePlan
    BY <2>33 DEF ReleasePlan, WritePlanOff, Labels, Controls, LabelsOK,
       LoopLabels, HandsOK, SeenBoth, BothSet, SeenTrajectory
  <2>34. CASE ReleaseAnimate
    BY <2>34 DEF ReleaseAnimate, WriteAnimateOff, Labels, Controls, LabelsOK,
       LoopLabels, HandsOK, SeenBoth, BothSet, SeenTrajectory
  <2>35. CASE UNCHANGED vars
    BY <2>35 DEF vars, Labels, Controls, LabelsOK, LoopLabels, HandsOK, SeenBoth,
       BothSet, SeenTrajectory
  <2>. QED
    BY <2>1, <2>2, <2>3, <2>4, <2>5, <2>6, <2>7, <2>8, <2>9, <2>10, <2>11,
       <2>12, <2>13, <2>14, <2>15, <2>16, <2>17, <2>18, <2>19, <2>20, <2>21,
       <2>22, <2>23, <2>24, <2>25, <2>26, <2>27, <2>28, <2>29, <2>30, <2>31,
       <2>32, <2>33, <2>34, <2>35
    DEF Next, Callback, DisplayFull, MainLoop
<1>. QED
  BY <1>1, <1>2, PTL DEF Spec

\* Every variable holds a value of its kind.
THEOREM TypeCorrect == Spec => []TypeOK
BY InvInvariant, PTL DEF Inv

\* The asserts of plan_path hold, whatever is clicked during whatever.
THEOREM AssertsAlwaysHold == Spec => []AssertsHold
<1>1. Inv => AssertsHold
  BY DEF Inv, SeenBoth, BothSet, AssertsHold
<1>. QED
  BY <1>1, InvInvariant, PTL

\* An animation that is asked for, or could be, has a trajectory to show.
THEOREM AnimationsHaveTrajectories == Spec => []AnimateHasTrajectory
<1>1. Inv => AnimateHasTrajectory
  BY DEF Inv, SeenTrajectory, AnimateHasTrajectory
<1>. QED
  BY <1>1, InvInvariant, PTL
=============================================================================
