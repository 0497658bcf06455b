------------------------ MODULE PlanAndExecuteProofs ------------------------
(***************************************************************************)
(* What is proved about PlanAndExecute for every set of configurations:    *)
(* two theorems for every interleaving of the threads, and the rest for    *)
(* one callback at a time.                                                 *)
(***************************************************************************)
EXTENDS PlanAndExecute, TLAPS

\* Callbacks of the marker's thread come after the first joint state, plans and
\* resets have brought _latest_joint_positions up to date, and a thread that
\* has solved has a trajectory.
TypeInv ==
  /\ TypeOK
  /\ Alive /\ pc["main"] # "wait" => js \in Configs
  /\ pc["main"] = "wait" => pc["marker"] = "idle" /\ ~ready
  /\ \A t \in Threads :
       /\ Alive /\ pc[t] \in {"goal", "pose", "clear_target", "clear_plan", "erase", "done"}
            => latest \in Configs
       /\ pc[t] = "solve" => traj[t] \in Trajectories

\* A path without a plan is about to be erased or to make its plan fail.
OrphanInv ==
  Alive /\ planned \notin Trajectories /\ pc["marker"] # "unset" /\ path # None
    => \/ \E t \in Threads : pc[t] \in {"erase", "count"}
       \/ pc["main"] \in {"wait", "menu", "visualizers", "fields", "reset", "pose",
                          "clear_target", "clear_plan"}

-----------------------------------------------------------------------------
(* One callback at a time.                                                 *)

Serial == ~Overlap /\ ~EarlyUse

Quiet(t) == pc[t] \in Ended \cup {"idle"}

Constructing == {"wait", "menu", "visualizers", "fields"}

\* At most one thread is in a callback, and the constructor is alone.
OneAtATime ==
  /\ \A t \in Threads : pc[t] # "unset"
  /\ Quiet("main") \/ Quiet("marker")
  /\ ~ready => pc["marker"] = "idle"
  /\ ready => pc["main"] \notin Constructing /\ latest \in Configs
  /\ ~ready => planned \notin Trajectories /\ target \notin Configs /\ path = None
  /\ Alive /\ pc["main"] \notin Constructing => target # Missing /\ planned # Missing
  /\ ~ready => pc["main"] \in Ended \cup Constructing \cup
                 {"reset", "pose", "clear_target", "clear_plan", "erase", "done"}

\* What a thread may rely on where it is.
HasTarget(t) ==
  /\ pc[t] \in {"start", "goal", "solve", "show"} => target \in Configs
  /\ pc[t] = "solve" => traj[t] \in Trajectories /\ traj[t].to = target
  /\ pc[t] = "show" => aimed = target

HasPlan(t) ==
  /\ pc[t] \in {"draw", "publish", "count", "play", "server", "convert", "send"}
       => planned \in Trajectories
  /\ pc[t] \in {"publish", "send"} => traj[t] = planned

HasCleared(t) ==
  /\ pc[t] \in {"clear_plan", "erase", "done"} => target = None
  /\ pc[t] \in {"erase", "done"} => planned = None
  /\ pc[t] = "done" => path = None

\* The display lags behind the attributes only between the two writes.
PathInv ==
  (\A t \in Threads : pc[t] \notin {"draw", "publish", "erase"}) => path = Value(planned)

GhostInv ==
  /\ (\A t \in Threads : pc[t] \notin {"pose", "show", "clear_target"})
       => ghost = IF Value(target) = None THEN latest ELSE target
  /\ (\E t \in Threads : pc[t] = "clear_target") => ghost = latest

SerialInv ==
  /\ OneAtATime
  /\ \A t \in Threads : HasTarget(t) /\ HasPlan(t) /\ HasCleared(t)
  /\ PathInv
  /\ Alive => GhostInv

-----------------------------------------------------------------------------
(* No reset: what has been checked stays.                                  *)

NoReset == "reset" \notin Menu /\ ~EarlyUse

KeepInv ==
  /\ ~ready => pc["marker"] = "idle"
  /\ ~ready => pc["main"] \in Ended \cup Constructing \cup
                 {"reset", "pose", "clear_target", "clear_plan", "erase", "done"}
  /\ Alive /\ pc["main"] \notin Constructing => target # Missing /\ planned # Missing
  /\ ready => /\ latest \in Configs /\ pc["main"] \notin Constructing
              /\ \A t \in Threads :
                   pc[t] \notin {"reset", "pose", "clear_target", "clear_plan", "erase", "done"}
  /\ \A t \in Threads :
       /\ pc[t] # "unset"
       /\ pc[t] \in {"start", "goal"} => target \in Configs
       /\ pc[t] \in {"draw", "publish", "count", "play", "server", "convert", "send"}
            => planned \in Trajectories

-----------------------------------------------------------------------------
(* Proofs.                                                                 *)

LEMMA TypeInvariant == Spec => []TypeInv
<1>1. Init => TypeInv
  BY DEF Init, TypeInv, TypeOK, Threads, Alive, Ended
<1>2. TypeInv /\ [Next]_vars => TypeInv'
  <2>. SUFFICES ASSUME TypeInv, [Next]_vars
                PROVE  TypeInv'
    OBVIOUS
  <2>. USE PlanAndExecuteAssumption DEF TypeInv, TypeOK, Trajectories, Threads,
       At, GoTo, Alive, Ended, joints, attributes, shown, locals
  <2>1. CASE JointState
    BY <2>1 DEF JointState
  <2>2. CASE ListenerDies
    BY <2>2 DEF ListenerDies
  <2>3. CASE PreviewEnds
    BY <2>3 DEF PreviewEnds
  <2>4. CASE Interrupt
    BY <2>4 DEF Interrupt
  <2>5. CASE WaitForJoints
    BY <2>5 DEF WaitForJoints, Construct
  <2>6. CASE InsertMenu
    BY <2>6 DEF InsertMenu, Construct
  <2>7. CASE CreateVisualizers
    BY <2>7 DEF CreateVisualizers, Construct
  <2>8. CASE InitFields
    BY <2>8 DEF InitFields, Construct, Operations
  <2>9. CASE Feedback
    BY <2>9 DEF Feedback, Proceed, MayBegin, HasMarker
  <2>10. CASE SeedRejected
    BY <2>10 DEF SeedRejected, Proceed
  <2>11. CASE IkFails
    BY <2>11 DEF IkFails, Proceed
  <2>12. CASE SetTarget
    BY <2>12 DEF SetTarget
  <2>13. CASE ShowTarget
    BY <2>13 DEF ShowTarget, Proceed
  <2>14. ASSUME NEW t \in Threads, NEW label \in Menu, Call(t, label)
        PROVE  TypeInv'
    BY <2>14 DEF Call, Proceed, MayBegin, HasMarker, HasMenu, Operations
  <2>15. ASSUME NEW t \in Threads, PlanCheck(t)
        PROVE  TypeInv'
    BY <2>15 DEF PlanCheck, Proceed, Refuse
  <2>16. ASSUME NEW t \in Threads, PlanStart(t)
        PROVE  TypeInv'
    BY <2>16 DEF PlanStart
  <2>17. ASSUME NEW t \in Threads, PlanGoal(t)
        PROVE  TypeInv'
    BY <2>17 DEF PlanGoal, Take, Proceed
  <2>18. ASSUME NEW t \in Threads, PlanFails(t)
        PROVE  TypeInv'
    BY <2>18 DEF PlanFails, Leave, Drop
  <2>19. ASSUME NEW t \in Threads, PlanRaises(t)
        PROVE  TypeInv'
    BY <2>19 DEF PlanRaises, Leave, Drop
  <2>20. ASSUME NEW t \in Threads, StorePlan(t)
        PROVE  TypeInv'
    BY <2>20 DEF StorePlan, Drop
  <2>21. ASSUME NEW t \in Threads, DrawPath(t)
        PROVE  TypeInv'
    BY <2>21 DEF DrawPath, Take, Proceed
  <2>22. ASSUME NEW t \in Threads, PublishPath(t)
        PROVE  TypeInv'
    BY <2>22 DEF PublishPath, Drop
  <2>23. ASSUME NEW t \in Threads, CountPoints(t)
        PROVE  TypeInv'
    BY <2>23 DEF CountPoints, Proceed
  <2>24. ASSUME NEW t \in Threads, PreviewCheck(t)
        PROVE  TypeInv'
    BY <2>24 DEF PreviewCheck, Proceed, Refuse
  <2>25. ASSUME NEW t \in Threads, Play(t)
        PROVE  TypeInv'
    BY <2>25 DEF Play, Proceed
  <2>26. ASSUME NEW t \in Threads, ExecuteCheck(t)
        PROVE  TypeInv'
    BY <2>26 DEF ExecuteCheck, Proceed, Refuse
  <2>27. ASSUME NEW t \in Threads, WaitForServer(t)
        PROVE  TypeInv'
    BY <2>27 DEF WaitForServer, Proceed
  <2>28. ASSUME NEW t \in Threads, ConvertPlan(t)
        PROVE  TypeInv'
    BY <2>28 DEF ConvertPlan, Take, Proceed
  <2>29. ASSUME NEW t \in Threads, SendGoal(t)
        PROVE  TypeInv'
    BY <2>29 DEF SendGoal, Drop
  <2>30. ASSUME NEW t \in Threads, ResetJoints(t)
        PROVE  TypeInv'
    BY <2>30 DEF ResetJoints
  <2>31. ASSUME NEW t \in Threads, ResetPose(t)
        PROVE  TypeInv'
    BY <2>31 DEF ResetPose, Proceed
  <2>32. ASSUME NEW t \in Threads, ClearTarget(t)
        PROVE  TypeInv'
    BY <2>32 DEF ClearTarget
  <2>33. ASSUME NEW t \in Threads, ClearPlan(t)
        PROVE  TypeInv'
    BY <2>33 DEF ClearPlan
  <2>34. ASSUME NEW t \in Threads, ErasePath(t)
        PROVE  TypeInv'
    BY <2>34 DEF ErasePath
  <2>35. ASSUME NEW t \in Threads, ResetReturns(t)
        PROVE  TypeInv'
    BY <2>35 DEF ResetReturns
  <2>36. CASE UNCHANGED vars
    BY <2>36 DEF vars, joints, attributes, shown, locals
  <2>. QED
    BY <2>1, <2>2, <2>3, <2>4, <2>5, <2>6, <2>7, <2>8, <2>9, <2>10, <2>11,
       <2>12, <2>13, <2>14, <2>15, <2>16, <2>17, <2>18, <2>19, <2>20, <2>21,
       <2>22, <2>23, <2>24, <2>25, <2>26, <2>27, <2>28, <2>29, <2>30, <2>31,
       <2>32, <2>33, <2>34, <2>35, <2>36
    DEF Next, Constructor, IkFeedback, Plan, Preview, Execute, Reset
<1>. QED
  BY <1>1, <1>2, PTL DEF Spec

\* Every variable holds a value of its kind.
THEOREM TypeCorrect == Spec => []TypeOK
BY TypeInvariant, PTL DEF TypeInv

LEMMA OrphanInvariant ==
  Spec => []OrphanInv
<1>1. Init => OrphanInv
  BY PlanAndExecuteAssumption DEF Init, OrphanInv, Alive, Ended, Threads
<1>2. TypeInv /\ OrphanInv /\ [Next]_vars => OrphanInv'
  <2>. SUFFICES ASSUME TypeInv, OrphanInv, [Next]_vars
                PROVE  OrphanInv'
    OBVIOUS
  <2>. USE PlanAndExecuteAssumption DEF OrphanInv, TypeInv, TypeOK, Threads,
       At, GoTo, Alive, Ended, joints, attributes, shown, locals
  <2>1. CASE JointState
    BY <2>1 DEF JointState
  <2>2. CASE ListenerDies
    BY <2>2 DEF ListenerDies
  <2>3. CASE PreviewEnds
    BY <2>3 DEF PreviewEnds
  <2>4. CASE Interrupt
    BY <2>4 DEF Interrupt
  <2>5. CASE WaitForJoints
    BY <2>5 DEF WaitForJoints, Construct
  <2>6. CASE InsertMenu
    BY <2>6 DEF InsertMenu, Construct
  <2>7. CASE CreateVisualizers
    BY <2>7 DEF CreateVisualizers, Construct
  <2>8. CASE InitFields
    BY <2>8 DEF InitFields, Construct
  <2>9. CASE Feedback
    BY <2>9 DEF Feedback, Proceed, MayBegin
  <2>10. CASE SeedRejected
    BY <2>10 DEF SeedRejected, Proceed
  <2>11. CASE IkFails
    BY <2>11 DEF IkFails, Proceed
  <2>12. CASE SetTarget
    BY <2>12 DEF SetTarget
  <2>13. CASE ShowTarget
    BY <2>13 DEF ShowTarget, Proceed, HasVisualizers
  <2>14. ASSUME NEW t \in Threads, NEW label \in Menu, Call(t, label)
        PROVE  OrphanInv'
    BY <2>14 DEF Call, Proceed, MayBegin, Operations
  <2>15. ASSUME NEW t \in Threads, PlanCheck(t)
        PROVE  OrphanInv'
    BY <2>15 DEF PlanCheck, Proceed, Refuse
  <2>16. ASSUME NEW t \in Threads, PlanStart(t)
        PROVE  OrphanInv'
    BY <2>16 DEF PlanStart
  <2>17. ASSUME NEW t \in Threads, PlanGoal(t)
        PROVE  OrphanInv'
    BY <2>17 DEF PlanGoal, Take, Proceed
  <2>18. ASSUME NEW t \in Threads, PlanFails(t)
        PROVE  OrphanInv'
    BY <2>18 DEF PlanFails, Leave, Drop
  <2>19. ASSUME NEW t \in Threads, PlanRaises(t)
        PROVE  OrphanInv'
    BY <2>19 DEF PlanRaises, Leave, Drop
  <2>20. ASSUME NEW t \in Threads, StorePlan(t)
        PROVE  OrphanInv'
    BY <2>20 DEF StorePlan, Drop
  <2>21. ASSUME NEW t \in Threads, DrawPath(t)
        PROVE  OrphanInv'
    BY <2>21 DEF DrawPath, Take, Proceed
  <2>22. ASSUME NEW t \in Threads, PublishPath(t)
        PROVE  OrphanInv'
    BY <2>22 DEF PublishPath, Drop
  <2>23. ASSUME NEW t \in Threads, CountPoints(t)
        PROVE  OrphanInv'
    BY <2>23 DEF CountPoints, Proceed
  <2>24. ASSUME NEW t \in Threads, PreviewCheck(t)
        PROVE  OrphanInv'
    BY <2>24 DEF PreviewCheck, Proceed, Refuse
  <2>25. ASSUME NEW t \in Threads, Play(t)
        PROVE  OrphanInv'
    BY <2>25 DEF Play, Proceed
  <2>26. ASSUME NEW t \in Threads, ExecuteCheck(t)
        PROVE  OrphanInv'
    BY <2>26 DEF ExecuteCheck, Proceed, Refuse
  <2>27. ASSUME NEW t \in Threads, WaitForServer(t)
        PROVE  OrphanInv'
    BY <2>27 DEF WaitForServer, Proceed
  <2>28. ASSUME NEW t \in Threads, ConvertPlan(t)
        PROVE  OrphanInv'
    BY <2>28 DEF ConvertPlan, Take, Proceed
  <2>29. ASSUME NEW t \in Threads, SendGoal(t)
        PROVE  OrphanInv'
    BY <2>29 DEF SendGoal, Drop
  <2>30. ASSUME NEW t \in Threads, ResetJoints(t)
        PROVE  OrphanInv'
    BY <2>30 DEF ResetJoints
  <2>31. ASSUME NEW t \in Threads, ResetPose(t)
        PROVE  OrphanInv'
    BY <2>31 DEF ResetPose, Proceed, HasVisualizers
  <2>32. ASSUME NEW t \in Threads, ClearTarget(t)
        PROVE  OrphanInv'
    BY <2>32 DEF ClearTarget
  <2>33. ASSUME NEW t \in Threads, ClearPlan(t)
        PROVE  OrphanInv'
    BY <2>33 DEF ClearPlan
  <2>34. ASSUME NEW t \in Threads, ErasePath(t)
        PROVE  OrphanInv'
    BY <2>34 DEF ErasePath
  <2>35. ASSUME NEW t \in Threads, ResetReturns(t)
        PROVE  OrphanInv'
    BY <2>35 DEF ResetReturns
  <2>36. CASE UNCHANGED vars
    BY <2>36 DEF vars, joints, attributes, shown, locals
  <2>. QED
    BY <2>1, <2>2, <2>3, <2>4, <2>5, <2>6, <2>7, <2>8, <2>9, <2>10, <2>11,
       <2>12, <2>13, <2>14, <2>15, <2>16, <2>17, <2>18, <2>19, <2>20, <2>21,
       <2>22, <2>23, <2>24, <2>25, <2>26, <2>27, <2>28, <2>29, <2>30, <2>31,
       <2>32, <2>33, <2>34, <2>35, <2>36
    DEF Next, Constructor, IkFeedback, Plan, Preview, Execute, Reset
<1>. QED
  BY <1>1, <1>2, TypeInvariant, PTL DEF Spec

\* A path that RViz goes on showing has a plan behind it, unless a callback
\* raised, however plans and resets overlap.
THEOREM NoPathWithoutPlanAtRest == Spec => []NoPathWithoutPlan
<1>1. OrphanInv => NoPathWithoutPlan
  BY PlanAndExecuteAssumption DEF OrphanInv, NoPathWithoutPlan, AtRest, Alive,
       Ended, Threads
<1>. QED
  BY <1>1, OrphanInvariant, PTL

LEMMA SerialInvariant ==
  ASSUME Serial PROVE Spec => []SerialInv
<1>1. Init => SerialInv
  BY PlanAndExecuteAssumption DEF Init, SerialInv, OneAtATime, Quiet,
       Constructing, HasTarget, HasPlan, HasCleared, PathInv, GhostInv, Value,
       Alive, Ended, Threads
<1>2. TypeInv /\ SerialInv /\ [Next]_vars => SerialInv'
  <2>. SUFFICES ASSUME TypeInv, SerialInv, [Next]_vars
                PROVE  SerialInv'
    OBVIOUS
  <2>. USE PlanAndExecuteAssumption DEF SerialInv, OneAtATime, Quiet,
       Constructing, HasTarget, HasPlan, HasCleared, PathInv, GhostInv, Value,
       TypeInv, TypeOK, Threads, At, GoTo, Alive, Ended, joints, attributes, shown,
       locals
  <2>1. CASE JointState
    BY <2>1 DEF JointState
  <2>2. CASE ListenerDies
    BY <2>2 DEF ListenerDies
  <2>3. CASE PreviewEnds
    BY <2>3 DEF PreviewEnds
  <2>4. CASE Interrupt
    BY <2>4 DEF Interrupt
  <2>5. CASE WaitForJoints
    BY <2>5 DEF WaitForJoints, Construct
  <2>6. CASE InsertMenu
    BY <2>6 DEF InsertMenu, Construct
  <2>7. CASE CreateVisualizers
    BY <2>7 DEF CreateVisualizers, Construct
  <2>8. CASE InitFields
    BY <2>8 DEF InitFields, Construct
  <2>9. CASE Feedback
    BY <2>9 DEF Feedback, Proceed, MayBegin, Serial
  <2>10. CASE SeedRejected
    BY <2>10 DEF SeedRejected, Proceed
  <2>11. CASE IkFails
    BY <2>11 DEF IkFails, Proceed
  <2>12. CASE SetTarget
    BY <2>12 DEF SetTarget
  <2>13. CASE ShowTarget
    BY <2>13 DEF ShowTarget, Proceed, HasVisualizers
  <2>14. ASSUME NEW t \in Threads, NEW label \in Menu, Call(t, label)
        PROVE  SerialInv'
    BY <2>14 DEF Call, Proceed, MayBegin, Operations, Serial
  <2>15. ASSUME NEW t \in Threads, PlanCheck(t)
        PROVE  SerialInv'
    BY <2>15 DEF PlanCheck, Proceed, Refuse
  <2>16. ASSUME NEW t \in Threads, PlanStart(t)
        PROVE  SerialInv'
    BY <2>16 DEF PlanStart
  <2>17. ASSUME NEW t \in Threads, PlanGoal(t)
        PROVE  SerialInv'
    BY <2>17 DEF PlanGoal, Take, Proceed, Trajectories
  <2>18. ASSUME NEW t \in Threads, PlanFails(t)
        PROVE  SerialInv'
    BY <2>18 DEF PlanFails, Leave, Drop
  <2>19. ASSUME NEW t \in Threads, PlanRaises(t)
        PROVE  SerialInv'
    BY <2>19 DEF PlanRaises, Leave, Drop
  <2>20. ASSUME NEW t \in Threads, StorePlan(t)
        PROVE  SerialInv'
    BY <2>20 DEF StorePlan, Drop
  <2>21. ASSUME NEW t \in Threads, DrawPath(t)
        PROVE  SerialInv'
    BY <2>21 DEF DrawPath, Take, Proceed
  <2>22. ASSUME NEW t \in Threads, PublishPath(t)
        PROVE  SerialInv'
    BY <2>22 DEF PublishPath, Drop
  <2>23. ASSUME NEW t \in Threads, CountPoints(t)
        PROVE  SerialInv'
    BY <2>23 DEF CountPoints, Proceed
  <2>24. ASSUME NEW t \in Threads, PreviewCheck(t)
        PROVE  SerialInv'
    BY <2>24 DEF PreviewCheck, Proceed, Refuse
  <2>25. ASSUME NEW t \in Threads, Play(t)
        PROVE  SerialInv'
    BY <2>25 DEF Play, Proceed
  <2>26. ASSUME NEW t \in Threads, ExecuteCheck(t)
        PROVE  SerialInv'
    BY <2>26 DEF ExecuteCheck, Proceed, Refuse
  <2>27. ASSUME NEW t \in Threads, WaitForServer(t)
        PROVE  SerialInv'
    BY <2>27 DEF WaitForServer, Proceed
  <2>28. ASSUME NEW t \in Threads, ConvertPlan(t)
        PROVE  SerialInv'
    BY <2>28 DEF ConvertPlan, Take, Proceed
  <2>29. ASSUME NEW t \in Threads, SendGoal(t)
        PROVE  SerialInv'
    BY <2>29 DEF SendGoal, Drop
  <2>30. ASSUME NEW t \in Threads, ResetJoints(t)
        PROVE  SerialInv'
    BY <2>30 DEF ResetJoints
  <2>31. ASSUME NEW t \in Threads, ResetPose(t)
        PROVE  SerialInv'
    BY <2>31 DEF ResetPose, Proceed, HasVisualizers
  <2>32. ASSUME NEW t \in Threads, ClearTarget(t)
        PROVE  SerialInv'
    BY <2>32 DEF ClearTarget
  <2>33. ASSUME NEW t \in Threads, ClearPlan(t)
        PROVE  SerialInv'
    BY <2>33 DEF ClearPlan
  <2>34. ASSUME NEW t \in Threads, ErasePath(t)
        PROVE  SerialInv'
    BY <2>34 DEF ErasePath
  <2>35. ASSUME NEW t \in Threads, ResetReturns(t)
        PROVE  SerialInv'
    BY <2>35 DEF ResetReturns
  <2>36. CASE UNCHANGED vars
    BY <2>36 DEF vars, joints, attributes, shown, locals
  <2>. QED
    BY <2>1, <2>2, <2>3, <2>4, <2>5, <2>6, <2>7, <2>8, <2>9, <2>10, <2>11,
       <2>12, <2>13, <2>14, <2>15, <2>16, <2>17, <2>18, <2>19, <2>20, <2>21,
       <2>22, <2>23, <2>24, <2>25, <2>26, <2>27, <2>28, <2>29, <2>30, <2>31,
       <2>32, <2>33, <2>34, <2>35, <2>36
    DEF Next, Constructor, IkFeedback, Plan, Preview, Execute, Reset
<1>. QED
  BY <1>1, <1>2, TypeInvariant, PTL DEF Spec

\* With one callback at a time, RViz shows the plan that there is.
THEOREM ShownIsPlannedIfSerial == ASSUME Serial PROVE Spec => []ShownIsPlanned
<1>1. TypeInv /\ SerialInv => ShownIsPlanned
  BY PlanAndExecuteAssumption
  DEF TypeInv, TypeOK, SerialInv, OneAtATime, PathInv, Value, ShownIsPlanned, AtRest,
      Constructing, Alive, Ended, Threads
<1>. QED
  BY <1>1, TypeInvariant, SerialInvariant, PTL

\* With one callback at a time, the blue robot is where it says it is.
THEOREM ShownIsTargetIfSerial == ASSUME Serial PROVE Spec => []ShownIsTarget
<1>1. TypeInv /\ SerialInv => ShownIsTarget
  BY PlanAndExecuteAssumption
  DEF TypeInv, TypeOK, SerialInv, OneAtATime, GhostInv, Value, ShownIsTarget, AtRest,
      Constructing, Alive, Ended, Threads
<1>. QED
  BY <1>1, TypeInvariant, SerialInvariant, PTL

\* With one callback at a time, no callback uses what is gone.
THEOREM NothingUnsetIfSerial == ASSUME Serial PROVE Spec => []NothingUnsetIsUsed
<1>1. SerialInv => NothingUnsetIsUsed
  BY DEF SerialInv, OneAtATime, NothingUnsetIsUsed
<1>. QED
  BY <1>1, SerialInvariant, PTL


\* With one callback at a time, what is previewed or sent is what is shown.
THEOREM ActsOnWhatIsShownIfSerial == ASSUME Serial PROVE Spec => []ActsOnWhatIsShown
<1>1. TypeInv /\ SerialInv => ActsOnWhatIsShown
  BY PlanAndExecuteAssumption
  DEF TypeInv, TypeOK, SerialInv, OneAtATime, Quiet, HasPlan, PathInv, Value, Threads, Ended,
      ActsOnWhatIsShown
<1>. QED
  BY <1>1, TypeInvariant, SerialInvariant, PTL

\* With one callback at a time, a reset leaves no plan behind.
THEOREM ResetLeavesNoPlanIfSerial == ASSUME Serial PROVE Spec => []ResetLeavesNoPlan
<1>1. SerialInv => ResetLeavesNoPlan
  BY DEF SerialInv, HasCleared, ResetLeavesNoPlan
<1>. QED
  BY <1>1, SerialInvariant, PTL

LEMMA KeepInvariant ==
  ASSUME NoReset PROVE Spec => []KeepInv
<1>1. Init => KeepInv
  BY PlanAndExecuteAssumption DEF Init, KeepInv, Constructing, Alive, Ended, Threads
<1>2. TypeInv /\ KeepInv /\ [Next]_vars => KeepInv'
  <2>. SUFFICES ASSUME TypeInv, KeepInv, [Next]_vars
                PROVE  KeepInv'
    OBVIOUS
  <2>. USE PlanAndExecuteAssumption DEF KeepInv, Constructing, TypeInv, TypeOK,
       Threads, At, GoTo, Alive, Ended, joints, attributes, shown, locals
  <2>1. CASE JointState
    BY <2>1 DEF JointState
  <2>2. CASE ListenerDies
    BY <2>2 DEF ListenerDies
  <2>3. CASE PreviewEnds
    BY <2>3 DEF PreviewEnds
  <2>4. CASE Interrupt
    BY <2>4 DEF Interrupt
  <2>5. CASE WaitForJoints
    BY <2>5 DEF WaitForJoints, Construct
  <2>6. CASE InsertMenu
    BY <2>6 DEF InsertMenu, Construct
  <2>7. CASE CreateVisualizers
    BY <2>7 DEF CreateVisualizers, Construct
  <2>8. CASE InitFields
    BY <2>8 DEF InitFields, Construct
  <2>9. CASE Feedback
    BY <2>9 DEF Feedback, Proceed, MayBegin, NoReset
  <2>10. CASE SeedRejected
    BY <2>10 DEF SeedRejected, Proceed
  <2>11. CASE IkFails
    BY <2>11 DEF IkFails, Proceed
  <2>12. CASE SetTarget
    BY <2>12 DEF SetTarget
  <2>13. CASE ShowTarget
    BY <2>13 DEF ShowTarget, Proceed, HasVisualizers
  <2>14. ASSUME NEW t \in Threads, NEW label \in Menu, Call(t, label)
        PROVE  KeepInv'
    BY <2>14 DEF Call, Proceed, MayBegin, Operations, NoReset
  <2>15. ASSUME NEW t \in Threads, PlanCheck(t)
        PROVE  KeepInv'
    BY <2>15 DEF PlanCheck, Proceed, Refuse
  <2>16. ASSUME NEW t \in Threads, PlanStart(t)
        PROVE  KeepInv'
    BY <2>16 DEF PlanStart
  <2>17. ASSUME NEW t \in Threads, PlanGoal(t)
        PROVE  KeepInv'
    BY <2>17 DEF PlanGoal, Take, Proceed, Trajectories
  <2>18. ASSUME NEW t \in Threads, PlanFails(t)
        PROVE  KeepInv'
    BY <2>18 DEF PlanFails, Leave, Drop
  <2>19. ASSUME NEW t \in Threads, PlanRaises(t)
        PROVE  KeepInv'
    BY <2>19 DEF PlanRaises, Leave, Drop
  <2>20. ASSUME NEW t \in Threads, StorePlan(t)
        PROVE  KeepInv'
    BY <2>20 DEF StorePlan, Drop
  <2>21. ASSUME NEW t \in Threads, DrawPath(t)
        PROVE  KeepInv'
    BY <2>21 DEF DrawPath, Take, Proceed
  <2>22. ASSUME NEW t \in Threads, PublishPath(t)
        PROVE  KeepInv'
    BY <2>22 DEF PublishPath, Drop
  <2>23. ASSUME NEW t \in Threads, CountPoints(t)
        PROVE  KeepInv'
    BY <2>23 DEF CountPoints, Proceed
  <2>24. ASSUME NEW t \in Threads, PreviewCheck(t)
        PROVE  KeepInv'
    BY <2>24 DEF PreviewCheck, Proceed, Refuse
  <2>25. ASSUME NEW t \in Threads, Play(t)
        PROVE  KeepInv'
    BY <2>25 DEF Play, Proceed
  <2>26. ASSUME NEW t \in Threads, ExecuteCheck(t)
        PROVE  KeepInv'
    BY <2>26 DEF ExecuteCheck, Proceed, Refuse
  <2>27. ASSUME NEW t \in Threads, WaitForServer(t)
        PROVE  KeepInv'
    BY <2>27 DEF WaitForServer, Proceed
  <2>28. ASSUME NEW t \in Threads, ConvertPlan(t)
        PROVE  KeepInv'
    BY <2>28 DEF ConvertPlan, Take, Proceed
  <2>29. ASSUME NEW t \in Threads, SendGoal(t)
        PROVE  KeepInv'
    BY <2>29 DEF SendGoal, Drop
  <2>30. ASSUME NEW t \in Threads, ResetJoints(t)
        PROVE  KeepInv'
    BY <2>30 DEF ResetJoints
  <2>31. ASSUME NEW t \in Threads, ResetPose(t)
        PROVE  KeepInv'
    BY <2>31 DEF ResetPose, Proceed, HasVisualizers
  <2>32. ASSUME NEW t \in Threads, ClearTarget(t)
        PROVE  KeepInv'
    BY <2>32 DEF ClearTarget
  <2>33. ASSUME NEW t \in Threads, ClearPlan(t)
        PROVE  KeepInv'
    BY <2>33 DEF ClearPlan
  <2>34. ASSUME NEW t \in Threads, ErasePath(t)
        PROVE  KeepInv'
    BY <2>34 DEF ErasePath
  <2>35. ASSUME NEW t \in Threads, ResetReturns(t)
        PROVE  KeepInv'
    BY <2>35 DEF ResetReturns
  <2>36. CASE UNCHANGED vars
    BY <2>36 DEF vars, joints, attributes, shown, locals
  <2>. QED
    BY <2>1, <2>2, <2>3, <2>4, <2>5, <2>6, <2>7, <2>8, <2>9, <2>10, <2>11,
       <2>12, <2>13, <2>14, <2>15, <2>16, <2>17, <2>18, <2>19, <2>20, <2>21,
       <2>22, <2>23, <2>24, <2>25, <2>26, <2>27, <2>28, <2>29, <2>30, <2>31,
       <2>32, <2>33, <2>34, <2>35, <2>36
    DEF Next, Constructor, IkFeedback, Plan, Preview, Execute, Reset
<1>. QED
  BY <1>1, <1>2, TypeInvariant, PTL DEF Spec

\* Without a reset, menu and services may be used at the same time, and no
\* callback uses a target or a plan that is gone.
THEOREM NothingUnsetWithoutReset == ASSUME NoReset PROVE Spec => []NothingUnsetIsUsed
<1>1. KeepInv => NothingUnsetIsUsed
  BY DEF KeepInv, NothingUnsetIsUsed
<1>. QED
  BY <1>1, KeepInvariant, PTL

\* With one callback at a time the node is a Workbench: a plan takes effect when
\* it is stored, a reset when it clears the target.
THEOREM WorkbenchImplemented == ASSUME Serial PROVE Spec => ImplementsWorkbench
<1>1. Init => Abstract!Init
  BY PlanAndExecuteAssumption DEF Init, Abstract!Init, Value, Threads
<1>2. TypeInv /\ SerialInv /\ [Next]_vars => [Abstract!Next]_(Abstract!vars)
  <2>. SUFFICES ASSUME TypeInv, SerialInv, [Next]_vars
                PROVE  [Abstract!Next]_(Abstract!vars)
    OBVIOUS
  <2>. USE PlanAndExecuteAssumption DEF SerialInv, OneAtATime, Quiet,
       Constructing, HasTarget, HasPlan, HasCleared, Value, TypeInv, TypeOK,
       Threads, At, GoTo, Alive, Ended, joints, attributes, shown, locals,
       Abstract!vars
  <2>1. ASSUME JointState
        PROVE  UNCHANGED Abstract!vars
    BY <2>1 DEF JointState
  <2>2. ASSUME ListenerDies
        PROVE  UNCHANGED Abstract!vars
    BY <2>2 DEF ListenerDies
  <2>3. ASSUME PreviewEnds
        PROVE  UNCHANGED Abstract!vars
    BY <2>3 DEF PreviewEnds
  <2>4. ASSUME Interrupt
        PROVE  UNCHANGED Abstract!vars
    BY <2>4 DEF Interrupt
  <2>5. ASSUME WaitForJoints
        PROVE  UNCHANGED Abstract!vars
    BY <2>5 DEF WaitForJoints, Construct
  <2>6. ASSUME InsertMenu
        PROVE  UNCHANGED Abstract!vars
    BY <2>6 DEF InsertMenu, Construct
  <2>7. ASSUME CreateVisualizers
        PROVE  UNCHANGED Abstract!vars
    BY <2>7 DEF CreateVisualizers, Construct
  <2>8. ASSUME InitFields
        PROVE  UNCHANGED Abstract!vars
    BY <2>8 DEF InitFields, Construct
  <2>9. ASSUME Feedback
        PROVE  UNCHANGED Abstract!vars
    BY <2>9 DEF Feedback, Proceed, MayBegin, Serial
  <2>10. ASSUME SeedRejected
        PROVE  UNCHANGED Abstract!vars
    BY <2>10 DEF SeedRejected, Proceed
  <2>11. ASSUME IkFails
        PROVE  UNCHANGED Abstract!vars
    BY <2>11 DEF IkFails, Proceed
  <2>12. ASSUME SetTarget
        PROVE  Abstract!Aim
    BY <2>12 DEF SetTarget, Abstract!Aim
  <2>13. ASSUME ShowTarget
        PROVE  UNCHANGED Abstract!vars
    BY <2>13 DEF ShowTarget, Proceed, HasVisualizers
  <2>14. ASSUME NEW t \in Threads, NEW label \in Menu, Call(t, label)
        PROVE  UNCHANGED Abstract!vars
    BY <2>14 DEF Call, Proceed, MayBegin, Operations, Serial
  <2>15. ASSUME NEW t \in Threads, PlanCheck(t)
        PROVE  UNCHANGED Abstract!vars
    BY <2>15 DEF PlanCheck, Proceed, Refuse
  <2>16. ASSUME NEW t \in Threads, PlanStart(t)
        PROVE  UNCHANGED Abstract!vars
    BY <2>16 DEF PlanStart
  <2>17. ASSUME NEW t \in Threads, PlanGoal(t)
        PROVE  UNCHANGED Abstract!vars
    BY <2>17 DEF PlanGoal, Take, Proceed
  <2>18. ASSUME NEW t \in Threads, PlanFails(t)
        PROVE  UNCHANGED Abstract!vars
    BY <2>18 DEF PlanFails, Leave, Drop
  <2>19. ASSUME NEW t \in Threads, PlanRaises(t)
        PROVE  UNCHANGED Abstract!vars
    BY <2>19 DEF PlanRaises, Leave, Drop
  <2>20. ASSUME NEW t \in Threads, StorePlan(t)
        PROVE  Abstract!Plan
    <3>1. PICK c \in Configs : traj[t] = [from |-> c, to |-> target]
      BY <2>20 DEF StorePlan, Trajectories
    <3>2. target \in Configs /\ planned' = traj[t] /\ UNCHANGED <<target, sent>>
      BY <2>20 DEF StorePlan
    <3>3. \A u \in Threads : pc'[u] # "clear_plan"
      BY <2>20 DEF StorePlan
    <3>4. traj[t] \in Trajectories
      BY <2>20 DEF StorePlan
    <3>. QED
      BY <3>1, <3>2, <3>3, <3>4 DEF Abstract!Plan
  <2>21. ASSUME NEW t \in Threads, DrawPath(t)
        PROVE  UNCHANGED Abstract!vars
    BY <2>21 DEF DrawPath, Take, Proceed
  <2>22. ASSUME NEW t \in Threads, PublishPath(t)
        PROVE  UNCHANGED Abstract!vars
    BY <2>22 DEF PublishPath, Drop
  <2>23. ASSUME NEW t \in Threads, CountPoints(t)
        PROVE  UNCHANGED Abstract!vars
    BY <2>23 DEF CountPoints, Proceed
  <2>24. ASSUME NEW t \in Threads, PreviewCheck(t)
        PROVE  UNCHANGED Abstract!vars
    BY <2>24 DEF PreviewCheck, Proceed, Refuse
  <2>25. ASSUME NEW t \in Threads, Play(t)
        PROVE  UNCHANGED Abstract!vars
    BY <2>25 DEF Play, Proceed
  <2>26. ASSUME NEW t \in Threads, ExecuteCheck(t)
        PROVE  UNCHANGED Abstract!vars
    BY <2>26 DEF ExecuteCheck, Proceed, Refuse
  <2>27. ASSUME NEW t \in Threads, WaitForServer(t)
        PROVE  UNCHANGED Abstract!vars
    BY <2>27 DEF WaitForServer, Proceed
  <2>28. ASSUME NEW t \in Threads, ConvertPlan(t)
        PROVE  UNCHANGED Abstract!vars
    BY <2>28 DEF ConvertPlan, Take, Proceed
  <2>29. ASSUME NEW t \in Threads, SendGoal(t)
        PROVE  Abstract!Execute
    BY <2>29 DEF SendGoal, Drop, Abstract!Execute
  <2>30. ASSUME NEW t \in Threads, ResetJoints(t)
        PROVE  UNCHANGED Abstract!vars
    BY <2>30 DEF ResetJoints
  <2>31. ASSUME NEW t \in Threads, ResetPose(t)
        PROVE  UNCHANGED Abstract!vars
    BY <2>31 DEF ResetPose, Proceed, HasVisualizers
  <2>32. ASSUME NEW t \in Threads, ClearTarget(t)
        PROVE  Abstract!Reset
    BY <2>32 DEF ClearTarget, Abstract!Reset
  <2>33. ASSUME NEW t \in Threads, ClearPlan(t)
        PROVE  UNCHANGED Abstract!vars
    BY <2>33 DEF ClearPlan
  <2>34. ASSUME NEW t \in Threads, ErasePath(t)
        PROVE  UNCHANGED Abstract!vars
    BY <2>34 DEF ErasePath
  <2>35. ASSUME NEW t \in Threads, ResetReturns(t)
        PROVE  UNCHANGED Abstract!vars
    BY <2>35 DEF ResetReturns
  <2>36. CASE UNCHANGED vars
    BY <2>36 DEF vars
  <2>. QED
    BY <2>1, <2>2, <2>3, <2>4, <2>5, <2>6, <2>7, <2>8, <2>9, <2>10, <2>11,
       <2>12, <2>13, <2>14, <2>15, <2>16, <2>17, <2>18, <2>19, <2>20, <2>21,
       <2>22, <2>23, <2>24, <2>25, <2>26, <2>27, <2>28, <2>29, <2>30, <2>31,
       <2>32, <2>33, <2>34, <2>35, <2>36
    DEF Next, Constructor, IkFeedback, Plan, Preview, Execute, Reset, Abstract!Next
<1>. QED
  BY <1>1, <1>2, TypeInvariant, SerialInvariant, PTL
  DEF Spec, ImplementsWorkbench, Abstract!Spec
=============================================================================
