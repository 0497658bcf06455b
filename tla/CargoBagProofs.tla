--------------------------- MODULE CargoBagProofs ---------------------------
(***************************************************************************)
(* What is proved about the cargo bag of RunDemo: that it is let go of     *)
(* only above the open bench, and is there when the demo has succeeded,    *)
(* for every script that reaches, grasps and releases as run_demo does.    *)
(***************************************************************************)
EXTENDS RunDemoProofs

\* What any step does to the demo and the world: a motion is executed, the demo
\* is launched again, an operation ends without moving anything, or neither the
\* demo's place nor the world changes.
LEMMA DemoSteps ==
  ASSUME TypeInv, [Next]_vars
  PROVE  \/ Execute
         \/ Relaunch
         \/ /\ demo = "running" /\ UNCHANGED <<launches, world>>
            /\ Fail \/ (Complete /\ op.kind \notin Motions)
         \/ UNCHANGED <<launches, demo, pos, failed, world>>
<1>1. CASE PlanStep
  BY <1>1, PlanSteps
<1>2. CASE Lookup \/ SceneApplied \/ BlobAnswered \/ Publish
  <2>1. /\ demo = "running" /\ op.kind \notin Motions
        /\ UNCHANGED <<launches, world>>
    BY <1>2 DEF Lookup, SceneApplied, BlobAnswered, Publish, Running, TypeInv,
       StepOK,
                Motions
  <2>2. Complete \/ Fail \/ UNCHANGED <<demo, pos, failed>>
    BY <1>2 DEF Lookup, SceneApplied, BlobAnswered, Publish
  <2>. QED
    BY <2>1, <2>2
<1>3. CASE \/ UnknownWaypoint \/ SetupThrows \/ NoCurrentState \/ StartMotion \/ GetScene
           \/ ApplyScene \/ AskForBlob
  BY <1>3 DEF UnknownWaypoint, SetupThrows, NoCurrentState, StartMotion, GetScene,
              ApplyScene, AskForBlob, local
<1>4. CASE Approve \/ MoveGroup \/ Camera \/ StartDemoThread \/ Interrupt \/ UNCHANGED vars
  BY <1>4 DEF Approve, MoveGroup, ServeGet, ServeApply, Camera, ServeBlob,
              StartDemoThread, Interrupt, vars, local
<1>. QED
  BY <1>1, <1>2, <1>3, <1>4 DEF Next, DemoThread, PlanStep, Main

\* A motion is executed at an operation that is one, and completes or fails.
LEMMA ExecuteStep ==
  ASSUME TypeInv, Execute
  PROVE  /\ demo = "running" /\ Does(pos, op.name) /\ pos \in Ops
         /\ UNCHANGED launches
         /\ \/ Complete /\ world' = After(op.name, world)
            \/ Fail /\ world'.bag \in {world.bag, After(op.name, world).bag}
BY DEF Execute, Running, TypeInv, TypeOK, StepOK, MotionSteps, MotionOps, Does,
   op, After

\* A failure moves the demo on only past what is not returned.
LEMMA FailStep ==
  ASSUME TypeInv, Fail, demo' # "failed"
  PROVE  /\ op.onFail # "return"
         /\ pos' = pos + 1 /\ failed' = failed \cup {pos}
BY DEF Fail, Advance

\* What a motion does to the bag, case by case.
LEMMA AfterBag ==
  ASSUME NEW m, NEW w
  PROVE  /\ m = "close_grasp" => After(m, w).bag \in {"gripper", w.bag}
         /\ m = "close_grasp" /\ w.arm = "descend_to_ctb_handle" => After(m, w).bag = "gripper"
         /\ m = "open_grasp" /\ w.bag # "gripper" => After(m, w).bag = w.bag
         /\ m = "open_grasp" /\ w.bag = "gripper" /\ w.arm = "drop_lift" /\ w.lid = "open"
              => After(m, w).bag = "bench"
         /\ m \notin {"close_grasp", "open_grasp"} => After(m, w).bag = w.bag
BY DEF After

-----------------------------------------------------------------------------
(* The arm.                                                                *)

\* The arm is where the operation before took it.  (Where the descent ends also
\* depends on where it began.)
ArmInv ==
  demo # "failed" =>
    \A n : Does(pos - 1, n) /\ pos - 1 \notin failed /\ n # "descend_to_ctb_handle"
             => world.arm = n

LEMMA ArmInvariant == Spec => []ArmInv
<1>1. Init => ArmInv
  BY ScriptFacts DEF Init, ArmInv, Does, MotionOps, Ops
<1>2. TypeInv /\ ArmInv /\ [Next]_vars => ArmInv'
  <2>. SUFFICES ASSUME TypeInv, ArmInv, [Next]_vars, demo' # "failed"
                PROVE  ArmInv'
    BY DEF ArmInv
  <2>1. pos \in Nat
    BY DEF TypeInv, TypeOK
  <2>2. CASE Fail
    <3>1. pos' - 1 \in failed'
      BY <2>1, <2>2, FailStep
    <3>. QED
      BY <3>1 DEF ArmInv
  <2>3. CASE Complete /\ op.kind \notin Motions
    <3>1. pos' - 1 = pos /\ pos \notin MotionOps
      BY <2>1, <2>3 DEF Complete, Advance, MotionOps, op
    <3>. QED
      BY <3>1 DEF ArmInv, Does
  <2>4. CASE Execute /\ Complete /\ world' = After(op.name, world)
    <3>1. /\ pos' - 1 = pos /\ Does(pos, op.name)
          /\ world'.arm = After(op.name, world).arm
      BY <2>1, <2>4, ExecuteStep DEF Complete, Advance
    <3>2. op.name # "descend_to_ctb_handle" => world'.arm = op.name
      BY <3>1 DEF After
    <3>. QED
      BY <3>1, <3>2 DEF ArmInv, Does, op
  <2>5. CASE Relaunch
    BY <2>5 DEF Relaunch, ArmInv, Does, MotionOps, Ops
  <2>6. CASE UNCHANGED <<demo, pos, failed, world>>
    BY <2>6 DEF ArmInv, Does
  <2>. QED
    BY <2>2, <2>3, <2>4, <2>5, <2>6, DemoSteps, ExecuteStep
<1>. QED
  BY <1>1, <1>2, TypeInvariant, PTL DEF Spec

\* The arm is at the handle when the fingers are to be closed, unless a reach has
\* failed.
HandleInv ==
  demo # "failed" /\ ~ReachFailed /\ Does(pos, "close_grasp")
    => world.arm = "descend_to_ctb_handle"

\* Before a grasp there is the descent, and before the descent the reach.
LEMMA HandleInvariant ==
  ASSUME GraspsAfterReaching
  PROVE  Spec => []HandleInv
<1>1. Init => HandleInv
  BY ScriptFacts DEF Init, HandleInv, Does, MotionOps, Ops, GraspsAfterReaching
<1>2. TypeInv /\ ArmInv /\ HandleInv /\ [Next]_vars => HandleInv'
  <2>. SUFFICES ASSUME TypeInv, ArmInv, HandleInv, [Next]_vars,
                       demo' # "failed", ~ReachFailed', Does(pos', "close_grasp")
                PROVE  world'.arm = "descend_to_ctb_handle"
    BY DEF HandleInv, Does
  <2>1. pos \in Nat
    BY DEF TypeInv, TypeOK
  <2>2. /\ Does(pos' - 1, "descend_to_ctb_handle") /\ Script[pos' - 1].onFail = "return"
        /\ Does(pos' - 2, "above_handle") /\ Script[pos' - 2].kind = "computed"
    BY DEF GraspsAfterReaching, Does, MotionOps
  <2>3. CASE Fail
    BY <2>1, <2>2, <2>3, FailStep DEF op
  <2>4. CASE Complete /\ op.kind \notin Motions
    <3>1. pos' - 1 = pos
      BY <2>1, <2>4 DEF Complete, Advance
    <3>. QED
      BY <2>2, <2>4, <3>1 DEF Does, MotionOps, op
  <2>5. CASE Execute /\ Complete /\ world' = After(op.name, world)
    <3>1. /\ demo = "running" /\ failed' = failed
          /\ pos' - 1 = pos /\ pos' - 2 = pos - 1
      BY <2>1, <2>5, ExecuteStep DEF Complete, Advance
    <3>2. world.arm = "above_handle"
      BY <2>2, <3>1 DEF ArmInv, ReachFailed
    <3>. QED
      BY <2>2, <2>5, <3>1, <3>2 DEF After, Does, op
  <2>6. CASE Relaunch
    BY <2>2, <2>6 DEF Relaunch, Does, MotionOps, Ops
  <2>7. CASE UNCHANGED <<demo, pos, failed, world>>
    BY <2>7 DEF HandleInv, ReachFailed
  <2>. QED
    BY <2>3, <2>4, <2>5, <2>6, <2>7, DemoSteps, ExecuteStep
<1>. QED
  BY <1>1, <1>2, TypeInvariant, ArmInvariant, PTL DEF Spec

\* The fingers close only at the handle, unless a reach has failed, whose result
\* approach_ctb_handle discards: nothing else can make them close elsewhere.
THEOREM ClosesAtTheHandle ==
  ASSUME GraspsAfterReaching
  PROVE  Spec => [](ReachFailed \/ GraspOnlyAtHandle)
<1>1. TypeInv /\ HandleInv => ReachFailed \/ GraspOnlyAtHandle
  BY DEF TypeInv, TypeOK, StepOK, MotionSteps, HandleInv, GraspOnlyAtHandle, Does,
         MotionOps, op
<1>. QED
  BY <1>1, TypeInvariant, HandleInvariant, PTL

-----------------------------------------------------------------------------
(* The release.                                                            *)

\* Wherever a script releases what it has grasped, the arm is above the seat and
\* the lid is open.
LEMMA ReleaseAtTheBench ==
  ASSUME ArcBeforePublish, ReleasesOnlyAtTheBench,
         TypeInv, FailuresStopTheDemo, LidInv, ArmInv, demo # "failed",
         NEW g \in Ops, Does(g, "close_grasp"), g < pos, Does(pos, "open_grasp")
  PROVE  world.arm = "drop_lift" /\ world.lid = "open"
<1>1. pos \in Ops
  BY DEF Does, MotionOps
<1>2. /\ Does(pos - 1, "drop_lift") /\ Script[pos - 1].onFail = "return"
      /\ \E p \in Ops : p < pos /\ Script[p].kind = "publish"
  BY <1>1 DEF ReleasesOnlyAtTheBench
<1>3. world.arm = "drop_lift"
  <2>1. pos - 1 \notin failed
    BY <1>2 DEF FailuresStopTheDemo
  <2>. QED
    BY <1>2, <2>1 DEF ArmInv
<1>4. world.lid = "open"
  <2>1. PICK p \in Ops : p < pos /\ Script[p].kind = "publish"
    BY <1>2
  <2>2. PICK i \in MotionOps : Script[i].kind = "arc" /\ i < p
    BY <2>1 DEF ArcBeforePublish
  <2>3. i \notin failed
    BY <2>1, <2>2 DEF FailuresStopTheDemo, ArcBeforePublish
  <2>4. i < pos
    BY <1>1, <2>1, <2>2, ScriptFacts DEF MotionOps, Ops
  <2>. QED
    BY <2>2, <2>3, <2>4 DEF LidInv
<1>. QED
  BY <1>3, <1>4

\* The bag is only dropped where the fingers open, and never once the script has
\* come past a grasp.
LEMMA DropStep ==
  ASSUME ArcBeforePublish, ReleasesOnlyAtTheBench,
         TypeInv, FailuresStopTheDemo, LidInv, ArmInv, [Next]_vars,
         world.bag # "dropped", world'.bag = "dropped"
  PROVE  world.bag = "gripper" /\ \A g \in Ops : Does(g, "close_grasp") => pos < g
<1>1. Execute
  BY DemoSteps DEF Relaunch
<1>2. /\ demo = "running" /\ Does(pos, op.name) /\ pos \in Nat /\ Ops \subseteq Nat
      /\ world'.bag \in {world.bag, After(op.name, world).bag}
  BY <1>1, ExecuteStep DEF TypeInv, TypeOK, Ops
<1>3. op.name = "open_grasp" /\ world.bag = "gripper"
  BY <1>2, AfterBag
<1>4. ASSUME NEW g \in Ops, Does(g, "close_grasp"), ~(pos < g)
      PROVE  FALSE
  <2>1. g < pos
    BY <1>2, <1>3, <1>4 DEF Does
  <2>2. world.arm = "drop_lift" /\ world.lid = "open"
    BY <1>2, <1>3, <1>4, <2>1, ReleaseAtTheBench
  <2>. QED
    BY <1>2, <1>3, <2>2, AfterBag
<1>. QED
  BY <1>3, <1>4

\* In a first launch the gripper has the bag only after a grasp.
BagInv ==
  /\ launches >= 1
  /\ launches = 1 /\ world.bag = "gripper" =>
       \E g \in Ops : g <= pos /\ Does(g, "close_grasp")

\* A script that releases only at the bench drops the bag nowhere else, in any
\* launch, wherever motions fail and whenever the process is interrupted; only a
\* demo that is launched again, with the bag in the gripper, does so, where it opens
\* the fingers before its own first grasp.
THEOREM DropsOnlyAfterARelaunch ==
  ASSUME ArcBeforePublish, ReleasesOnlyAtTheBench
  PROVE  Spec => DroppedOnlyByARelaunch
<1>. DEFINE Dropped == world.bag # "dropped" /\ world'.bag = "dropped"
            Allowed == launches > 1 /\ \A g \in Ops : Does(g, "close_grasp") => pos < g
<1>1. Init => BagInv
  BY DEF Init, BagInv
<1>2. TypeInv /\ BagInv /\ [Next]_vars => BagInv'
  <2>. SUFFICES ASSUME TypeInv, BagInv, [Next]_vars
                PROVE  BagInv'
    OBVIOUS
  <2>1. pos \in Nat /\ launches \in Nat /\ Ops \subseteq Nat
    BY DEF TypeInv, TypeOK, Ops
  <2>2. ASSUME Complete \/ Fail
        PROVE  pos <= pos' /\ pos' \in Nat
    BY <2>1, <2>2 DEF Complete, Fail, Advance
  <2>3. CASE Execute
    <3>1. /\ Does(pos, op.name) /\ pos \in Ops /\ UNCHANGED launches
          /\ world'.bag \in {world.bag, After(op.name, world).bag}
          /\ pos <= pos' /\ pos' \in Nat
      BY <2>2, <2>3, ExecuteStep
    <3>. SUFFICES ASSUME launches = 1, world'.bag = "gripper"
                  PROVE  \E g \in Ops : g <= pos' /\ Does(g, "close_grasp")
      BY <3>1 DEF BagInv, Does
    <3>2. CASE world.bag = "gripper"
      BY <2>1, <3>1, <3>2 DEF BagInv
    <3>3. CASE world.bag # "gripper"
      BY <3>1, <3>3, AfterBag
    <3>. QED
      BY <3>2, <3>3
  <2>4. CASE Relaunch
    BY <2>1, <2>4 DEF Relaunch, BagInv
  <2>5. CASE UNCHANGED <<launches, world>> /\ (Fail \/ Complete)
    BY <2>1, <2>2, <2>5 DEF BagInv, Does
  <2>6. CASE UNCHANGED <<launches, pos, world>>
    BY <2>6 DEF BagInv, Does
  <2>. QED
    BY <2>3, <2>4, <2>5, <2>6, DemoSteps
<1>3. TypeInv /\ FailuresStopTheDemo /\ LidInv /\ ArmInv /\ BagInv /\ [Next]_vars
        => [Dropped => Allowed]_vars
  <2>. SUFFICES ASSUME TypeInv, FailuresStopTheDemo, LidInv, ArmInv, BagInv,
                       [Next]_vars, Dropped
                PROVE  Allowed
    OBVIOUS
  <2>1. world.bag = "gripper" /\ \A g \in Ops : Does(g, "close_grasp") => pos < g
    BY DropStep
  <2>2. launches # 1
    BY <2>1 DEF BagInv, TypeInv, TypeOK, Ops
  <2>. QED
    BY <2>1, <2>2 DEF BagInv, TypeInv, TypeOK
<1>. QED
  BY <1>1, <1>2, <1>3, TypeInvariant, NoFailureIsSkipped, LidInvariant,
     ArmInvariant, PTL
     DEF Spec, DroppedOnlyByARelaunch

-----------------------------------------------------------------------------
(* The delivery.                                                           *)

\* Between a grasp and the release the gripper has the bag, and then the bench.
Carried(g, r) ==
  demo # "failed" /\ ~ReachFailed =>
    /\ g < pos /\ pos <= r => world.bag = "gripper"
    /\ r < pos => world.bag = "bench"

CarriedInv == \A g, r \in Ops : Carries(g, r) => Carried(g, r)

\* An operation that is neither the grasp nor the release changes nothing of it.
LEMMA BagStays ==
  ASSUME TypeInv, demo = "running", NEW g \in Ops, NEW r \in Ops,
         Carries(g, r), Carried(g, r), ~ReachFailed,
         pos # g, pos # r, pos' = pos + 1,
         \/ world'.bag = world.bag
         \/ Does(pos, op.name) /\ world'.bag = After(op.name, world).bag
  PROVE  /\ g < pos' /\ pos' <= r => world'.bag = "gripper"
         /\ r < pos' => world'.bag = "bench"
<1>1. pos \in Ops /\ g \in Nat /\ r \in Nat /\ pos \in Nat
  BY DEF TypeInv, TypeOK, Ops
<1>2. CASE g < pos /\ pos < r
  <2>1. world.bag = "gripper" /\ ~Does(pos, "open_grasp")
    BY <1>1, <1>2 DEF Carries, Carried
  <2>2. world'.bag = "gripper"
    BY <2>1, AfterBag DEF Does
  <2>. QED
    BY <1>1, <1>2, <2>2
<1>3. CASE r < pos
  <2>1. world.bag = "bench" /\ ~Does(pos, "close_grasp")
    BY <1>1, <1>3 DEF Carries, Carried
  <2>2. world'.bag = "bench"
    BY <2>1, AfterBag DEF Does
  <2>. QED
    BY <1>1, <1>3, <2>2 DEF Carries
<1>. QED
  BY <1>1, <1>2, <1>3 DEF Carries

\* A grasp that completes takes the bag, and the release that completes puts it
\* into the bench.
LEMMA CarriedStep ==
  ASSUME ArcBeforePublish, ReleasesOnlyAtTheBench,
         TypeInv, FailuresStopTheDemo, LidInv, ArmInv, HandleInv, [Next]_vars,
         NEW g \in Ops, NEW r \in Ops, Carries(g, r), Carried(g, r)
  PROVE  Carried(g, r)'
<1>. SUFFICES ASSUME demo' # "failed", ~ReachFailed'
              PROVE  /\ g < pos' /\ pos' <= r => world'.bag = "gripper"
                     /\ r < pos' => world'.bag = "bench"
  BY DEF Carried
<1>1. /\ g \in Nat /\ r \in Nat /\ pos \in Nat
      /\ Does(g, "close_grasp") /\ Does(r, "open_grasp") /\ g < r
      /\ Script[g].onFail = "return" /\ Script[r].onFail = "return"
  BY DEF Carries, TypeInv, TypeOK, Ops
<1>2. ASSUME Complete \/ Fail
      PROVE  pos' = pos + 1 /\ ~ReachFailed
  BY <1>2 DEF Complete, Fail, Advance, ReachFailed
<1>3. CASE Execute /\ Complete /\ world' = After(op.name, world)
  <2>1. demo = "running" /\ Does(pos, op.name)
    BY <1>3, ExecuteStep
  <2>2. CASE pos = g
    <3>1. op.name = "close_grasp"
      BY <1>1, <2>2 DEF Does, op
    <3>2. world.arm = "descend_to_ctb_handle"
      BY <1>1, <1>2, <1>3, <2>1, <2>2 DEF HandleInv
    <3>3. world'.bag = "gripper"
      BY <1>3, <3>1, <3>2, AfterBag
    <3>. QED
      BY <1>1, <1>2, <1>3, <2>2, <3>3
  <2>3. CASE pos = r
    <3>1. op.name = "open_grasp"
      BY <1>1, <2>3 DEF Does, op
    <3>2. world.bag = "gripper"
      BY <1>1, <1>2, <1>3, <2>1, <2>3 DEF Carried
    <3>3. world.arm = "drop_lift" /\ world.lid = "open"
      BY <1>1, <2>1, <2>3, ReleaseAtTheBench
    <3>4. world'.bag = "bench"
      BY <1>3, <3>1, <3>2, <3>3, AfterBag
    <3>. QED
      BY <1>1, <1>2, <1>3, <2>3, <3>4
  <2>4. CASE pos # g /\ pos # r
    BY <1>2, <1>3, <2>1, <2>4, BagStays
  <2>. QED
    BY <2>2, <2>3, <2>4
<1>4. CASE Execute /\ Fail /\ world'.bag \in {world.bag, After(op.name, world).bag}
  <2>1. demo = "running" /\ Does(pos, op.name) /\ pos # g /\ pos # r
    BY <1>1, <1>4, ExecuteStep, FailStep DEF op
  <2>. QED
    BY <1>2, <1>4, <2>1, BagStays
<1>5. CASE /\ demo = "running" /\ UNCHANGED world
           /\ Fail \/ (Complete /\ op.kind \notin Motions)
  <2>1. pos # g /\ pos # r
    BY <1>1, <1>5, FailStep DEF Does, MotionOps, op
  <2>. QED
    BY <1>2, <1>5, <2>1, BagStays
<1>6. CASE Relaunch
  BY <1>1, <1>6 DEF Relaunch, Ops
<1>7. CASE UNCHANGED <<demo, pos, failed, world>>
  BY <1>7 DEF Carried, ReachFailed
<1>. QED
  BY <1>3, <1>4, <1>5, <1>6, <1>7, DemoSteps, ExecuteStep

\* A script that carries the bag from the shelf to the bench does not succeed
\* without having put it there, unless the reach above the handle has failed.
THEOREM SucceedsWithTheBag ==
  ASSUME ArcBeforePublish, ReleasesOnlyAtTheBench, GraspsAfterReaching, CarriesTheBag
  PROVE  Spec => []SuccessMeansPlaced
<1>1. Init => CarriedInv
  BY DEF Init, CarriedInv, Carried, Carries, Ops
<1>2. /\ TypeInv /\ FailuresStopTheDemo /\ LidInv /\ ArmInv /\ HandleInv
      /\ CarriedInv /\ [Next]_vars
      => CarriedInv'
  <2>. SUFFICES ASSUME TypeInv, FailuresStopTheDemo, LidInv, ArmInv, HandleInv, [Next]_vars,
                       CarriedInv, NEW g \in Ops, NEW r \in Ops, Carries(g, r)
                PROVE  Carried(g, r)'
    BY DEF CarriedInv, Carries, Does
  <2>1. Carried(g, r)
    BY DEF CarriedInv
  <2>. QED
    BY <2>1, CarriedStep
<1>3. WaypointInv /\ CarriedInv => SuccessMeansPlaced
  <2>. SUFFICES ASSUME WaypointInv, CarriedInv, demo = "succeeded", ~ReachFailed
                PROVE  world.bag = "bench"
    BY DEF SuccessMeansPlaced
  <2>1. PICK g \in Ops, r \in Ops : Carries(g, r)
    BY DEF CarriesTheBag
  <2>2. r < pos
    BY ScriptFacts DEF WaypointInv, Ops
  <2>. QED
    BY <2>1, <2>2 DEF CarriedInv, Carried
<1>. QED
  BY <1>1, <1>2, <1>3, TypeInvariant, NoFailureIsSkipped, LidInvariant,
     ArmInvariant,
     HandleInvariant, WaypointInvariant, PTL DEF Spec
=============================================================================
