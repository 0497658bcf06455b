--------------------------- MODULE RunDemoProofs ---------------------------
(***************************************************************************)
(* What is proved about RunDemo for every script of operations, waypoint   *)
(* file, matrix and number of launches.                                    *)
(***************************************************************************)
EXTENDS RunDemo, TLAPS

\* The thread is within an operation only while the demo runs, at a step that
\* belongs to the kind of that operation; while it plans it has attempts left, and
\* what it goes on with is the path of the present attempt.
StepOK ==
  /\ step # "begin" => demo = "running"
  /\ step \in MotionSteps => op.kind \in Motions
  /\ step \in {"get", "apply"} => op.kind = "collisions"
  /\ step = "blob" => op.kind = "detect"
  /\ step \in {"plan", "stamp", "tried"} => attempts < Attempts
  /\ step = "stamp" => trajectory = [of |-> attempts + 1, is |-> "whole"]
  /\ step = "tried" /\ success => trajectory = [of |-> attempts + 1, is |-> "timed"]
  /\ ExecutesTheLastPlan

TypeInv == TypeOK /\ StepOK

LEMMA ScriptFacts ==
  /\ Len(Script) \in Nat /\ Len(Script) > 0 /\ MaxLaunches \in Nat
  /\ \A i \in Ops : Script[i].onFail \in {"return", "discard", "remember"}
  /\ \A i \in CollisionOps : Script[i].allowed \in BOOLEAN
  /\ \A i \in Ops : Script[i].kind = "publish" => Script[i].onFail = "return"
BY RunDemoAssumption DEF CollisionOps

\* An operation that ends leaves the demo at an operation, or finished.
LEMMA EndedType ==
  ASSUME TypeOK, demo = "running", Complete \/ Fail
  PROVE  /\ demo' \in {"running", "failed", "succeeded"}
         /\ pos' \in 1..(Len(Script) + 1)
         /\ demo' # "succeeded" => pos' \in 1..Len(Script)
<1>1. Len(Script) \in Nat /\ pos \in 1..Len(Script)
  BY ScriptFacts DEF TypeOK, Ops
<1>2. CASE Advance
  <2>1. CASE pos = Len(Script)
    BY <1>1, <1>2, <2>1 DEF Advance
  <2>2. CASE pos # Len(Script)
    BY <1>1, <1>2, <2>2 DEF Advance
  <2>. QED
    BY <2>1, <2>2
<1>3. CASE demo' = "failed" /\ UNCHANGED pos
  BY <1>1, <1>3
<1>. QED
  BY <1>2, <1>3 DEF Complete, Fail

\* A motion puts the arm where the script says, the bag and the lid somewhere.
LEMMA AfterType ==
  ASSUME TypeOK, NEW i \in MotionOps
  PROVE  After(Script[i].name, world)
           \in [arm : Places, bag : {"shelf", "gripper", "bench", "dropped"},
                lid : {"closed", "open"}]
<1>1. Script[i].name \in Places /\ "astray" \in Places
  BY DEF Places
<1>. QED
  BY <1>1 DEF After, TypeOK

\* The same of the invariant that says what an ended operation leaves alone.
LEMMA EndedInv ==
  ASSUME TypeInv, demo = "running", Complete \/ Fail,
         attempts' \in 0..MaxAttempts,
         success' \in BOOLEAN,
         trajectory' \in [of : 0..MaxAttempts, is : {"empty", "partial", "whole", "timed"}],
         call' \in {"none", "sent", "ready"},
         copy' \subseteq Pairs, scene' \subseteq Pairs,
         answer' \in {"none", "applied", "rejected", "found", "not_in_view", "no_image"},
         bench_seat' \in {"unknown", "open"},
         world' \in [arm : Places, bag : {"shelf", "gripper", "bench", "dropped"},
                     lid : {"closed", "open"}],
         UNCHANGED <<process, launches>>
  PROVE  TypeInv'
<1>1. /\ demo' \in {"running", "failed", "succeeded"}
      /\ pos' \in 1..(Len(Script) + 1)
      /\ demo' # "succeeded" => pos' \in Ops
  BY EndedType DEF TypeInv, Ops
<1>2. step' = "begin" /\ failed' \subseteq Ops
  BY DEF TypeInv, TypeOK, Complete, Fail
<1>3. TypeOK'
  BY <1>1, <1>2 DEF TypeInv, TypeOK
<1>4. StepOK'
  BY <1>2 DEF StepOK, ExecutesTheLastPlan, MotionSteps
<1>. QED
  BY <1>3, <1>4 DEF TypeInv

-----------------------------------------------------------------------------
(* plan_and_execute.                                                       *)

PlanStep == FollowPath \/ ComputeTimeStamps \/ PlanToPose \/ Tried

\* A step of an attempt leaves everything but the attempt alone, unless it was the
\* last one and has failed.
LEMMA PlanSteps ==
  ASSUME PlanStep
  PROVE  /\ demo = "running" /\ step \in {"plan", "stamp", "tried"}
         /\ UNCHANGED <<process, launches, call, copy, answer, scene, bench_seat, world>>
         /\ \/ Fail
            \/ UNCHANGED <<demo, pos, failed>> /\ step' \in MotionSteps
BY DEF PlanStep, FollowPath, ComputeTimeStamps, PlanToPose, Tried, Running,
   MotionSteps

LEMMA Locals ==
  /\ NoPath \in [of : 0..MaxAttempts, is : {"empty", "partial", "whole", "timed"}]
  /\ Attempts \in 1..MaxAttempts
BY DEF NoPath, MaxAttempts, Attempts

\* The locals of a call that has not begun are of their types.
LEMMA LocalsReset ==
  ASSUME attempts' = 0, success' = FALSE, trajectory' = NoPath
  PROVE  /\ attempts' \in 0..MaxAttempts /\ success' \in BOOLEAN
         /\ trajectory' \in [of : 0..MaxAttempts, is : {"empty", "partial", "whole", "timed"}]
<1>1. attempts' \in 0..MaxAttempts
  BY DEF MaxAttempts
<1>2. success' \in BOOLEAN
  OBVIOUS
<1>3. trajectory' \in [of : 0..MaxAttempts, is : {"empty", "partial", "whole", "timed"}]
  BY Locals
<1>. QED
  BY <1>1, <1>2, <1>3

\* An attempt leaves its own path, or what was there before if it fails.
LEMMA PlanInv ==
  ASSUME TypeInv, PlanStep
  PROVE  TypeInv'
<1>. USE DEF TypeInv
<1>1. /\ attempts \in 0..MaxAttempts /\ attempts < Attempts /\ attempts + 1 \in 0..MaxAttempts
      /\ op.kind \in Motions
  BY PlanSteps, Locals DEF TypeOK, StepOK, MotionSteps, MaxAttempts
<1>2. CASE UNCHANGED <<demo, pos, failed>> /\ step' \in MotionSteps
  <2>1. op' = op /\ Attempts' = Attempts
    BY <1>2 DEF op, Attempts
  <2>2. TypeOK' /\ StepOK'
    <3>1. CASE FollowPath
      <4>1. trajectory' \in [of : 0..MaxAttempts, is : {"empty", "partial", "whole", "timed"}]
        BY <1>1, <3>1 DEF FollowPath, TypeOK
      <4>2. success' \in BOOLEAN /\ step' \in {"stamp", "tried"} /\ attempts' = attempts
        BY <3>1 DEF FollowPath, TypeOK
      <4>3. TypeOK'
        BY <1>1, <1>2, <2>1, <3>1, <4>1, <4>2 DEF FollowPath, TypeOK, MotionSteps
      <4>4. StepOK'
        BY <1>1, <1>2, <2>1, <3>1, <4>2
           DEF FollowPath, Running, StepOK, ExecutesTheLastPlan, MotionSteps
      <4>. QED
        BY <4>3, <4>4
    <3>2. CASE ComputeTimeStamps
      BY <1>1, <1>2, <2>1, <3>2, PlanSteps
         DEF ComputeTimeStamps, TypeOK, StepOK, ExecutesTheLastPlan, MotionSteps,
            PlanStep
    <3>3. CASE PlanToPose
      BY <1>1, <1>2, <2>1, <3>3, PlanSteps
         DEF PlanToPose, TypeOK, StepOK, ExecutesTheLastPlan, MotionSteps, PlanStep
    <3>4. CASE Tried
      <4>1. step' # "begin"
        BY <1>2 DEF MotionSteps
      <4>. QED
        BY <1>1, <1>2, <2>1, <3>4, <4>1, PlanSteps
           DEF Tried, Fail, TypeOK, StepOK, ExecutesTheLastPlan, MotionSteps,
              PlanStep
    <3>. QED
      BY <3>1, <3>2, <3>3, <3>4 DEF PlanStep
  <2>. QED
    BY <2>2
<1>3. CASE Fail
  <2>1. Return
    BY <1>3 DEF PlanStep, FollowPath, ComputeTimeStamps, PlanToPose, Tried, Fail,
       MotionSteps
  <2>2. /\ attempts' \in 0..MaxAttempts /\ success' \in BOOLEAN
        /\ trajectory' \in [of : 0..MaxAttempts, is : {"empty", "partial", "whole", "timed"}]
    BY <2>1, LocalsReset DEF Return
  <2>3. /\ call' \in {"none", "sent", "ready"} /\ copy' \subseteq Pairs
        /\ scene' \subseteq Pairs
        /\ answer' \in {"none", "applied", "rejected", "found", "not_in_view", "no_image"}
        /\ bench_seat' \in {"unknown", "open"}
        /\ world' \in [arm : Places, bag : {"shelf", "gripper", "bench", "dropped"},
                       lid : {"closed", "open"}]
        /\ demo = "running" /\ UNCHANGED <<process, launches>>
    BY PlanSteps DEF TypeOK
  <2>. QED
    BY <1>3, <2>2, <2>3, EndedInv
<1>. QED
  BY <1>2, <1>3, PlanSteps

LEMMA TypeInvariant == Spec => []TypeInv
<1>1. Init => TypeInv
  <2>. SUFFICES ASSUME Init
                PROVE  TypeInv
    OBVIOUS
  <2>1. trajectory \in [of : 0..MaxAttempts, is : {"empty", "partial", "whole", "timed"}]
    BY Locals DEF Init
  <2>2. attempts \in 0..MaxAttempts
    BY DEF Init, MaxAttempts
  <2>3. TypeOK
    <3>1. success \in BOOLEAN /\ scene \subseteq Pairs /\ copy \subseteq Pairs
      BY DEF Init, Pairs
    <3>2. world \in [arm : Places, bag : {"shelf", "gripper", "bench", "dropped"},
                     lid : {"closed", "open"}]
      BY DEF Init, Places
    <3>3. /\ pos \in 1..(Len(Script) + 1) /\ pos \in Ops
          /\ demo \in {"running", "failed", "succeeded"} /\ launches \in Nat
      BY ScriptFacts DEF Init, Ops
    <3>. QED
      BY <2>1, <2>2, <3>1, <3>2, <3>3 DEF Init, TypeOK
  <2>4. StepOK
    BY DEF Init, StepOK, ExecutesTheLastPlan, MotionSteps
  <2>. QED
    BY <2>3, <2>4 DEF TypeInv
<1>2. TypeInv /\ [Next]_vars => TypeInv'
  <2>. SUFFICES ASSUME TypeInv, [Next]_vars
                PROVE  TypeInv'
    OBVIOUS
  <2>. USE DEF TypeInv, TypeOK
  <2>1. CASE UnknownWaypoint \/ SetupThrows \/ NoCurrentState
    BY <2>1 DEF UnknownWaypoint, SetupThrows, NoCurrentState, local, StepOK,
       ExecutesTheLastPlan, MotionSteps, op, Attempts
  <2>2. CASE StartMotion
    <3>1. /\ attempts' \in 0..MaxAttempts /\ success' \in BOOLEAN
          /\ trajectory' \in [of : 0..MaxAttempts,
                              is : {"empty", "partial", "whole", "timed"}]
      BY <2>2, LocalsReset DEF StartMotion
    <3>2. attempts' < Attempts' /\ op' = op
      BY <2>2 DEF StartMotion, Attempts, MaxAttempts, op
    <3>. QED
      BY <2>2, <3>1, <3>2
         DEF StartMotion, Running, StepOK, ExecutesTheLastPlan, MotionSteps
  <2>3. CASE PlanStep
    BY <2>3, PlanInv
  <2>4. CASE Execute
    <3>1. pos \in MotionOps
      BY <2>4 DEF Execute, Running, StepOK, MotionSteps, MotionOps, op
    <3>2. /\ After(op.name, world) \in [arm : Places,
                bag : {"shelf", "gripper", "bench", "dropped"}, lid : {"closed", "open"}]
          /\ "astray" \in Places
      BY <3>1, AfterType DEF op, Places
    <3>3. world' \in [arm : Places, bag : {"shelf", "gripper", "bench", "dropped"},
                      lid : {"closed", "open"}]
      BY <2>4, <3>2 DEF Execute
    <3>4. /\ Complete \/ Fail
          /\ demo = "running" /\ Return
          /\ UNCHANGED <<process, launches, call, copy, answer, scene, bench_seat>>
      BY <2>4 DEF Execute, Running
    <3>5. /\ attempts' \in 0..MaxAttempts /\ success' \in BOOLEAN
          /\ trajectory' \in [of : 0..MaxAttempts,
                              is : {"empty", "partial", "whole", "timed"}]
      BY <3>4, LocalsReset DEF Return
    <3>. QED
      BY <3>3, <3>4, <3>5, EndedInv
  <2>5. CASE Lookup
    BY <2>5, EndedInv DEF Lookup, Running
  <2>6. CASE GetScene
    BY <2>6 DEF GetScene, Send, Running, StepOK, ExecutesTheLastPlan, MotionSteps,
       op, Attempts
  <2>7. CASE ApplyScene
    <3>1. copy' \subseteq Pairs
      BY <2>7 DEF ApplyScene, Running, StepOK, SetEntries, Pairs, CollisionOps, op
    <3>. QED
      BY <2>7, <3>1 DEF ApplyScene, Send, Running, StepOK,
         ExecutesTheLastPlan, MotionSteps,
                        op, Attempts
  <2>8. CASE SceneApplied
    BY <2>8, EndedInv DEF SceneApplied, Running
  <2>9. CASE AskForBlob
    BY <2>9 DEF AskForBlob, Send, Running, StepOK, ExecutesTheLastPlan, MotionSteps,
       op, Attempts
  <2>10. CASE BlobAnswered
    <3>1. CASE Complete \/ Fail
      BY <2>10, <3>1, EndedInv DEF BlobAnswered, Running
    <3>2. CASE step' = "begin" /\ UNCHANGED <<demo, pos, failed>>
      BY <2>10, <3>2 DEF BlobAnswered, StepOK, ExecutesTheLastPlan, MotionSteps
    <3>. QED
      BY <2>10, <3>1, <3>2 DEF BlobAnswered
  <2>11. CASE Publish
    BY <2>11, EndedInv DEF Publish, Running
  <2>12. CASE Approve
    BY <2>12 DEF Approve, Running, StepOK, ExecutesTheLastPlan, MotionSteps, op,
       Attempts
  <2>13. CASE ServeGet
    BY <2>13 DEF ServeGet, StepOK, ExecutesTheLastPlan, MotionSteps, op, Attempts
  <2>14. CASE ServeApply
    BY <2>14 DEF ServeApply, StepOK, ExecutesTheLastPlan, MotionSteps, op, Attempts
  <2>15. CASE Camera
    BY <2>15 DEF Camera, ServeBlob, StepOK, ExecutesTheLastPlan, MotionSteps, op,
       Attempts
  <2>16. CASE StartDemoThread \/ Interrupt
    BY <2>16 DEF StartDemoThread, Interrupt, local, StepOK,
                 ExecutesTheLastPlan, MotionSteps, op, Attempts
  <2>17. CASE Relaunch
    <3>1. /\ attempts' \in 0..MaxAttempts /\ success' \in BOOLEAN
          /\ trajectory' \in [of : 0..MaxAttempts,
                              is : {"empty", "partial", "whole", "timed"}]
      BY <2>17, LocalsReset DEF Relaunch
    <3>. QED
      BY <2>17, <3>1, ScriptFacts
         DEF Relaunch, StepOK, ExecutesTheLastPlan, MotionSteps, Ops, Pairs
  <2>18. CASE UNCHANGED vars
    BY <2>18 DEF vars, local, StepOK, ExecutesTheLastPlan, MotionSteps, op, Attempts
  <2>. QED
    BY <2>1, <2>2, <2>3, <2>4, <2>5, <2>6, <2>7, <2>8, <2>9, <2>10, <2>11, <2>12,
       <2>13, <2>14, <2>15, <2>16, <2>17, <2>18
    DEF Next, DemoThread, PlanStep, MoveGroup, Main
<1>. QED
  BY <1>1, <1>2, PTL DEF Spec

\* Type correctness of the demo's state, whatever the script.
THEOREM TypeCorrect == Spec => []TypeOK
BY TypeInvariant, PTL DEF TypeInv

\* Whatever earlier attempts have left in the trajectory, only what the last one has
\* planned in full, and given time stamps, is shown for approval and executed.
THEOREM ExecutesOnlyPlans == Spec => []ExecutesTheLastPlan
BY TypeInvariant, PTL DEF TypeInv, StepOK

-----------------------------------------------------------------------------
(* Failures.                                                               *)

\* An operation that ends keeps failures accounted for: a failure that counts
\* ends the demo, and the arc's is forgotten by no publish that completes.
LEMMA EndedAccounted ==
  ASSUME TypeInv, demo = "running", FailuresStopTheDemo, Complete \/ Fail,
         Complete /\ op.kind = "publish" => Remembered
  PROVE  FailuresStopTheDemo'
<1>1. pos \in Ops /\ Len(Script) \in Nat
  BY ScriptFacts DEF TypeInv, TypeOK
<1>2. CASE Complete
  <2>1. failed' = failed /\ pos' = pos + 1
    BY <1>2 DEF Complete, Advance
  <2>2. ASSUME NEW i \in failed, Script[i].onFail = "remember",
               NEW j \in Ops, i < j, j < pos + 1
        PROVE  Script[j].kind # "publish"
    <3>1. CASE j < pos
      BY <2>2, <3>1 DEF FailuresStopTheDemo
    <3>2. CASE j = pos
      BY <1>2, <2>2, <3>2 DEF op, Remembered
    <3>. QED
      BY <1>1, <2>2, <3>1, <3>2 DEF Ops
  <2>3. \A i \in failed : Script[i].onFail \in {"discard", "remember"}
    BY DEF FailuresStopTheDemo
  <2>. QED
    BY <2>1, <2>2, <2>3 DEF FailuresStopTheDemo
<1>3. CASE Fail /\ op.onFail = "return"
  BY <1>3 DEF Fail, FailuresStopTheDemo
<1>4. CASE Fail /\ op.onFail # "return"
  <2>1. failed' = failed \cup {pos} /\ pos' = pos + 1
    BY <1>4 DEF Fail, Advance
  <2>2. op.kind # "publish" /\ op.onFail \in {"discard", "remember"}
    BY <1>1, <1>4, ScriptFacts DEF op
  <2>3. ASSUME NEW i \in failed', Script[i].onFail = "remember",
               NEW j \in Ops, i < j, j < pos + 1
        PROVE  Script[j].kind # "publish"
    <3>1. i \in Ops
      BY <1>1, <2>1 DEF TypeInv, TypeOK
    <3>2. CASE i = pos
      BY <1>1, <2>3, <3>2 DEF Ops
    <3>3. CASE i \in failed /\ j < pos
      BY <2>3, <3>3 DEF FailuresStopTheDemo
    <3>4. CASE j = pos
      BY <2>2, <3>4 DEF op
    <3>. QED
      BY <1>1, <2>1, <2>3, <3>2, <3>3, <3>4 DEF Ops
  <2>4. \A i \in failed' : Script[i].onFail \in {"discard", "remember"}
    BY <2>1, <2>2 DEF FailuresStopTheDemo, op
  <2>. QED
    BY <2>1, <2>3, <2>4 DEF FailuresStopTheDemo
<1>. QED
  BY <1>2, <1>3, <1>4

\* Whatever run_demo's functions are, no failure is passed over but those whose
\* result the code discards, and the arc's until the checks are restored.
THEOREM NoFailureIsSkipped == Spec => []FailuresStopTheDemo
<1>1. Init => FailuresStopTheDemo
  BY DEF Init, FailuresStopTheDemo
<1>2. TypeInv /\ FailuresStopTheDemo /\ [Next]_vars => FailuresStopTheDemo'
  <2>. SUFFICES ASSUME TypeInv, FailuresStopTheDemo, [Next]_vars
                PROVE  FailuresStopTheDemo'
    OBVIOUS
  <2>1. CASE PlanStep
    <3>1. CASE Fail
      BY <2>1, <3>1, PlanSteps, EndedAccounted
         DEF TypeInv, StepOK, Motions, MotionSteps, Fail, Complete
    <3>2. CASE UNCHANGED <<demo, pos, failed>>
      BY <3>2 DEF FailuresStopTheDemo
    <3>. QED
      BY <2>1, <3>1, <3>2, PlanSteps
  <2>2. CASE Execute
    BY <2>2, EndedAccounted DEF Execute, Running, TypeInv, StepOK, Motions,
       MotionSteps
  <2>3. CASE Lookup
    BY <2>3, EndedAccounted DEF Lookup, Running
  <2>4. CASE SceneApplied
    BY <2>4, EndedAccounted DEF SceneApplied, Running, TypeInv, StepOK
  <2>5. CASE BlobAnswered
    <3>1. op.kind = "detect" /\ demo = "running"
      BY <2>5 DEF BlobAnswered, Running, TypeInv, StepOK
    <3>2. CASE Complete \/ Fail
      BY <3>1, <3>2, EndedAccounted
    <3>3. CASE UNCHANGED <<demo, pos, failed>>
      BY <3>3 DEF FailuresStopTheDemo
    <3>. QED
      BY <2>5, <3>2, <3>3 DEF BlobAnswered
  <2>6. CASE Publish
    <3>1. CASE Remembered
      BY <2>6, <3>1, EndedAccounted DEF Publish, Running
    <3>2. CASE ~Remembered
      <4>1. op.onFail = "return"
        BY <2>6, ScriptFacts DEF Publish, Running, TypeInv, TypeOK, op
      <4>. QED
        BY <2>6, <3>2, <4>1 DEF Publish, Fail, FailuresStopTheDemo
    <3>. QED
      BY <3>1, <3>2
  <2>7. CASE Relaunch
    BY <2>7 DEF Relaunch, FailuresStopTheDemo
  <2>8. CASE \/ UnknownWaypoint \/ SetupThrows \/ NoCurrentState \/ StartMotion
             \/ GetScene \/ ApplyScene \/ AskForBlob
             \/ Approve \/ ServeGet \/ ServeApply \/ Camera
             \/ StartDemoThread \/ Interrupt \/ UNCHANGED vars
    <3>1. UNCHANGED <<demo, pos, failed>>
      BY <2>8 DEF UnknownWaypoint, SetupThrows, NoCurrentState, StartMotion,
         GetScene, ApplyScene, AskForBlob, Approve,
         ServeGet, ServeApply, Camera, ServeBlob, StartDemoThread, Interrupt, vars, local
    <3>. QED
      BY <3>1 DEF FailuresStopTheDemo
  <2>. QED
    BY <2>1, <2>2, <2>3, <2>4, <2>5, <2>6, <2>7, <2>8 DEF Next, DemoThread,
       PlanStep,
       MoveGroup, Main
<1>. QED
  BY <1>1, <1>2, TypeInvariant, PTL DEF Spec

-----------------------------------------------------------------------------
(* Restored checks.                                                        *)

\* A restoring set_collisions that the demo has behind it and that succeeded.
Restored(i) == i < pos /\ i \notin failed /\ ~Script[i].allowed

\* The matrix, and every copy of it on its way back, has the restored checks.
RestoreInv ==
  /\ ChecksRestored
  /\ \A i \in CollisionOps :
       Restored(i) /\ (step = "apply" \/ (step = "get" /\ call = "ready"))
         => Script[i].pair \notin copy
  /\ step = "apply" /\ call = "sent" /\ ~op.allowed => op.pair \notin copy
  /\ step = "apply" /\ call = "ready" /\ answer = "applied" /\ ~op.allowed
       => op.pair \notin scene

\* An operation that ends restores only what its own reply says.
LEMMA EndedRestored ==
  ASSUME TypeInv, RestoreInv, demo = "running", Complete \/ Fail, UNCHANGED scene,
         Complete /\ pos \notin failed /\ op.kind = "collisions" /\ ~op.allowed
           => op.pair \notin scene
  PROVE  RestoreInv'
<1>1. pos \in Ops /\ Len(Script) \in Nat /\ step' = "begin"
  BY ScriptFacts DEF TypeInv, TypeOK, Complete, Fail
<1>2. ASSUME NEW i \in CollisionOps, Restored(i)'
      PROVE  Script[i].pair \notin scene
  <2>1. i \in Ops
    BY DEF CollisionOps
  <2>2. i \notin failed
    BY <1>2 DEF Restored, Complete, Fail
  <2>3. CASE i < pos
    BY <1>2, <2>2, <2>3 DEF Restored, RestoreInv, ChecksRestored
  <2>4. CASE i = pos
    <3>1. Complete /\ pos \notin failed
      BY <1>1, <1>2, <2>4 DEF Restored, Complete, Fail
    <3>. QED
      BY <1>2, <2>4, <3>1 DEF Restored, CollisionOps, op
  <2>. QED
    BY <1>1, <1>2, <2>1, <2>3, <2>4 DEF Restored, Complete, Fail, Advance, Ops
<1>. QED
  BY <1>1, <1>2 DEF RestoreInv, ChecksRestored, Restored

\* Where set_collisions(false) has succeeded, nothing the demo does later, no
\* failure and no interrupted launch turns the check off again.
THEOREM RestoredStaysRestored ==
  ASSUME NotAllowedAgain
  PROVE  Spec => []ChecksRestored
<1>1. Init => RestoreInv
  BY DEF Init, RestoreInv, ChecksRestored, Restored, CollisionOps, Ops
<1>2. TypeInv /\ RestoreInv /\ [Next]_vars => RestoreInv'
  <2>. SUFFICES ASSUME TypeInv, RestoreInv, [Next]_vars
                PROVE  RestoreInv'
    OBVIOUS
  <2>1. CASE PlanStep
    <3>1. step \in MotionSteps /\ UNCHANGED scene /\ demo = "running"
      BY <2>1, PlanSteps DEF MotionSteps
    <3>2. CASE Fail
      BY <2>1, <3>1, <3>2, EndedRestored DEF TypeInv, StepOK, Motions
    <3>3. CASE UNCHANGED <<pos, failed>> /\ step' \in MotionSteps
      BY <3>1, <3>3 DEF RestoreInv, ChecksRestored, Restored, MotionSteps
    <3>. QED
      BY <2>1, <3>2, <3>3, PlanSteps
  <2>2. CASE Execute
    BY <2>2, EndedRestored DEF Execute, Running, TypeInv, StepOK, Motions,
       MotionSteps
  <2>3. CASE Lookup
    BY <2>3, EndedRestored DEF Lookup, Running
  <2>4. CASE SceneApplied
    <3>1. CASE answer = "applied"
      BY <2>4, <3>1, EndedRestored DEF SceneApplied, Running, RestoreInv
    <3>2. CASE answer # "applied"
      <4>1. Fail /\ demo = "running" /\ UNCHANGED scene
        BY <2>4, <3>2 DEF SceneApplied, Running
      <4>2. Complete => pos \in failed
        BY <4>1 DEF Fail, Complete
      <4>. QED
        BY <4>1, <4>2, EndedRestored
    <3>. QED
      BY <3>1, <3>2
  <2>5. CASE BlobAnswered
    <3>1. step = "blob" /\ demo = "running" /\ op.kind = "detect" /\ UNCHANGED scene
      BY <2>5 DEF BlobAnswered, Running, TypeInv, StepOK
    <3>2. CASE Complete \/ Fail
      BY <3>1, <3>2, EndedRestored
    <3>3. CASE step' = "begin" /\ UNCHANGED <<demo, pos, failed>>
      BY <3>1, <3>3 DEF RestoreInv, ChecksRestored, Restored
    <3>. QED
      BY <2>5, <3>2, <3>3 DEF BlobAnswered
  <2>6. CASE Publish
    BY <2>6, EndedRestored DEF Publish, Running
  <2>7. CASE Relaunch
    BY <2>7 DEF Relaunch, RestoreInv, ChecksRestored, Restored, CollisionOps, Ops
  <2>8. CASE ServeGet
    BY <2>8 DEF ServeGet, RestoreInv, ChecksRestored, Restored
  <2>9. CASE ApplyScene
    <3>1. /\ pos \in CollisionOps
          /\ step = "get" /\ call = "ready" /\ step' = "apply" /\ call' = "sent"
          /\ copy' = SetEntries(copy, {op.pair}, op.allowed)
          /\ UNCHANGED <<pos, failed, scene>>
      BY <2>9 DEF ApplyScene, Send, Running, TypeInv, TypeOK, StepOK,
         CollisionOps, op
    <3>2. ASSUME NEW i \in CollisionOps, Restored(i)
          PROVE  Script[i].pair \notin copy'
      <4>1. Script[i].pair \notin copy
        BY <3>1, <3>2 DEF RestoreInv
      <4>2. op.allowed => Script[i].pair # op.pair
        BY <3>1, <3>2 DEF Restored, NotAllowedAgain, op
      <4>. QED
        BY <3>1, <4>1, <4>2 DEF SetEntries
    <3>3. ~op.allowed => op.pair \notin copy'
      BY <3>1 DEF SetEntries
    <3>4. op' = op
      BY <3>1 DEF op
    <3>. QED
      BY <3>1, <3>2, <3>3, <3>4 DEF RestoreInv, ChecksRestored, Restored
  <2>10. CASE ServeApply
    <3>1. /\ step = "apply" /\ call = "sent" /\ call' = "ready"
          /\ op' = op /\ UNCHANGED <<pos, step, copy, failed>>
      BY <2>10 DEF ServeApply, op
    <3>2. CASE scene' = copy
      BY <3>1, <3>2 DEF RestoreInv, ChecksRestored, Restored
    <3>3. CASE scene' = scene /\ answer' = "rejected"
      BY <3>1, <3>3 DEF RestoreInv, ChecksRestored, Restored
    <3>. QED
      BY <2>10, <3>2, <3>3 DEF ServeApply
  <2>11. CASE GetScene \/ StartMotion \/ AskForBlob \/ Approve
    <3>1. /\ step' \in {"begin", "plan", "execute", "get", "blob"}
          /\ step' = "get" => call' = "sent"
          /\ UNCHANGED <<pos, failed, scene>>
      BY <2>11 DEF GetScene, StartMotion, AskForBlob, Approve, Send
    <3>. QED
      BY <3>1 DEF RestoreInv, ChecksRestored, Restored
  <2>12. CASE Camera
    BY <2>12 DEF Camera, ServeBlob, RestoreInv, ChecksRestored, Restored
  <2>13. CASE \/ UnknownWaypoint \/ SetupThrows \/ NoCurrentState
              \/ StartDemoThread \/ Interrupt \/ UNCHANGED vars
    <3>1. UNCHANGED <<local, scene>>
      BY <2>13 DEF UnknownWaypoint, SetupThrows, NoCurrentState, StartDemoThread,
         Interrupt, vars
    <3>. QED
      BY <3>1 DEF local, RestoreInv, ChecksRestored, Restored, op
  <2>. QED
    BY <2>1, <2>2, <2>3, <2>4, <2>5, <2>6, <2>7, <2>8, <2>9, <2>10, <2>11, <2>12,
       <2>13
    DEF Next, DemoThread, PlanStep, MoveGroup, Main
<1>. QED
  BY <1>1, <1>2, TypeInvariant, PTL DEF Spec, RestoreInv
-----------------------------------------------------------------------------
(* Waypoints.                                                              *)

\* What is behind the demo, and the motion it is at, had its waypoints.
WaypointInv ==
  /\ demo = "succeeded" => pos = Len(Script) + 1
  /\ \A i \in MotionOps : i < pos => Script[i].uses \subseteq DOMAIN wp_map
  /\ step \in MotionSteps => op.uses \subseteq DOMAIN wp_map

\* An operation that ends has had its waypoints, if it was a motion.
LEMMA EndedWaypoints ==
  ASSUME TypeInv, WaypointInv, demo = "running", Complete \/ Fail,
         pos \in MotionOps => op.uses \subseteq DOMAIN wp_map
  PROVE  WaypointInv'
<1>1. pos \in Ops /\ Len(Script) \in Nat /\ step' = "begin"
  BY ScriptFacts DEF TypeInv, TypeOK, Complete, Fail
<1>2. CASE Advance
  <2>1. \A i \in MotionOps : i < pos + 1 => i < pos \/ i = pos
    BY <1>1 DEF MotionOps, Ops
  <2>. QED
    BY <1>1, <1>2, <2>1 DEF Advance, WaypointInv, MotionSteps, op, Ops
<1>3. CASE demo' = "failed" /\ UNCHANGED pos
  BY <1>1, <1>3 DEF WaypointInv, MotionSteps
<1>. QED
  BY <1>2, <1>3 DEF Complete, Fail

\* The demo passes no motion whose names the file has not defined.
LEMMA WaypointInvariant == Spec => []WaypointInv
<1>1. Init => WaypointInv
  BY DEF Init, WaypointInv, MotionSteps, MotionOps, Ops
<1>2. TypeInv /\ WaypointInv /\ [Next]_vars => WaypointInv'
  <2>. SUFFICES ASSUME TypeInv, WaypointInv, [Next]_vars
                PROVE  WaypointInv'
    OBVIOUS
  <2>1. CASE StartMotion \/ Approve
    <3>1. /\ UNCHANGED <<demo, pos>> /\ op' = op
          /\ step' \in {"plan", "begin", "execute"}
          /\ step' \in {"plan", "execute"} => op.uses \subseteq DOMAIN wp_map
      BY <2>1 DEF StartMotion, Approve, op, WaypointInv, MotionSteps
    <3>. QED
      BY <3>1 DEF WaypointInv, MotionSteps
  <2>2. CASE PlanStep
    <3>1. op.uses \subseteq DOMAIN wp_map /\ demo = "running"
      BY <2>2, PlanSteps DEF WaypointInv, MotionSteps
    <3>2. CASE Fail
      BY <3>1, <3>2, EndedWaypoints
    <3>3. CASE UNCHANGED <<demo, pos>>
      BY <3>1, <3>3 DEF WaypointInv, op
    <3>. QED
      BY <2>2, <3>2, <3>3, PlanSteps
  <2>3. CASE Execute
    BY <2>3, EndedWaypoints DEF Execute, Running, WaypointInv, MotionSteps
  <2>4. CASE Lookup \/ SceneApplied \/ Publish \/ BlobAnswered
    <3>1. demo = "running" /\ pos \notin MotionOps
      BY <2>4 DEF Lookup, SceneApplied, Publish, BlobAnswered, Running, TypeInv,
                  StepOK, op, MotionOps, Motions
    <3>2. CASE Complete \/ Fail
      BY <3>1, <3>2, EndedWaypoints
    <3>3. CASE step' = "begin" /\ UNCHANGED <<demo, pos>>
      BY <3>3 DEF WaypointInv, MotionSteps
    <3>. QED
      BY <2>4, <3>2, <3>3 DEF Lookup, SceneApplied, Publish, BlobAnswered
  <2>5. CASE Relaunch
    BY <2>5 DEF Relaunch, WaypointInv, MotionSteps, MotionOps, Ops
  <2>6. CASE GetScene \/ ApplyScene \/ AskForBlob
    BY <2>6 DEF GetScene, ApplyScene, AskForBlob, Send, WaypointInv, MotionSteps
  <2>7. CASE \/ UnknownWaypoint \/ SetupThrows \/ NoCurrentState \/ MoveGroup \/ Camera
             \/ StartDemoThread \/ Interrupt \/ UNCHANGED vars
    <3>1. UNCHANGED <<demo, pos, step>>
      BY <2>7 DEF UnknownWaypoint, SetupThrows, NoCurrentState, MoveGroup, ServeGet,
         ServeApply, Camera, ServeBlob, StartDemoThread, Interrupt, vars, local
    <3>. QED
      BY <3>1 DEF WaypointInv, op
  <2>. QED
    BY <2>1, <2>2, <2>3, <2>4, <2>5, <2>6, <2>7 DEF Next, DemoThread, PlanStep, Main
<1>. QED
  BY <1>1, <1>2, TypeInvariant, PTL DEF Spec

\* No script succeeds with a waypoint file that lacks a name it uses.
THEOREM SucceedsWithEveryWaypoint == Spec => []SuccessNeedsEveryWaypoint
<1>1. WaypointInv => SuccessNeedsEveryWaypoint
  <2>1. \A i \in MotionOps : i < Len(Script) + 1
    BY ScriptFacts DEF MotionOps, Ops
  <2>. QED
    BY <2>1 DEF WaypointInv, SuccessNeedsEveryWaypoint
<1>. QED
  BY <1>1, WaypointInvariant, PTL

-----------------------------------------------------------------------------
(* The lid.                                                                *)

\* An arc that the demo has behind it and that did not fail has opened the lid,
\* and nothing closes it.
LidInv ==
  /\ PublishedOnlyIfOpen
  /\ \A i \in MotionOps : Script[i].kind = "arc" /\ i < pos /\ i \notin failed
       => world.lid = "open"

\* An operation that ends leaves the lid open, and an arc that completes opens it.
LEMMA EndedLid ==
  ASSUME TypeInv, LidInv, demo = "running", Complete \/ Fail,
         world.lid = "open" => world'.lid = "open",
         bench_seat' = "open" => world'.lid = "open",
         Complete /\ pos \notin failed /\ op.kind = "arc" => world'.lid = "open"
  PROVE  LidInv'
<1>1. pos \in Ops
  BY DEF TypeInv, TypeOK
<1>2. ASSUME NEW i \in MotionOps, Script[i].kind = "arc", i < pos', i \notin failed'
      PROVE  world'.lid = "open"
  <2>1. i \in Nat /\ pos \in Nat /\ i \notin failed
    BY <1>1, <1>2, ScriptFacts DEF MotionOps, Ops, Complete, Fail
  <2>2. CASE i < pos
    BY <1>2, <2>1, <2>2 DEF LidInv
  <2>3. CASE i = pos /\ Advance
    <3>1. Complete
      BY <1>2, <2>3 DEF Fail
    <3>. QED
      BY <1>2, <2>1, <2>3, <3>1 DEF op
  <2>. QED
    BY <1>2, <2>1, <2>2, <2>3 DEF Complete, Fail, Advance
<1>. QED
  BY <1>2 DEF LidInv, PublishedOnlyIfOpen

\* A publish that completes finds the lid open, as the arc has not failed.
LEMMA LidInvariant ==
  ASSUME ArcBeforePublish
  PROVE  Spec => []LidInv
<1>1. Init => LidInv
  BY DEF Init, LidInv, PublishedOnlyIfOpen, MotionOps, Ops
<1>2. TypeInv /\ LidInv /\ [Next]_vars => LidInv'
  <2>. SUFFICES ASSUME TypeInv, LidInv, [Next]_vars
                PROVE  LidInv'
    OBVIOUS
  <2>1. CASE PlanStep
    <3>1. demo = "running" /\ UNCHANGED <<bench_seat, world>>
      BY <2>1, PlanSteps
    <3>2. CASE Fail
      <4>1. ~(Complete /\ pos \notin failed)
        BY <3>2 DEF Fail, Complete
      <4>. QED
        BY <3>1, <3>2, <4>1, EndedLid DEF LidInv, PublishedOnlyIfOpen
    <3>3. CASE UNCHANGED <<pos, failed>>
      BY <3>1, <3>3 DEF LidInv, PublishedOnlyIfOpen
    <3>. QED
      BY <2>1, <3>2, <3>3, PlanSteps
  <2>2. CASE Execute
    <3>1. demo = "running" /\ pos \in MotionOps /\ UNCHANGED bench_seat
      BY <2>2 DEF Execute, Running, TypeInv, TypeOK, StepOK, op, MotionOps
    <3>2. world.lid = "open" => world'.lid = "open"
      BY <2>2 DEF Execute, After, TypeInv, TypeOK
    <3>3. CASE Complete /\ world' = After(op.name, world)
      <4>1. op.kind = "arc" => world'.lid = "open"
        BY <3>1, <3>3 DEF ArcBeforePublish, After, op
      <4>. QED
        BY <3>1, <3>2, <3>3, <4>1, EndedLid DEF LidInv, PublishedOnlyIfOpen
    <3>4. CASE Fail
      <4>1. ~(Complete /\ pos \notin failed)
        BY <3>4 DEF Fail, Complete
      <4>. QED
        BY <3>1, <3>2, <3>4, <4>1, EndedLid DEF LidInv, PublishedOnlyIfOpen
    <3>. QED
      BY <2>2, <3>3, <3>4 DEF Execute
  <2>3. CASE Lookup \/ SceneApplied \/ BlobAnswered
    <3>1. demo = "running" /\ op.kind # "arc" /\ UNCHANGED <<bench_seat, world>>
      BY <2>3 DEF Lookup, SceneApplied, BlobAnswered, Running, TypeInv, StepOK
    <3>2. CASE Complete \/ Fail
      BY <3>1, <3>2, EndedLid DEF LidInv, PublishedOnlyIfOpen
    <3>3. CASE UNCHANGED <<pos, failed>>
      BY <3>1, <3>3 DEF LidInv, PublishedOnlyIfOpen
    <3>. QED
      BY <2>3, <3>2, <3>3 DEF Lookup, SceneApplied, BlobAnswered
  <2>4. CASE Publish
    <3>1. demo = "running" /\ op.kind = "publish" /\ UNCHANGED world /\ pos \in Ops
      BY <2>4 DEF Publish, Running, TypeInv, TypeOK
    <3>2. CASE Remembered
      <4>1. PICK i \in MotionOps : Script[i].kind = "arc" /\ i < pos
        BY <3>1 DEF ArcBeforePublish, op
      <4>2. i \notin failed
        BY <3>2, <4>1 DEF Remembered, ArcBeforePublish
      <4>3. world.lid = "open"
        BY <4>1, <4>2 DEF LidInv
      <4>. QED
        BY <2>4, <3>1, <3>2, <4>3, EndedLid DEF Publish
    <3>3. CASE ~Remembered
      BY <2>4, <3>1, <3>3, EndedLid DEF Publish, LidInv, PublishedOnlyIfOpen
    <3>. QED
      BY <3>2, <3>3
  <2>5. CASE Relaunch
    BY <2>5 DEF Relaunch, LidInv, PublishedOnlyIfOpen, MotionOps, Ops
  <2>6. CASE \/ UnknownWaypoint \/ SetupThrows \/ NoCurrentState \/ StartMotion \/ GetScene
             \/ ApplyScene \/ AskForBlob \/ Approve \/ MoveGroup \/ Camera
             \/ StartDemoThread \/ Interrupt \/ UNCHANGED vars
    <3>1. UNCHANGED <<pos, failed, bench_seat, world>>
      BY <2>6 DEF UnknownWaypoint, SetupThrows, NoCurrentState, StartMotion,
         GetScene, ApplyScene,
         AskForBlob, Approve, MoveGroup, ServeGet, ServeApply, Camera, ServeBlob, StartDemoThread,
         Interrupt, vars, local
    <3>. QED
      BY <3>1 DEF LidInv, PublishedOnlyIfOpen
  <2>. QED
    BY <2>1, <2>2, <2>3, <2>4, <2>5, <2>6 DEF Next, DemoThread, PlanStep, Main
<1>. QED
  BY <1>1, <1>2, TypeInvariant, PTL DEF Spec

\* In every script whose arcs open the lid and are remembered, and come before
\* anything is published, bench_position is only published of an open lid.
THEOREM PublishesOnlyOpenLids ==
  ASSUME ArcBeforePublish
  PROVE  Spec => []PublishedOnlyIfOpen
BY LidInvariant, PTL DEF LidInv

-----------------------------------------------------------------------------
(* Unchecked pairs.                                                        *)

\* What has been said about each pair before operation i: nothing at first.
LEMMA AboutFirst ==
  ASSUME NEW p
  PROVE  About(1, p) = {}
BY ScriptFacts DEF About, CollisionOps, Ops

\* Only a set_collisions about the pair adds to it,
LEMMA AboutOther ==
  ASSUME NEW i \in Ops, NEW p, i \in CollisionOps => p # Script[i].pair
  PROVE  About(i + 1, p) = About(i, p)
<1>1. \A j \in CollisionOps : j < i + 1 <=> j < i \/ j = i
  BY ScriptFacts DEF CollisionOps, Ops
<1>2. \A j \in CollisionOps : j < i => j < i + 1
  BY <1>1
<1>. QED
  BY <1>1, <1>2 DEF About

\* and is the last one that does.
LEMMA AboutLast ==
  ASSUME NEW i \in CollisionOps
  PROVE  LET A == About(i + 1, Script[i].pair)
         IN  /\ i \in A
             /\ \A j \in A : (\A k \in A : k <= j) <=> j = i
<1>. DEFINE A == About(i + 1, Script[i].pair)
<1>1. \A j \in CollisionOps : j \in Nat /\ (j < i + 1 <=> j < i \/ j = i)
  BY ScriptFacts DEF CollisionOps, Ops
<1>2. i \in A /\ \A k \in A : k \in Nat /\ k <= i
  BY <1>1 DEF About
<1>. QED
  BY <1>2

\* The matrix that the thread sent has been applied.
Applied == step = "apply" /\ call = "ready" /\ answer = "applied"

\* Matrix m has pair p as the script wants it here, if the demo can rely on it.
Agrees(m, p) == Settled(p) => (p \in m <=> p \in UncheckedAt(pos))

\* Matrix m has what this set_collisions asks for.
SetsIt(m) == op.pair \in m <=> op.allowed

\* In every launch each settled pair is as the script wants it, in the matrix and
\* in the copy of it on its way, but for the pair that this set_collisions is about,
\* once the copy has been changed.
SceneInv ==
  /\ launches >= 1
  /\ \A p \in Pairs : Agrees(scene, p) \/ (Applied /\ p = op.pair)
  /\ Applied => SetsIt(scene)
  /\ step = "get" /\ call = "ready" => \A p \in Pairs : Agrees(copy, p)
  /\ step = "apply" /\ call = "sent" =>
       SetsIt(copy) /\ \A p \in Pairs : p # op.pair => Agrees(copy, p)

\* An operation that ends leaves each settled pair as the script wants it next.
LEMMA EndedScene ==
  ASSUME TypeInv, SceneInv, demo = "running", Complete \/ Fail,
         UNCHANGED <<launches, scene>>,
         pos \in CollisionOps => IF Applied THEN Complete ELSE Fail,
         Applied => pos \in CollisionOps
  PROVE  SceneInv'
<1>1. /\ pos \in Ops /\ step' = "begin" /\ ~Applied'
      /\ pos' = pos \/ pos' = pos + 1
      /\ failed \subseteq failed'
  BY DEF TypeInv, TypeOK, Complete, Fail, Advance, Applied
<1>2. ASSUME NEW p \in Pairs, About(pos', p) = About(pos, p), Agrees(scene, p)
      PROVE  Agrees(scene, p)'
  <2>1. Settled(p)' => Settled(p)
    BY <1>1, <1>2 DEF Settled
  <2>2. p \in UncheckedAt(pos') <=> p \in UncheckedAt(pos)
    BY <1>2 DEF UncheckedAt
  <2>. QED
    BY <1>2, <2>1, <2>2 DEF Agrees
<1>3. ASSUME NEW p \in Pairs
      PROVE  Agrees(scene, p)'
  <2>1. CASE pos' = pos
    <3>1. ~Applied
      BY <1>1, <2>1, ScriptFacts DEF Complete, Advance, Ops
    <3>. QED
      BY <1>2, <2>1, <3>1 DEF SceneInv
  <2>2. CASE pos' = pos + 1 /\ ~(pos \in CollisionOps /\ p = op.pair)
    <3>1. About(pos', p) = About(pos, p)
      BY <1>1, <2>2, AboutOther DEF op
    <3>2. Agrees(scene, p)
      BY <2>2 DEF SceneInv
    <3>. QED
      BY <1>2, <3>1, <3>2
  <2>3. CASE pos' = pos + 1 /\ pos \in CollisionOps /\ p = op.pair
    <3>1. /\ pos \in About(pos', p)
          /\ \A j \in About(pos', p) : (\A k \in About(pos', p) : k <= j) <=> j = pos
      BY <2>3, AboutLast DEF op
    <3>2. CASE Applied
      <4>1. p \in scene <=> op.allowed
        BY <2>3, <3>2 DEF SceneInv, SetsIt
      <4>2. p \in UncheckedAt(pos') <=> op.allowed
        BY <3>1 DEF UncheckedAt, op
      <4>. QED
        BY <4>1, <4>2 DEF Agrees
    <3>3. CASE ~Applied
      <4>1. pos \in failed'
        BY <2>3, <3>3 DEF Fail
      <4>2. ~Settled(p)'
        BY <3>1, <4>1 DEF Settled
      <4>. QED
        BY <4>2 DEF Agrees
    <3>. QED
      BY <3>2, <3>3
  <2>. QED
    BY <1>1, <2>1, <2>2, <2>3
<1>. QED
  BY <1>1, <1>3 DEF SceneInv

\* A step within an operation leaves what the demo wants and can rely on alone.
LEMMA WithinScene ==
  ASSUME UNCHANGED <<launches, pos, failed>>
  PROVE  /\ op' = op
         /\ \A p : Settled(p)' <=> Settled(p)
         /\ UncheckedAt(pos') = UncheckedAt(pos)
BY DEF op, Settled

\* For every script that restores all checks before it moves on, no motion but the
\* arc is planned or executed with a pair off that was on at the beginning, unless
\* its restore was the one that failed, or it was left off by an earlier launch and
\* this one has not come to it.
THEOREM ChecksAreOnBesidesTheArc ==
  ASSUME RestoresInTime
  PROVE  Spec => []OnlyTheArcIsUnchecked
<1>1. Init => SceneInv
  BY AboutFirst DEF Init, SceneInv, Applied, Agrees, UncheckedAt
<1>2. TypeInv /\ SceneInv /\ [Next]_vars => SceneInv'
  <2>. SUFFICES ASSUME TypeInv, SceneInv, [Next]_vars
                PROVE  SceneInv'
    OBVIOUS
  <2>1. CASE PlanStep
    <3>1. /\ demo = "running" /\ step \in MotionSteps /\ pos \notin CollisionOps
          /\ UNCHANGED <<launches, scene>>
      BY <2>1, PlanSteps DEF TypeInv, StepOK, op, CollisionOps, Motions, MotionSteps
    <3>2. CASE Fail
      BY <3>1, <3>2, EndedScene DEF Applied, MotionSteps
    <3>3. CASE UNCHANGED <<pos, failed>> /\ step' \in MotionSteps
      BY <3>1, <3>3, WithinScene DEF SceneInv, Applied, Agrees, MotionSteps
    <3>. QED
      BY <2>1, <3>2, <3>3, PlanSteps
  <2>2. CASE Execute \/ Lookup \/ BlobAnswered \/ Publish
    <3>1. /\ demo = "running" /\ step \in {"execute", "begin", "blob"}
          /\ pos \notin CollisionOps
          /\ UNCHANGED <<launches, scene>>
      BY <2>2 DEF Execute, Lookup, BlobAnswered, Publish, Running, TypeInv,
         StepOK, op, CollisionOps, Motions, MotionSteps
    <3>2. CASE Complete \/ Fail
      BY <3>1, <3>2, EndedScene DEF Applied
    <3>3. CASE step' = "begin" /\ UNCHANGED <<pos, failed>>
      BY <3>1, <3>3, WithinScene DEF SceneInv, Applied, Agrees
    <3>. QED
      BY <2>2, <3>2, <3>3 DEF Execute, Lookup, BlobAnswered, Publish
  <2>3. CASE SceneApplied
    <3>1. /\ demo = "running" /\ pos \in CollisionOps
          /\ IF Applied THEN Complete ELSE Fail
          /\ UNCHANGED <<launches, scene>>
      BY <2>3 DEF SceneApplied, Running, TypeInv, TypeOK, StepOK, op,
         CollisionOps, Applied
    <3>. QED
      BY <3>1, EndedScene
  <2>4. CASE StartMotion \/ Approve \/ GetScene \/ AskForBlob
    <3>1. /\ step \in {"start", "begin", "prompt"}
          /\ step' \in {"plan", "begin", "execute", "get", "blob"}
          /\ step' = "get" => call' = "sent"
          /\ UNCHANGED <<launches, pos, failed, scene>>
      BY <2>4 DEF StartMotion, Approve, GetScene, AskForBlob, Send
    <3>. QED
      BY <3>1, WithinScene DEF SceneInv, Applied, Agrees
  <2>5. CASE ServeGet
    <3>1. /\ step = "get" /\ copy' = scene
          /\ UNCHANGED <<launches, pos, step, failed, scene>>
      BY <2>5 DEF ServeGet
    <3>. QED
      BY <3>1, WithinScene DEF SceneInv, Applied, Agrees
  <2>6. CASE ApplyScene
    <3>1. /\ pos \in CollisionOps /\ step = "get" /\ call = "ready"
          /\ step' = "apply" /\ call' = "sent"
          /\ copy' = SetEntries(copy, {op.pair}, op.allowed)
          /\ UNCHANGED <<launches, pos, failed, scene>>
      BY <2>6 DEF ApplyScene, Send, Running, TypeInv, TypeOK, StepOK,
         CollisionOps, op
    <3>2. /\ op.pair \in copy' <=> op.allowed
          /\ \A p \in Pairs : p # op.pair => (p \in copy' <=> p \in copy)
      BY <3>1, ScriptFacts DEF SetEntries, op
    <3>. QED
      BY <3>1, <3>2, WithinScene DEF SceneInv, Applied, Agrees, SetsIt
  <2>7. CASE ServeApply
    <3>1. /\ step = "apply" /\ call = "sent" /\ call' = "ready"
          /\ \/ scene' = copy /\ answer' = "applied"
             \/ scene' = scene /\ answer' = "rejected"
          /\ UNCHANGED <<launches, pos, step, failed, copy>>
      BY <2>7 DEF ServeApply
    <3>. QED
      BY <3>1, WithinScene DEF SceneInv, Applied, Agrees, SetsIt
  <2>8. CASE Camera
    <3>1. step = "blob" /\ UNCHANGED <<launches, pos, step, failed, scene>>
      BY <2>8 DEF Camera, ServeBlob
    <3>. QED
      BY <3>1, WithinScene DEF SceneInv, Applied, Agrees
  <2>9. CASE Relaunch
    <3>1. launches' > 1 /\ launches' >= 1 /\ pos' = 1 /\ step' = "start"
      BY <2>9 DEF Relaunch, SceneInv, TypeInv, TypeOK
    <3>2. \A p \in Pairs : Agrees(scene, p)'
      BY <3>1, AboutFirst DEF Settled, Agrees
    <3>. QED
      BY <3>1, <3>2 DEF SceneInv, Applied
  <2>10. CASE \/ UnknownWaypoint \/ SetupThrows \/ NoCurrentState
              \/ StartDemoThread \/ Interrupt \/ UNCHANGED vars
    <3>1. UNCHANGED <<launches, local, scene>>
      BY <2>10 DEF UnknownWaypoint, SetupThrows, NoCurrentState, StartDemoThread,
         Interrupt, vars
    <3>. QED
      BY <3>1, WithinScene DEF local, SceneInv, Applied, Agrees, SetsIt
  <2>. QED
    BY <2>1, <2>2, <2>3, <2>4, <2>5, <2>6, <2>7, <2>8, <2>9, <2>10
    DEF Next, DemoThread, PlanStep, MoveGroup, Main
<1>3. TypeInv /\ SceneInv => OnlyTheArcIsUnchecked
  <2>. SUFFICES ASSUME TypeInv, SceneInv, op.kind # "arc", step \in MotionSteps,
                       NEW p \in Pairs, Settled(p)
                PROVE  p \in scene <=> p \in InitialAcm
    BY DEF OnlyTheArcIsUnchecked
  <2>1. pos \in MotionOps /\ ~Applied
    BY DEF TypeInv, TypeOK, StepOK, op, MotionOps, MotionSteps, Applied
  <2>2. UncheckedAt(pos) = InitialAcm
    BY <2>1 DEF RestoresInTime, op
  <2>. QED
    BY <2>1, <2>2 DEF SceneInv, Agrees
<1>. QED
  BY <1>1, <1>2, <1>3, TypeInvariant, PTL DEF Spec

-----------------------------------------------------------------------------
(* The end.                                                                *)

\* What StepsLeft is at each step.
LEMMA StepsLeftAt ==
  ASSUME TypeOK
  PROVE  /\ step = "start" => StepsLeft = 16
         /\ step = "begin" => StepsLeft = 15
         /\ step = "plan" => StepsLeft = 14 - 3 * attempts
         /\ step = "stamp" => StepsLeft = 13 - 3 * attempts
         /\ step = "tried" => StepsLeft = 12 - 3 * attempts
         /\ step = "prompt" => StepsLeft = 2
         /\ step = "execute" => StepsLeft = 1
         /\ step = "get" => StepsLeft = IF call = "sent" THEN 5 ELSE 4
         /\ step = "apply" => StepsLeft = IF call = "sent" THEN 3 ELSE 2
         /\ step = "blob" => StepsLeft = IF call = "sent" THEN 2 ELSE 1
<1>1. attempts \in 0..4
  BY DEF TypeOK, MaxAttempts
<1>2. /\ step = "plan" => StepsLeft = 14 - 3 * attempts
      /\ step = "stamp" => StepsLeft = 13 - 3 * attempts
      /\ step = "tried" => StepsLeft = 12 - 3 * attempts
  BY <1>1 DEF StepsLeft, MaxAttempts
<1>. QED
  BY <1>2 DEF StepsLeft, MaxAttempts

\* There is always a step left within an operation, and never more than sixteen.
LEMMA StepsLeftBounds ==
  ASSUME TypeInv
  PROVE  StepsLeft \in 1..16
<1>1. step \in {"plan", "stamp", "tried"} => attempts \in 0..3
  BY DEF TypeInv, TypeOK, StepOK, Attempts, MaxAttempts
<1>. QED
  BY <1>1, StepsLeftAt DEF TypeInv, TypeOK, MotionSteps

\* What is left is a number, so that it cannot decrease for ever.
LEMMA WorkLeftNat ==
  ASSUME TypeInv
  PROVE  WorkLeft \in Nat
<1>1. Len(Script) + 1 - pos \in Nat
  BY ScriptFacts DEF TypeInv, TypeOK
<1>. QED
  BY <1>1, StepsLeftBounds DEF WorkLeft, MaxAttempts

\* An operation that ends leaves less to do, whatever is left of it.
LEMMA EndedCloser ==
  ASSUME TypeInv, demo = "running", Complete \/ Fail
  PROVE  WorkLeft' < WorkLeft
<1>1. pos \in Nat /\ pos <= Len(Script) /\ Len(Script) \in Nat
  BY ScriptFacts DEF TypeInv, TypeOK, Ops
<1>2. TypeOK /\ StepsLeft \in 1..16
  BY StepsLeftBounds DEF TypeInv
<1>3. WorkLeft = 16 * (Len(Script) + 1 - pos) + StepsLeft
  BY DEF WorkLeft, MaxAttempts
<1>4. CASE Advance /\ demo' = "running"
  <2>1. StepsLeft' = 15
    BY <1>2, <1>4, StepsLeftAt DEF Complete, Fail, StepsLeft, MaxAttempts
  <2>2. WorkLeft' = 16 * (Len(Script) + 1 - pos') + StepsLeft'
    BY <1>4 DEF WorkLeft, MaxAttempts
  <2>. QED
    BY <1>1, <1>2, <1>3, <1>4, <2>1, <2>2 DEF Advance
<1>5. CASE demo' # "running"
  BY <1>1, <1>2, <1>3, <1>5 DEF WorkLeft
<1>. QED
  BY <1>4, <1>5 DEF Complete, Fail, Advance

\* A step within an operation leaves less to do if it leaves less of it.
LEMMA WithinCloser ==
  ASSUME TypeInv, demo = "running", UNCHANGED <<demo, pos>>,
         StepsLeft' \in Nat, StepsLeft' < StepsLeft
  PROVE  WorkLeft' < WorkLeft
<1>1. 16 * (Len(Script) + 1 - pos) \in Nat
  BY ScriptFacts DEF TypeInv, TypeOK
<1>. QED
  BY <1>1, StepsLeftBounds DEF WorkLeft, MaxAttempts

\* Each of the three steps of an attempt comes closer, the last one even if another
\* attempt follows.
LEMMA PlanCloser ==
  ASSUME TypeInv, PlanStep
  PROVE  WorkLeft' < WorkLeft
<1>1. TypeOK /\ TypeOK' /\ demo = "running" /\ attempts \in 0..3
  BY PlanSteps, PlanInv DEF TypeInv, TypeOK, StepOK, Attempts, MaxAttempts
<1>2. CASE FollowPath \/ PlanToPose
  <2>1. StepsLeft = 14 - 3 * attempts
    BY <1>1, <1>2, StepsLeftAt DEF FollowPath, PlanToPose
  <2>2. StepsLeft' \in {13 - 3 * attempts, 12 - 3 * attempts}
    BY <1>1, <1>2 DEF FollowPath, PlanToPose, StepsLeft, MaxAttempts
  <2>3. UNCHANGED <<demo, pos>>
    BY <1>2 DEF FollowPath, PlanToPose
  <2>. QED
    BY <1>1, <2>1, <2>2, <2>3, WithinCloser
<1>3. CASE ComputeTimeStamps
  <2>1. StepsLeft = 13 - 3 * attempts
    BY <1>1, <1>3, StepsLeftAt DEF ComputeTimeStamps
  <2>2. StepsLeft' = 12 - 3 * attempts
    BY <1>1, <1>3 DEF ComputeTimeStamps, StepsLeft, MaxAttempts
  <2>. QED
    BY <1>1, <1>3, <2>1, <2>2, WithinCloser DEF ComputeTimeStamps
<1>4. CASE Tried
  <2>1. StepsLeft = 12 - 3 * attempts
    BY <1>1, <1>4, StepsLeftAt DEF Tried
  <2>2. CASE step' \in {"prompt", "execute"} /\ UNCHANGED <<demo, pos>>
    <3>1. StepsLeft' \in 1..2
      BY <2>2 DEF StepsLeft
    <3>. QED
      BY <1>1, <2>1, <2>2, <3>1, WithinCloser
  <2>3. CASE /\ step' = "plan" /\ attempts' = attempts + 1 /\ attempts' < Attempts
             /\ UNCHANGED <<demo, pos>>
    <3>1. attempts' \in 1..3 /\ StepsLeft' = 11 - 3 * attempts
      BY <1>1, <2>3 DEF StepsLeft, MaxAttempts, Attempts
    <3>. QED
      BY <1>1, <2>1, <2>3, <3>1, WithinCloser
  <2>4. CASE Fail
    BY <1>1, <2>4, EndedCloser
  <2>. QED
    BY <1>4, <2>2, <2>3, <2>4 DEF Tried
<1>. QED
  BY <1>2, <1>3, <1>4 DEF PlanStep

\* Whatever the script, the demo only ever repeats a search for the blob that had
\* no image: retries, prompts and calls bring it closer to its end.
THEOREM EveryStepComesCloser == Spec => ComesCloser /\ [](WorkLeft \in Nat)
<1>. DEFINE Closer == DemoThread \/ Approve \/ MoveGroup \/ Camera =>
                        \/ process' = "aborted"
                        \/ WorkLeft' < WorkLeft
                        \/ step = "blob" /\ answer = "no_image"
<1>1. TypeInv /\ [Next]_vars => [Closer]_vars
  <2>. SUFFICES ASSUME TypeInv, process' # "aborted",
                       ~(step = "blob" /\ answer = "no_image"),
                       DemoThread \/ Approve \/ MoveGroup \/ Camera
                PROVE  WorkLeft' < WorkLeft
    OBVIOUS
  <2>0. TypeOK
    BY DEF TypeInv
  <2>1. step # "begin" => demo = "running"
    BY DEF TypeInv, StepOK
  <2>2. CASE UnknownWaypoint \/ SetupThrows \/ NoCurrentState
    BY <2>2 DEF UnknownWaypoint, SetupThrows, NoCurrentState
  <2>3. CASE StartMotion
    <3>1. StepsLeft = 15 /\ StepsLeft' = 14
      BY <2>3, <2>0, StepsLeftAt DEF StartMotion, StepsLeft, MaxAttempts
    <3>. QED
      BY <2>3, <3>1, WithinCloser DEF StartMotion, Running
  <2>4. CASE PlanStep
    BY <2>4, PlanCloser
  <2>5. CASE Execute \/ Lookup \/ SceneApplied \/ Publish
    BY <2>5, EndedCloser DEF Execute, Lookup, SceneApplied, Publish, Running
  <2>6. CASE BlobAnswered
    BY <2>6, EndedCloser DEF BlobAnswered, Running
  <2>7. CASE GetScene \/ AskForBlob
    <3>1. StepsLeft = 15 /\ StepsLeft' \in {5, 2}
      BY <2>7, <2>0, StepsLeftAt DEF GetScene, AskForBlob, Send, StepsLeft
    <3>. QED
      BY <2>7, <3>1, WithinCloser DEF GetScene, AskForBlob, Running
  <2>8. CASE ApplyScene
    <3>1. StepsLeft = 4 /\ StepsLeft' = 3
      BY <2>8, <2>0, StepsLeftAt DEF ApplyScene, Send, StepsLeft
    <3>. QED
      BY <2>8, <3>1, WithinCloser DEF ApplyScene, Running
  <2>9. CASE Approve
    <3>1. \/ StepsLeft = 16 /\ StepsLeft' = 15
          \/ StepsLeft = 2 /\ StepsLeft' = 1
      BY <2>9, <2>0, StepsLeftAt DEF Approve, StepsLeft, MaxAttempts
    <3>. QED
      BY <2>9, <3>1, WithinCloser DEF Approve, Running
  <2>10. CASE MoveGroup \/ Camera
    <3>1. /\ step \in {"get", "apply", "blob"} /\ call = "sent" /\ call' = "ready"
          /\ UNCHANGED <<demo, pos, step>>
      BY <2>10 DEF MoveGroup, Camera, ServeGet, ServeApply, ServeBlob
    <3>2. StepsLeft \in Nat /\ StepsLeft' \in Nat /\ StepsLeft' < StepsLeft
      BY <3>1 DEF StepsLeft
    <3>. QED
      BY <2>1, <3>1, <3>2, WithinCloser
  <2>. QED
    BY <2>2, <2>3, <2>4, <2>5, <2>6, <2>7, <2>8, <2>9, <2>10 DEF DemoThread,
       PlanStep
<1>. QED
  BY <1>1, TypeInvariant, WorkLeftNat, PTL DEF Spec, ComesCloser
=============================================================================
