------------------------------ MODULE RunDemo ------------------------------
(***************************************************************************)
(* RunDemoNode: the engine that run_demo's functions are made of, and the  *)
(* process around it.  What the functions do is a script of operations     *)
(* (module DemoScript); this module says how each kind of operation is     *)
(* carried out: planned with retries, approved, executed; or a synchronous *)
(* service call without a timeout; or a transform lookup.                  *)
(*                                                                         *)
(* Three actors run: the demo thread; the main thread, which spins the     *)
(* executor until SIGINT and then returns from main with the demo thread   *)
(* still joinable, which terminates the process; and the services of other *)
(* processes, whose state outlives this one.                               *)
(***************************************************************************)
EXTENDS PlanningScene, Naturals, Sequences

CONSTANTS Script,           \* the operations of run_demo, in order
          wp_map,           \* the waypoints loaded from the yaml file
          wait_for_prompt,  \* ROS parameter
          hw,               \* ROS parameter
          InitialAcm,       \* the matrix before the first launch
          MaxLaunches       \* bound: how often the process is started

\* How often plan_and_execute tries to plan a waypoint; the overload for a
\* vector of waypoints, which only open_bench_seat's arc uses, tries once.
MaxAttempts == 4

\* A trajectory that no attempt has written to.
NoPath == [of |-> 0, is |-> "empty"]

\* Where the thread is in plan_and_execute.
MotionSteps == {"plan", "stamp", "tried", "prompt", "execute"}

Ops == 1..Len(Script)
CollisionOps == {i \in Ops : Script[i].kind = "collisions"}
Motions == {"motion", "computed", "arc"}

\* Where the arm can be: at rest, stopped on the way, or after a motion.
MotionOps == {i \in Ops : Script[i].kind \in Motions}
Places == {"parked", "astray"} \cup {Script[i].name : i \in MotionOps}

\* The entries of the matrix that can ever be in play.
Pairs == InitialAcm \cup {Script[i].pair : i \in CollisionOps}

ASSUME RunDemoAssumption ==
  /\ Len(Script) \in Nat \ {0}
  /\ \A i \in Ops :
       /\ Script[i].kind \in Motions \cup {"collisions", "lookup", "detect", "publish"}
       /\ Script[i].onFail \in {"return", "discard", "remember"}
       /\ Script[i].kind = "collisions" => Script[i].allowed \in BOOLEAN
       /\ Script[i].kind = "publish" => Script[i].onFail = "return"
  /\ {wait_for_prompt, hw} \subseteq BOOLEAN
  /\ MaxLaunches \in Nat

VARIABLES process,     \* "starting", "up" or "aborted" (std::terminate)
          launches,    \* how often the process has been started
          demo,        \* the demo thread: "running", "failed", "succeeded"
          pos,         \* the operation it is at
          step,        \* where it is within that operation
          attempts,    \* plan_and_execute's local
          success,     \* plan_and_execute's local
          trajectory,  \* plan_and_execute's local: of which attempt it is and how
                       \* far that came
          call,        \* the synchronous service call in progress
          copy,        \* the matrix in the thread's hands or in its call
          answer,      \* the response to the call
          failed,      \* operations of this launch that reported failure
          scene,       \* move_group's matrix
          bench_seat,  \* has bench_position been published?
          world        \* where the arm, the cargo bag (CTB) and the lid are

local == <<demo, pos, step, attempts, success, trajectory, call, copy, answer,
           failed, bench_seat>>
vars == <<process, launches, local, scene, world>>

op == Script[pos]
Running == process = "up" /\ demo = "running"

Init ==
  /\ process = "starting" /\ launches = 1
  /\ demo = "running" /\ pos = 1 /\ step = "start"
  /\ attempts = 0 /\ success = FALSE /\ trajectory = NoPath
  /\ call = "none" /\ copy = {} /\ answer = "none"
  /\ failed = {}
  /\ scene = InitialAcm
  /\ bench_seat = "unknown"
  /\ world = [arm |-> "parked", bag |-> "shelf", lid |-> "closed"]

-----------------------------------------------------------------------------
(* How an operation ends.  The functions return false at the first failure *)
(* and run_demo then returns; set_collisions' result and that of the reach *)
(* above the CTB handle are discarded; that of the arc is remembered until *)
(* open_bench_seat has restored the matrix.                                *)

Advance ==
  /\ pos' = pos + 1
  /\ demo' = IF pos = Len(Script) THEN "succeeded" ELSE "running"

Complete == Advance /\ step' = "begin" /\ UNCHANGED failed

Fail ==
  /\ failed' = failed \cup {pos}
  /\ step' = "begin"
  /\ IF op.onFail = "return" THEN demo' = "failed" /\ UNCHANGED pos ELSE Advance

-----------------------------------------------------------------------------
(* plan_and_execute.                                                       *)

\* Definitions whose name ends in _Wrong... are mistakes that the code could
\* have and has not: the properties below tell them from the real ones.

\* wp_map.at throws for a name the yaml file does not define, and nothing
\* catches an exception of the demo thread.
UnknownWaypoint_WrongSkip ==
  /\ Running /\ step = "begin"
  /\ op.kind \in Motions /\ ~(op.uses \subseteq DOMAIN wp_map)
  /\ Complete
  /\ UNCHANGED <<process, launches, attempts, success, trajectory, call, copy, answer,
                 scene, bench_seat, world>>

UnknownWaypoint ==
  /\ Running /\ step = "begin"
  /\ op.kind \in Motions /\ ~(op.uses \subseteq DOMAIN wp_map)
  /\ process' = "aborted"
  /\ UNCHANGED <<launches, local, scene, world>>

\* movegroup_visualtools_setup throws without a robot model that has the group.
SetupThrows ==
  /\ Running /\ step = "begin"
  /\ op.kind \in Motions /\ op.uses \subseteq DOMAIN wp_map
  /\ process' = "aborted"
  /\ UNCHANGED <<launches, local, scene, world>>

StartMotion ==
  /\ Running /\ step = "begin"
  /\ op.kind \in Motions /\ op.uses \subseteq DOMAIN wp_map
  /\ step' = "plan" /\ attempts' = 0 /\ success' = FALSE /\ trajectory' = NoPath
  /\ UNCHANGED <<process, launches, demo, pos, call, copy, answer, failed, scene,
                 bench_seat, world>>

\* Which of the two planners plan_and_execute chooses.  Waypoints that the
\* code computes are all Cartesian.
PlansCartesian ==
  op.kind = "motion" =>
    ~wp_map[op.name].is_preset /\ wp_map[op.name].plan_cartesian

Attempts_WrongBound == IF op.kind = "arc" THEN 1 ELSE MaxAttempts + 1
Attempts == IF op.kind = "arc" THEN 1 ELSE MaxAttempts

\* computeCartesianPath follows the poses as far as it can; if it cannot be
\* asked, its -1 leaves the path of an earlier attempt where it was.
FollowPath_WrongResult ==
  /\ Running /\ step = "plan" /\ PlansCartesian
  /\ \/ /\ trajectory' \in {[of |-> attempts + 1, is |-> "whole"], trajectory}
        /\ step' = "stamp" /\ UNCHANGED success
     \/ /\ trajectory' = [of |-> attempts + 1, is |-> "partial"]
        /\ success' = FALSE /\ step' = "tried"
  /\ UNCHANGED <<process, launches, demo, pos, attempts, call, copy, answer, failed,
                 scene, bench_seat, world>>

FollowPath ==
  /\ Running /\ step = "plan" /\ PlansCartesian
  /\ \/ /\ trajectory' = [of |-> attempts + 1, is |-> "whole"]
        /\ step' = "stamp" /\ UNCHANGED success
     \/ /\ trajectory' \in {[of |-> attempts + 1, is |-> "partial"], trajectory}
        /\ success' = FALSE /\ step' = "tried"
  /\ UNCHANGED <<process, launches, demo, pos, attempts, call, copy, answer, failed,
                 scene, bench_seat, world>>

\* plan_cartesian dereferences the current state although it may be null, if no
\* joint states have come for a second.
NoCurrentState ==
  /\ Running /\ step = "stamp"
  /\ process' = "aborted"
  /\ UNCHANGED <<launches, local, scene, world>>

\* The path is only replaced by the one with time stamps if they can be computed.
ComputeTimeStamps ==
  /\ Running /\ step = "stamp"
  /\ success' \in BOOLEAN
  /\ trajectory' = IF success' THEN [trajectory EXCEPT !.is = "timed"] ELSE trajectory
  /\ step' = "tried"
  /\ UNCHANGED <<process, launches, demo, pos, attempts, call, copy, answer, failed,
                 scene, bench_seat, world>>

\* plan_to_pose assigns the trajectory only if a plan was found.
PlanToPose ==
  /\ Running /\ step = "plan" /\ ~PlansCartesian
  /\ success' \in BOOLEAN
  /\ trajectory' = IF success' THEN [of |-> attempts + 1, is |-> "timed"] ELSE trajectory
  /\ step' = "tried"
  /\ UNCHANGED <<process, launches, demo, pos, attempts, call, copy, answer, failed,
                 scene, bench_seat, world>>

\* plan_and_execute returns, and its locals are gone.
Return == attempts' = 0 /\ success' = FALSE /\ trajectory' = NoPath

\* The attempt is counted, and the loop is left, goes on, or gives up.
Tried ==
  /\ Running /\ step = "tried"
  /\ \/ /\ success
        /\ attempts' = attempts + 1
        /\ step' = IF wait_for_prompt THEN "prompt" ELSE "execute"
        /\ UNCHANGED <<demo, pos, success, trajectory, failed>>
     \/ /\ ~success /\ attempts + 1 < Attempts
        /\ attempts' = attempts + 1
        /\ step' = "plan"
        /\ UNCHANGED <<demo, pos, success, trajectory, failed>>
     \/ /\ ~success /\ attempts + 1 = Attempts
        /\ Fail /\ Return
  /\ UNCHANGED <<process, launches, call, copy, answer, scene, bench_seat, world>>

\* The operator presses next: to start the demo, which is always asked, or to
\* perform a motion.
Approve ==
  /\ Running /\ step \in {"start", "prompt"}
  /\ step' = IF step = "start" THEN "begin" ELSE "execute"
  /\ UNCHANGED <<process, launches, demo, pos, attempts, success, trajectory, call,
                 copy, answer, failed, scene, bench_seat, world>>

\* What an executed motion does to the arm, the bag and the lid.  The camera
\* has the handle 5 cm below the reach, and the descent is relative to wherever
\* the arm is; only fingers closed on the handle take the bag.
After(m, w) ==
  [arm |-> IF m = "descend_to_ctb_handle" /\ w.arm # "above_handle" THEN "astray"
           ELSE m,
   bag |-> CASE m = "close_grasp" /\ w.arm = "descend_to_ctb_handle" -> "gripper"
             [] m = "open_grasp" /\ w.bag = "gripper" ->
                  IF w.arm = "drop_lift" /\ w.lid = "open" THEN "bench" ELSE "dropped"
             [] OTHER -> w.bag,
   lid |-> IF m = "bench_arc" THEN "open" ELSE w.lid]

\* An execution that fails stops the arm anywhere, before or after the motion
\* had its effect.
Execute_WrongResult ==
  /\ Running /\ step = "execute"
  /\ \/ world' = After(op.name, world)
     \/ \E w \in {world, After(op.name, world)} : world' = [w EXCEPT !.arm = "astray"]
  /\ Complete /\ Return
  /\ UNCHANGED <<process, launches, call, copy, answer, scene, bench_seat>>

Execute ==
  /\ Running /\ step = "execute"
  /\ \/ world' = After(op.name, world) /\ Complete
     \/ /\ \E w \in {world, After(op.name, world)} : world' = [w EXCEPT !.arm = "astray"]
        /\ Fail
  /\ Return
  /\ UNCHANGED <<process, launches, call, copy, answer, scene, bench_seat>>

-----------------------------------------------------------------------------
(* get_global_transform: 5 microseconds to find the transform.             *)

Lookup ==
  /\ Running /\ step = "begin" /\ op.kind = "lookup"
  /\ Complete \/ Fail
  /\ UNCHANGED <<process, launches, attempts, success, trajectory, call, copy, answer,
                 scene, bench_seat, world>>

-----------------------------------------------------------------------------
(* request_response: the thread polls the future until the response is     *)
(* there, however long that takes.                                         *)

Send(next) == step' = next /\ call' = "sent"

\* set_collisions: get the matrix, change one entry of the copy, send it back.
GetScene ==
  /\ Running /\ step = "begin" /\ op.kind = "collisions"
  /\ Send("get")
  /\ UNCHANGED <<process, launches, demo, pos, attempts, success, trajectory, copy,
                 answer, failed, scene, bench_seat, world>>

ServeGet ==
  /\ step = "get" /\ call = "sent"
  /\ copy' = scene
  /\ call' = "ready"
  /\ UNCHANGED <<process, launches, demo, pos, step, attempts, success, trajectory,
                 answer, failed, scene, bench_seat, world>>

ApplyScene_WrongSense ==
  /\ Running /\ step = "get" /\ call = "ready"
  /\ copy' = SetEntries(copy, {op.pair}, TRUE)
  /\ Send("apply")
  /\ UNCHANGED <<process, launches, demo, pos, attempts, success, trajectory, answer,
                 failed, scene, bench_seat, world>>

ApplyScene ==
  /\ Running /\ step = "get" /\ call = "ready"
  /\ copy' = SetEntries(copy, {op.pair}, op.allowed)
  /\ Send("apply")
  /\ UNCHANGED <<process, launches, demo, pos, attempts, success, trajectory, answer,
                 failed, scene, bench_seat, world>>

ServeApply ==
  /\ step = "apply" /\ call = "sent"
  /\ \/ scene' = copy /\ answer' = "applied"
     \/ scene' = scene /\ answer' = "rejected"
  /\ call' = "ready"
  /\ UNCHANGED <<process, launches, demo, pos, step, attempts, success, trajectory,
                 copy, failed, bench_seat, world>>

SceneApplied_WrongResult ==
  /\ Running /\ step = "apply" /\ call = "ready"
  /\ Complete
  /\ call' = "none" /\ copy' = {} /\ answer' = "none"
  /\ UNCHANGED <<process, launches, attempts, success, trajectory, scene, bench_seat,
                 world>>

SceneApplied ==
  /\ Running /\ step = "apply" /\ call = "ready"
  /\ IF answer = "applied" THEN Complete ELSE Fail
  /\ call' = "none" /\ copy' = {} /\ answer' = "none"
  /\ UNCHANGED <<process, launches, attempts, success, trajectory, scene, bench_seat,
                 world>>

\* approach_ctb_handle's search for the red blob, repeated until an image came.
AskForBlob ==
  /\ Running /\ step = "begin" /\ op.kind = "detect"
  /\ Send("blob")
  /\ UNCHANGED <<process, launches, demo, pos, attempts, success, trajectory, copy,
                 answer, failed, scene, bench_seat, world>>

ServeBlob(a) ==
  /\ step = "blob" /\ call = "sent"
  /\ answer' = a
  /\ call' = "ready"
  /\ UNCHANGED <<process, launches, demo, pos, step, attempts, success, trajectory,
                 copy, failed, scene, bench_seat, world>>

BlobAnswered_WrongLoop ==
  /\ Running /\ step = "blob" /\ call = "ready"
  /\ \/ answer = "found" /\ Complete
     \/ answer # "found" /\ step' = "begin" /\ UNCHANGED <<demo, pos, failed>>
  /\ call' = "none" /\ answer' = "none"
  /\ UNCHANGED <<process, launches, attempts, success, trajectory, copy, scene,
                 bench_seat, world>>

BlobAnswered ==
  /\ Running /\ step = "blob" /\ call = "ready"
  /\ \/ answer = "found" /\ Complete
     \/ answer = "not_in_view" /\ Fail
     \/ answer = "no_image" /\ step' = "begin" /\ UNCHANGED <<demo, pos, failed>>
  /\ call' = "none" /\ answer' = "none"
  /\ UNCHANGED <<process, launches, attempts, success, trajectory, copy, scene,
                 bench_seat, world>>

-----------------------------------------------------------------------------
\* The end of open_bench_seat: its result is the one it remembered.
Remembered_WrongResult == TRUE
Remembered == \A i \in failed : Script[i].onFail # "remember"

Publish_WrongOrder ==
  /\ Running /\ step = "begin" /\ op.kind = "publish"
  /\ bench_seat' = IF hw THEN "open" ELSE bench_seat
  /\ IF Remembered THEN Complete ELSE Fail
  /\ UNCHANGED <<process, launches, attempts, success, trajectory, call, copy, answer,
                 scene, world>>

Publish ==
  /\ Running /\ step = "begin" /\ op.kind = "publish"
  /\ IF Remembered
     THEN Complete /\ bench_seat' = IF hw THEN "open" ELSE bench_seat
     ELSE Fail /\ UNCHANGED bench_seat
  /\ UNCHANGED <<process, launches, attempts, success, trajectory, call, copy, answer,
                 scene, world>>

-----------------------------------------------------------------------------
(* The process.                                                            *)

\* The constructor has waited for color_blob_find, main starts the thread.
StartDemoThread ==
  /\ process = "starting"
  /\ process' = "up"
  /\ UNCHANGED <<launches, local, scene, world>>

\* SIGINT: spin returns, main returns, the joinable thread's destructor aborts.
Interrupt ==
  /\ process \in {"starting", "up"}
  /\ process' = "aborted"
  /\ UNCHANGED <<launches, local, scene, world>>

\* The operator launches the demo again; move_group and the robot stayed up.
\* A call still in flight when the process died has been served by then.
Relaunch ==
  /\ process = "aborted" /\ launches < MaxLaunches /\ call # "sent"
  /\ process' = "starting" /\ launches' = launches + 1
  /\ demo' = "running" /\ pos' = 1 /\ step' = "start"
  /\ attempts' = 0 /\ success' = FALSE /\ trajectory' = NoPath
  /\ call' = "none" /\ copy' = {} /\ answer' = "none"
  /\ failed' = {} /\ bench_seat' = "unknown"
  /\ UNCHANGED <<scene, world>>

-----------------------------------------------------------------------------
DemoThread ==
  \/ UnknownWaypoint \/ SetupThrows \/ StartMotion
  \/ FollowPath \/ NoCurrentState \/ ComputeTimeStamps \/ PlanToPose \/ Tried \/ Execute
  \/ Lookup
  \/ GetScene \/ ApplyScene \/ SceneApplied
  \/ AskForBlob \/ BlobAnswered \/ Publish

MoveGroup == ServeGet \/ ServeApply

Camera == \E a \in {"found", "not_in_view", "no_image"} : ServeBlob(a)

Main == StartDemoThread \/ Interrupt \/ Relaunch

Next == DemoThread \/ Approve \/ MoveGroup \/ Camera \/ Main

Spec == Init /\ [][Next]_vars

\* The threads of the process run, move_group answers, images of the camera
\* keep coming (a call that finds none is repeated), and the operator approves
\* what he is asked.  Nobody has to interrupt or to launch the demo.
Fairness ==
  /\ WF_vars(DemoThread) /\ WF_vars(StartDemoThread) /\ WF_vars(Approve)
  /\ WF_vars(MoveGroup) /\ WF_vars(Camera)
  /\ SF_vars(ServeBlob("found") \/ ServeBlob("not_in_view"))

FairSpec == Spec /\ Fairness

-----------------------------------------------------------------------------
(* Properties.                                                             *)

\* Every variable holds a value of its kind, and the thread is at an operation
\* of the script for as long as it has not finished.
TypeOK ==
  /\ process \in {"starting", "up", "aborted"}
  /\ launches \in Nat
  /\ demo \in {"running", "failed", "succeeded"}
  /\ pos \in 1..(Len(Script) + 1)
  /\ demo # "succeeded" => pos \in Ops
  /\ step \in {"start", "begin", "get", "apply", "blob"} \cup MotionSteps
  /\ attempts \in 0..MaxAttempts
  /\ success \in BOOLEAN
  /\ trajectory \in [of : 0..MaxAttempts, is : {"empty", "partial", "whole", "timed"}]
  /\ call \in {"none", "sent", "ready"}
  /\ copy \subseteq Pairs /\ scene \subseteq Pairs
  /\ answer \in {"none", "applied", "rejected", "found", "not_in_view", "no_image"}
  /\ failed \subseteq Ops
  /\ bench_seat \in {"unknown", "open"}
  /\ world \in [arm : Places, bag : {"shelf", "gripper", "bench", "dropped"},
                lid : {"closed", "open"}]

\* What the operator is asked to approve, and what is executed, the last attempt
\* has planned, in full and with time stamps: nothing that an earlier attempt left
\* in the variable that all of them share.
ExecutesTheLastPlan ==
  step \in {"prompt", "execute"} => trajectory = [of |-> attempts, is |-> "timed"]

\* As long as the demo is going on, the only failures behind it are those whose
\* result is discarded, and that of the arc until the checks are on again.
FailuresStopTheDemo ==
  demo # "failed" =>
    \A i \in failed :
      \/ Script[i].onFail = "discard"
      \/ Script[i].onFail = "remember"
           /\ \A j \in Ops : i < j /\ j < pos => Script[j].kind # "publish"

\* A script that allows no pair again after it has restored its check, which
\* holds of run_demo: only open_bench_seat uses set_collisions.
NotAllowedAgain ==
  \A i, j \in CollisionOps :
    i < j /\ ~Script[i].allowed /\ Script[j].allowed => Script[i].pair # Script[j].pair

\* Where set_collisions(false) has reported success, the pair is checked from
\* then on, whatever happened before and whatever else fails.
ChecksRestored ==
  \A i \in CollisionOps :
    i < pos /\ i \notin failed /\ ~Script[i].allowed => Script[i].pair \notin scene

\* The pairs that are unchecked when operation i begins, if no set_collisions
\* fails: the last one about a pair decides, or else the first matrix.
About(i, p) == {j \in CollisionOps : j < i /\ Script[j].pair = p}

UncheckedAt(i) ==
  {p \in Pairs :
     \/ About(i, p) = {} /\ p \in InitialAcm
     \/ \E j \in About(i, p) : Script[j].allowed /\ \A k \in About(i, p) : k <= j}

\* A script that restores every check before any other motion than the arc,
\* which holds of run_demo.
RestoresInTime ==
  \A i \in MotionOps : Script[i].kind # "arc" => UncheckedAt(i) = InitialAcm

\* The demo can rely on the state of pair p: the last set_collisions about it has
\* succeeded, or there was none yet and this is the first launch.
Settled(p) ==
  IF About(pos, p) = {} THEN launches = 1
  ELSE \E j \in About(pos, p) \ failed : \A k \in About(pos, p) : k <= j

\* No motion but the arc is planned or executed while the gripper may pass through
\* the lid, whichever launch it is: a pair is only off that MoveIt refused to
\* restore, or that an earlier launch left off and this one has not come to.
OnlyTheArcIsUnchecked ==
  step \in MotionSteps /\ op.kind # "arc" =>
    \A p \in Pairs : (p \in scene) # (p \in InitialAcm) => ~Settled(p)

\* A script whose arcs open the lid and are remembered, one of them before
\* anything is published, which holds of run_demo.
ArcBeforePublish ==
  /\ \A i \in MotionOps : Script[i].kind = "arc" =>
       Script[i].name = "bench_arc" /\ Script[i].onFail = "remember"
  /\ \A j \in Ops : Script[j].kind = "publish" =>
       \E i \in MotionOps : Script[i].kind = "arc" /\ i < j

\* bench_position is only published if the arc has opened the lid.
PublishedOnlyIfOpen == bench_seat = "open" => world.lid = "open"

\* Operation i is the motion named n.
Does(i, n) == i \in MotionOps /\ Script[i].name = n

\* A script that opens the fingers, once it has closed them, only right after it
\* is lifted above the seat, and after it has published that the bench is open,
\* which holds of run_demo.
ReleasesOnlyAtTheBench ==
  \A g, r \in Ops : Does(g, "close_grasp") /\ Does(r, "open_grasp") /\ g < r =>
    /\ Does(r - 1, "drop_lift") /\ Script[r - 1].onFail = "return"
    /\ \E p \in Ops : p < r /\ Script[p].kind = "publish"

\* A script that closes the fingers only after the two motions of
\* approach_ctb_handle, which holds of run_demo.
GraspsAfterReaching ==
  \A g \in Ops : Does(g, "close_grasp") =>
    /\ Does(g - 1, "descend_to_ctb_handle") /\ Script[g - 1].onFail = "return"
    /\ Does(g - 2, "above_handle") /\ Script[g - 2].kind = "computed"

\* A script with a grasp g that is kept until the release r, after which nothing
\* is grasped, which run_demo has.
Carries(g, r) ==
  /\ g < r
  /\ Does(g, "close_grasp") /\ Script[g].onFail = "return"
  /\ Does(r, "open_grasp") /\ Script[r].onFail = "return"
  /\ \A k \in Ops : /\ g < k /\ k < r => ~Does(k, "open_grasp")
                    /\ r < k => ~Does(k, "close_grasp")

CarriesTheBag == \E g, r \in Ops : Carries(g, r)

\* The bag is let go of only above the open bench, except that a demo which was
\* launched again opens, before it grasps anything, a gripper that still holds it.
DroppedOnlyByARelaunch ==
  [][world.bag # "dropped" /\ world'.bag = "dropped" =>
       launches > 1 /\ \A g \in Ops : Does(g, "close_grasp") => pos < g]_vars

\* The only failure of a computed reach that the demo survives is that of the
\* one above the handle.
ReachFailed == \E i \in failed : Script[i].kind = "computed"

\* A demo that succeeded at its first launch has put the bag in the bench,
\* unless the reach above the handle failed, whose result is discarded.
SuccessMeansPlaced ==
  demo = "succeeded" /\ launches = 1 =>
    \/ world.bag = "bench"
    \/ ReachFailed

\* The demo succeeds only if the waypoint file has every name it uses.
SuccessNeedsEveryWaypoint ==
  demo = "succeeded" =>
    \A i \in MotionOps : Script[i].uses \subseteq DOMAIN wp_map

\* Once started, the demo comes to an end: retries, prompts, polled calls and
\* the search for the blob are all left again.
DemoEnds == Running ~> ~Running

\* How many steps the demo may still take: those of the operations to come, and
\* those of the one it is at, where each of the three steps of an attempt at
\* planning and each answer to a call counts.
StepsLeft ==
  LET tries == 3 * (MaxAttempts - attempts)
      waiting == IF call = "sent" THEN 1 ELSE 0
  IN  [start |-> 3 * MaxAttempts + 4, begin |-> 3 * MaxAttempts + 3,
       plan  |-> tries + 2, stamp |-> tries + 1, tried |-> tries,
       prompt |-> 2, execute |-> 1,
       get   |-> 4 + waiting, apply |-> 2 + waiting, blob |-> 1 + waiting][step]

WorkLeft ==
  IF demo # "running" THEN 0
  ELSE (3 * MaxAttempts + 4) * (Len(Script) + 1 - pos) + StepsLeft

\* Whatever the demo does or is answered brings it closer to its end, except
\* that the search for the blob is repeated if there was no image.
ComesCloser ==
  [][DemoThread \/ Approve \/ MoveGroup \/ Camera =>
       \/ process' = "aborted"
       \/ WorkLeft' < WorkLeft
       \/ step = "blob" /\ answer = "no_image"]_vars

\* What the message "Failed to reach CTB handle. Exiting." says: the fingers
\* are only closed when they are at the handle.
GraspOnlyAtHandle ==
  step = "plan" /\ op.kind = "motion" /\ op.name = "close_grasp"
    => world.arm = "descend_to_ctb_handle"
=============================================================================
