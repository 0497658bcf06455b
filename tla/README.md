# TLA+ models of the CLR demos

The repository holds demonstration programs for a robot (an arm on a lift on a
rail) that opens a bench, moves a cargo transfer bag (CTB) and plans motions
interactively. These modules model the programs' own control logic, TLC checks
them on small instances, and TLAPS proves theorems about them for every value of
their constants. Paths below are relative to `src/src/clr_demos/` unless they
start with `src/`.

## Inventory

| Component | State it keeps | Operations | Interacts with | Hard behaviour |
|---|---|---|---|---|
| `run_demo` (`clr_pick_and_place_demo/src/run_demo.cpp`) | the waypoint map, MoveGroup and visual-tools objects, the demo thread's position in the script, `trajectory`, `success` and `attempts` of `plan_and_execute` | 21 calls of stage functions in sequence; each is planning with retries, approval, execution, synchronous service calls, transform lookups | move_group's services and actions, `color_blob_find`, TF, the operator, `bench_position` subscribers | partial failure between an action and its undoing; ignored results; polling without timeout; interrupt and relaunch with a scene and a bag that outlive the process |
| waypoint file (`clr_pick_and_place_demo/config/waypoints.yaml`) | named waypoints | loaded once | `run_demo` | a missing name throws in the demo thread |
| `acm_modifier_node` (`clr_behavior_pick_and_place_demo/src/acm_modifier_node.cpp`) | parameters `gripper_links` and `target_part`; one handler activation per request | `~/toggle_collision` | move_group's get and apply services; its callers | reentrant handlers; read-modify-write of the whole matrix; blocking executor threads; timeouts with a null result |
| move_group's planning scene (external) | the allowed collision matrix | get, apply | both of the above | it may reject an apply, or answer late |
| `clr_constrained_planner` (same package) | one request, the spinning thread | one service call | move_group, SIGINT | spins a node that an executor already owns; early return with a joinable thread |
| behavior trees (`behavior_trees_xml/*.xml`, same package) | a blackboard | sequences of skills | skills of another repository (`drt_behaviors`), `acm_modifier_node` | checks never re-enabled; the same subtree ID in two files |
| `plan_and_execute_node` (`clr_roboplan_demos/scripts/`) | `_target_q`, `_planned_traj`, latest joint state | plan, preview, execute, reset, as services and as marker menu entries; marker feedback | controller action, trajectory player, RViz | the constructor and the services, the marker's executor and the joint-state listener in three threads without locks; a marker that is served before the attributes exist |
| `viser_ik_rrt` (same directory) | displayed configuration, IK result, start, goal, trajectory queue, `animate`, button states | GUI callbacks; main loop | the viewer's thread pool | callbacks against one another and against the main loop; two notions of the current configuration |
| launch files, functional tests, container and environment files, RViz configurations | - | - | - | no program logic of their own |

What makes each component correct:

- `run_demo`: no failure that counts is passed over; what is executed is what the
  last attempt planned, and not what an earlier one left behind; collision checks are suspended for the arc that
  opens the lid and for nothing else; the bag is only let go of above the open
  bench; success means that the bag is there; the demo ends.
- `acm_modifier_node`: a request is one atomic update; "ok" is true; no pair
  outside the gripper's is ever changed; no check goes off that nobody asked to
  go off; every request is answered.
- `plan_and_execute_node`: what is shown is what is planned, previewed and sent;
  a reset leaves nothing behind; no callback uses what another has cleared; the
  node becomes ready; each operation takes effect at one instant.
- `viser_ik_rrt`: no plan is made without a start and a goal, none during an
  animation; no animation without a trajectory; buttons agree with what is
  captured and come back; the marker snaps to what is shown.
- `clr_constrained_planner`: the response is parsed; the process ends cleanly.
- behavior trees: a tree that ends has re-enabled the checks it suspended.

The hazards behind these, each at its line, are the `hazards` of `PROJECT.json`.

## Modules

| Module | What it is |
|---|---|
| `PlanningScene` | the collision matrix as the set of pairs that are allowed to collide, and `setEntry`; used by both components |
| `ToggleService` | abstract specification: a toggle request takes effect atomically between its arrival and a truthful reply |
| `AcmModifier` | `acm_modifier_node`, move_group's two services, and the callers; properties; the refinement mapping to `ToggleService` |
| `AcmModifierProofs` | its theorems |
| `DemoScript` | what `run_demo` does: one definition per member function, as sequences of operation records; the waypoint file and its loader |
| `RunDemo` | how the operations are carried out: the demo thread, the main thread, the services, interrupt and relaunch; properties |
| `RunDemoProofs` | its theorems, for every script: failures, collision checks, the lid, the way to the end |
| `CargoBagProofs` | its theorems about the bag, for every script that carries it as `run_demo` does |
| `Workbench` | abstract specification: a target, at most one plan, and operations that happen at one instant |
| `PlanAndExecute` | `plan_and_execute_node`: constructor, services, marker and joint-state listener as threads, a step per access to an attribute; the refinement mapping to `Workbench` |
| `PlanAndExecuteProofs` | its theorems |
| `ViserIkRrt` | `viser_ik_rrt`: callbacks on any number of threads and the main loop, a step per access to a shared variable |
| `ViserIkRrtProofs` | its theorems for any operator |
| `ViserCarefulProofs` | its theorems for a careful operator |
| `ConstrainedPlanner` | `clr_constrained_planner`: main, the spinning thread and the end of the process; the request's box and goal |
| `ConstrainedPlannerProofs` | its theorems |
| `MCAcmModifier`, `MCRunDemo`, `MCPlanAndExecute`, `MCViserIkRrt` | the instances TLC checks (`ConstrainedPlanner` needs none) |

A definition whose name ends in `_Wrong...` is a mistake the code might contain and
does not. Each property is checked to fail when the real
definition is replaced by one of them, so that none of them holds vacuously.

### AcmModifier and the code

A handler's request goes through `pc`: `queued` (the executor has it), `getting`
(lines 70-117, blocked in the first `request_response`), `applying` (119-136,
blocked in the second), `idle` after lines 138-145 and 97-100. `call` is the
handler's current service call: `sent`, `served` by move_group, `ready` once a
thread of this node has completed its future. `copy` is the matrix that travels
with it. The service's callback group is reentrant (line 25), so any number of
handlers run, as far as there are threads: `ThreadFree` guards the start of a
handler, the completion of a future (`Deliver`) and the parameter service.
`Timeout` is line 160: `request_response` returns a null pointer, which lines 120
and 139 dereference, so the node is gone; its calls in flight are still served.
With `Prompt`, move_group answers in time, and a timeout happens only if the
node has no thread left to take its answers (`Starved`). `MaxOutstanding` bounds
how many requests callers have in progress. `target_part` may be set whenever a
thread is free. A name the service never looks at keeps no detail; a matrix entry
NEVER and a missing entry are the same, as both are checked.

### RunDemo and the code

`Script` is a sequence of records. The kinds are: `motion` (a named waypoint),
`computed` (a computed Cartesian waypoint), `arc` (the vector overload, one
attempt), `collisions` (one `set_collisions` call), `lookup`, `detect` (the blob
search), `publish` (the end of `open_bench_seat`). `onFail` is what the calling
function does with a false result: `return` it, `discard` it, or `remember` it
and go on (`success` at lines 363-376). `pos` and `step` are the demo thread's
place; `Running` guards its actions, one per call or wait of the code.

`plan_and_execute` goes through the steps `plan`, `stamp`, `tried`, `prompt` and
`execute`. All attempts share `trajectory`, which remembers of which attempt it is
and how far that came, and `success` is a variable of its own, as in the code: an
attempt that fails may leave a part of a path (`FollowPath`, 765-778), a whole path
without time stamps (`ComputeTimeStamps`, 782-809), or what an earlier attempt wrote
(`PlanToPose` assigns only what was found; a Cartesian request that cannot be made
returns -1 and leaves the path alone). `Tried` looks at `success` alone. `Execute`
may fail before or after the motion took effect and leaves the arm `astray`.
`world` is the environment: where the arm is (the last motion carried out), where
the bag and the lid are. `After` says how motions change it, and is the model's
only statement about physics: the descent is relative, fingers closed at the
handle take the bag, opened fingers let it go.

Three exceptions or null pointers end the whole process, as nothing catches them in
the demo thread: `UnknownWaypoint` (`wp_map.at`), `SetupThrows` (the constructor of
MoveGroupInterface without a robot model, 885-898) and `NoCurrentState`
(`plan_cartesian` dereferences the current state at 783 although it may be null).
`parameter_setup` gives the constants their values from the parameters that are
given, with the code's defaults.

`Interrupt` is SIGINT. `main` returns with `demo_thread` joinable, which
terminates the process, so it leaves `aborted` and never a clean exit.
`Relaunch` starts the program again with `scene` and `world` as they are. It comes
after a call in flight has been served: a write of the first launch that is only
applied during the second is left out. Other exceptions before the first motion
(203) end the process as `SetupThrows` and `Interrupt` do.

### PlanAndExecute and the code

`pc` says where the threads "main" and "marker" are; the labels of a callback are
its accesses to attributes, in order. "main" begins in the constructor
(`WaitForJoints` 153-229, `InsertMenu`, `CreateVisualizers`, `InitFields`, then
`Reset("main")`, whose first return is the end of the constructor and sets
`ready`), and then serves the four services, one at a time, as they share the
default callback group. "marker" takes feedback and menu entries from line 229
on, when some attributes do not exist yet: they are `Missing`. The same actions,
with the thread as parameter, are the menu's and the services' (460-503 both call
`_plan` and so on). The third thread, `JointState`, writes one attribute.

A plan goes `plan` (check of `_target_q`, 318), `start` (321-323), `goal` (the use,
329), `solve`, `draw` (`_planned_traj` read again, 369), `publish`, `count` (378); an
execution `execute`, `server` (a wait of up to 2 s), `convert` (402), `send`; a
reset goes `reset` to `done`, six writes. A callback ends "unset" when it uses a
value that is not there, "unsolved" when the planner's post-processing raises; an
exception ends main and the process, or the marker's executor alone. Two constants
say what the operator does: `Overlap` (menu and services at the same time) and
`EarlyUse` (the marker before "Ready"). A trajectory is told by its ends. The
player, RViz and the controller are external: `playing`, `path`, `ghost` and `sent`
hold what was last given to them. `None` is also the value before a first one.
`CreateVisualizers` is one step for 240-283, between which no property can tell, and
`goal` is one for the reads at 326 and 329; a reset may come between the check of
`_target_q` (318) and them.

### ViserIkRrt and the code

viser runs each callback on a thread of its pool; a worker's `pc` goes through the
accesses of that callback to the variables of `main`, and returns to "idle".
`display_full` (197-201) is three steps, `SetCurrent`, `FetchFrame` and `Draw`,
that every caller enters with `Display` and leaves to `back`. Clicking a disabled
button is impossible, so `Click` is guarded by the button and the callback runs
later. `left` are the frames of the animation that the main loop has not yet
shown: its first and last configuration stand for all. `solution` is a single
object that the IK fills for every callback (233). The asserts of `plan_path` are
`BeginSearch`'s guard, so `AssertsHold` says that it can always be taken. `Careful`
is an operator who uses one control at a time and, during an animation, only what
is left enabled. `MaxQueue` bounds the trajectories that wait for the loop.

Two things are assumed. The `positions` of the two JointConfigurations of lines 211-212
read as None until something is captured, as the test at line 265 takes them to; the
binding is not in the repository, and if it gave an empty array instead, that test
would always say that both are captured. And the calls of `visualize` after the display (361-374) do not raise.

### ConstrainedPlanner and the code

`main` goes through 13-155; `executor` is `run_thread`. rclcpp refuses to spin a node
that has an executor (`Refuses = TRUE`); the lines after 132 are modelled all the
same; `Refuses` speaks of the node that `run_thread` spins, which it does by then. Any
exit of main but the last one destroys a joinable thread and terminates
the process. The request's numbers are those of the code, in centimetres: the goal
(y = 1.25 m) is outside the box (y up to 1 m) that the path must not leave.

## Runs

| Run | Instance | Shows |
|---|---|---|
| `acm_serial` | 2 callers, one at a time, 2 threads, move_group may be late | truthful replies, no check goes off unasked, refinement of `ToggleService` |
| `acm_overlap` | 2 callers at once, 3 threads, prompt move_group | type invariant, entries that are not the gripper's stay, no timeouts, every request answered |
| `acm_lost_update` | as above | **violated**: a stale write-back turns off a check another request had turned on |
| `demo_full` | shipped script and waypoints, 2 launches, prompts, hardware | all safety properties of the demo |
| `demo_ending` | 1 launch, unprompted, simulation, a waypoint file without `center_ctb`, fair | every step brings the demo closer to its end, and it ends; it never succeeds without a name it uses |
| `demo_grasp` | 1 launch | **violated**: the fingers close elsewhere after a failed reach whose result is discarded |
| `plan_serial` | 2 configurations, one callback at a time | what is shown is what is planned and sent, a reset leaves nothing, no value is gone; refinement of `Workbench` |
| `plan_overlap` | 1 configuration, menu, services and feedback overlap, and begin during the constructor, fair | type invariant, no path stays without a plan, the node becomes ready |
| `plan_gone` | 1 configuration, overlap | **violated**: a reset between the check and the use of an attribute |
| `viser_careful` | 2 configurations, 1 worker, every control, a careful operator | type invariant, buttons, display and marker agree with what is captured and planned |
| `viser_overlap` | 1 configuration, 2 workers, capture, plan and animate at any time, fair | the asserts hold, animations have trajectories, the plan button comes back |
| `planner_refused` | the code's request, fair | **violated**: the response is never parsed |

The violated runs are the `findings` of `PROJECT.json`, each with the line of the
repository it contradicts.

Bounds. Two callers are enough for a lost update and, with as many threads, for
starvation; the theorems cover every number. Two gripper links tell a partial
update from a complete one, one part besides "all" tells a target from the
wildcard, and one pair outside the service's business shows that the whole matrix
is kept. The script and the waypoints are the real ones, not samples. Two launches
(`MaxLaunches`) show what the first leaves for the next; a third finds no other
kind of state, as only `scene` and `world` survive. Attempts are the code's four.

Two configurations tell where the robot is, where it was and where it is to go in
`plan_serial`, and what is shown from what is captured in `viser_careful`; the
overlapping runs are about which value is there and not about which it is, so one
configuration is enough. Two workers are enough for two writers of a button and
a main loop; three would only repeat them, and the theorems cover every number. A
queue of one (`MaxQueue`) makes the next plan wait for the loop, which only delays
it. An animation has two frames, the first one and the last.

Deadlock checking is off in every run: nodes may crash, a demo may finish, a
process that was interrupted for the last time stays down, and the window waits
for its operator.

Fairness. `AcmModifier`: weak fairness for each handler's own steps, the
completion of its futures and move_group's service; the executor's threads run
whenever they can. Callers, the parameter and the clock have none. `RunDemo`: weak
fairness for the demo thread, the start of the process, move_group, the camera
service and the operator's approval (the code waits for each without a timeout, so
the demo ends only if they answer), and strong fairness for a camera answer with
an image, since an answer without one is asked for again. Nobody needs to
interrupt or launch anything. `PlanAndExecute`: weak fairness for joint states while
somebody listens, and for the constructor and the reset in it, which run in main;
nobody needs to call anything. `ViserIkRrt`: weak fairness for each worker's
callback, for the display in every thread and for the main loop, each of which the
operating system schedules; the operator has none. `ConstrainedPlanner`: both
threads run, the service appears and move_group answers.

## Proofs

`AcmModifierProofs`, from `AcmModifierAssumption` (finitely many callers, links and
targets are names of the matrix, at least two threads, as rclcpp's default has):

- `TypeCorrect`.
- `UnmanagedStays`: the invariant adds that every copy on its way back agrees with
  the first matrix outside the managed entries. It needs no bound on overlapping.
- `NoTimeoutWithASpareThread`, if `MaxOutstanding < Threads`: at most
  `MaxOutstanding` requests are in progress (`OutstandingBounded`), handlers are
  among them, so a thread is always free and nobody is `Starved`. Without
  it, as many requests as threads leave nobody to take an answer (Divergences).
- `RepliesAreTruthful`, `OnlyAskedChecksGoOff`, `ToggleServiceImplemented`, if
  `MaxOutstanding = 1`: `SerialInv` says that the only handler's copy is the
  matrix, or the matrix with its own change, and that after an accepted write the
  matrix says what was asked for. `acm_lost_update` shows that the hypothesis is
  needed. The refinement maps the decision of move_group to the abstract `Apply`
  or `Reject`, and every other step of a handler to a stutter.

`RunDemoProofs`, from `RunDemoAssumption` (what the records of a script look like),
for every script, waypoint file and matrix:

- `TypeCorrect` and `ExecutesOnlyPlans`, by `TypeInv`, which says which steps
  belong to which kind of operation, and (`StepOK`) what an attempt has in
  `trajectory`: a whole path of its own where it asks for time stamps, and its own
  finished one where it reports success. The mutant breaks that: taking the -1 of
  `computeCartesianPath` for a path stamps what an earlier attempt has left.
- `NoFailureIsSkipped`: inductive with `TypeInv`. The point is that `publish`
  completes only if no remembered failure is behind it.
- `RestoredStaysRestored`, if the script never allows a pair again after it has
  restored it (`NotAllowedAgain`, which TLC evaluates for the real script):
  `RestoreInv` extends the property to the copy that is on its way back.

- `SucceedsWithEveryWaypoint`: no motion is behind the demo whose names the file
  lacks (`WaypointInv`).
- `PublishesOnlyOpenLids`, if an arc that opens the lid and whose result is
  remembered comes before anything is published (`ArcBeforePublish`): `LidInv` says
  that an arc that is behind the demo and not among `failed` has opened the lid.
- `ChecksAreOnBesidesTheArc`, if the script restores every check before any motion
  but the arc (`RestoresInTime`): `UncheckedAt(i)` says what the matrix should be at
  operation i, by the last operation about each pair, so that it needs no
  recursion. `SceneInv` says, pair by pair and in every launch, that the matrix is
  that, and the copy on its way too, for each pair the demo can rely on (`Settled`):
  the last `set_collisions` about it has succeeded, or there was none yet and this is
  the first launch. A failed restore excuses its own pair only, and a relaunch only
  the pairs it has not come to.
- `EveryStepComesCloser`: whatever the demo does or is answered, `WorkLeft` decreases,
  which is a natural number, or the process is aborted; the only exception is an
  answer to the blob search without an image. `StepsLeft` counts the steps and
  answers left of one operation, at most sixteen, so an operation that ends always
  pays for the next. `DemoEnds` needs that the steps are taken, too, which is
  fairness and stays with TLC.

`CargoBagProofs`, from the same assumption, for every script that does as `run_demo`
does: `GraspsAfterReaching` (fingers close only after the two motions to the handle),
`ReleasesOnlyAtTheBench` (once closed, they open only after the lift above the seat
and after publishing), `CarriesTheBag` (there is a grasp with one release, and what
is between them and behind them leaves the bag alone). What motions do to the bag
(`After`) is the model's, and the theorems say nothing of a gripper that loses the
bag by itself.

- `ClosesAtTheHandle`: as long as no computed reach has failed, the fingers only close
  at the handle. `ArmInv` ties the arm to the script: right after a motion that did not
  fail, it is where the motion takes it; `HandleInv` follows the reach and the descent.
  `demo_grasp` violates the property without the exception, so a discarded reach is
  its only cause.
- `DropsOnlyAfterARelaunch`: no step of any launch drops the bag but one, the fingers
  of a relaunched demo that open, before its own first grasp, with the bag of an
  earlier launch in them. Once the script has come past a grasp, the fingers open at
  the release, where `ArmInv`, `LidInv` and `FailuresStopTheDemo` together put the arm
  above the seat and the lid open (`ReleaseAtTheBench`, `DropStep`); `BagInv` says that
  in a first launch the gripper has the bag only if the demo has come to a grasp.
- `SucceedsWithTheBag`: `CarriedInv` says that the gripper has the bag from the grasp
  to the release and the bench has it from there on, unless the demo has failed
  or a computed reach has.

`MCRunDemo` assumes the six hypotheses about scripts, so TLC evaluates them for the
real one.

`PlanAndExecuteProofs`, from `PlanAndExecuteAssumption` (`None` and `Missing` are not
configurations), for every set of configurations and operations:

- `TypeCorrect`: `TypeInv` adds that joint states have come before any callback and
  what `latest` and `traj` hold where they are used.
- `NoPathWithoutPlanAtRest`, in every interleaving: `OrphanInv` says that a path
  without a plan is about to be erased or to make its plan fail.
- With one callback at a time and no early use (`Serial`): `ShownIsPlanned`,
  `ShownIsTarget`, `ActsOnWhatIsShown`, `ResetLeavesNoPlan`, `NothingUnsetIsUsed` and
  the refinement, all from `SerialInv`: at most one thread is in a callback
  (`OneAtATime`), what it may rely on where it is, and what is shown lags behind the
  attributes only between the two writes. `plan_gone` shows that `Serial` is needed.
- `NothingUnsetWithoutReset`: without resets no overlap makes a callback use what is
  not there; the race of `plan_gone` needs a reset.

`ViserIkRrtProofs`, from `ViserAssumption`, for any number of threads and any
operator, careful or not: `TypeCorrect`, `AssertsAlwaysHold` and
`AnimationsHaveTrajectories`, all from one invariant. `SeenBoth` says that whoever may
enable or has used the plan button has seen both configurations, which are never
unset; `SeenTrajectory` the same of the animate button; `HandsOK` what a thread has
in its hands where it is.

`ViserCarefulProofs`, from the same assumption and invariant, if `Careful`, for any
number of threads: `CarefulInv` adds that one thread is at work at a time, and none
during an animation (`OneAtATime`); that an animation, or a callback about to ask for
one, holds both buttons (`ButtonsHeld`); where the plan button may differ from what is
captured (`PlanButtonFollows`); that what is displayed lags behind `current_q_full`
only within `display_full` (`DisplayFollows`); and that a trajectory starts where the
robot is shown (`StartShown`). The parts need each other: the buttons keep the
operator out of an animation, and being alone makes a callback's check of the plan
button and its write agree.

- `PlanButtonFollowsCaptures`, `PlansWaitForAnimations` and `PlansBeginWhereShown`
  follow from the invariant at one state, `MarkerSnapsToShown` from the invariant at
  the step of the snap. Overlapping callbacks leave what they share in disagreement
  (Divergences), so they need `Careful`.

`ConstrainedPlannerProofs`: `TypeCorrect`; `DrawsNothing`, since the goal lies outside
the box (`GoalOutsideBox`) and move_group keeps to constraints; `TerminatesUnparsed`,
if rclcpp refuses the node: main neither parses a response nor returns.

Every invariant and action property of a passing run is a theorem, and so are both
refinements. Only model-checked is liveness under fairness (`EveryRequestAnswered`,
`DemoEnds`, `BecomesReady`, `GivesButtonBack`), which is beyond the proof system
together with ENABLED; and the hypotheses about scripts are evaluated for the real
one only.

## Divergences

Besides the four findings, reading the code for the models showed where it does
something else than a text beside it says. The models do what the code does; no run
is about these.

- `acm_modifier_node.cpp:155`: a handler blocks its thread, so as many overlapping
  requests as threads leave nobody to complete a future, and all handlers time out;
  line 176 says that the executor prevents callback deadlocks. `NoTimeoutWithASpareThread`
  proves that one more thread is enough.
- `acm_modifier_node.cpp:123`: the wildcard "" is an ordinary name for the two-name
  `setEntry`; line 82 says that it targets everything.
- `run_demo.cpp:994`: after a failure ("Exiting.") the process spins on until SIGINT, so
  the launch file's `on_exit` never fires.
- `plan_and_execute_node.py:353`: a reset by the other thread during a plan is undone
  when the plan is stored; line 431 says that a reset clears all plans.
- `plan_and_execute_node.py:229`: the marker is served before what its callbacks use
  exists; feedback in that window ends the marker's thread, and the node goes on to
  report that it is ready.
- `viser_ik_rrt.py:272`: a captured configuration is the last one of the IK or of a
  move button, not the one that a plan or an animation shows (README of
  `clr_roboplan_demos`, line 15).
- `viser_ik_rrt.py:201`, `265`: two callbacks at once may leave the variable and the
  display, or the plan button and the captured configurations, in disagreement; and
  `360`: a capture during the search moves the robot away from where the plan starts.
  The careful operator of `viser_careful` avoids both.

## Not modelled

- Poses and geometry (`rotate_about_frame`, `relative_to_global`), the choice of
  planner and scaling, visualisation, logging, the age of transforms: data that no
  control depends on.
- The wait for MoveIt's services when `acm_modifier_node` starts (`init_services`): it
  changes no state.
- The behavior trees: their skills' code is not in the repository, so when a skill
  fails, is retried or halts cannot be read here. The state they share with this
  code is the toggle service, whose callers `AcmModifier` has.
- Launch files, functional tests, containers and tool configuration: no program
  logic of their own.

What could be added: variants like `WorkLeft` for the handlers of `AcmModifier`, the
constructor of `PlanAndExecute` and the animation of `ViserIkRrt`, which would leave to
TLC only the fairness in their liveness properties.
