------------------------- MODULE ConstrainedPlanner -------------------------
(***************************************************************************)
(* clr_constrained_planner: a program that asks move_group for one plan    *)
(* whose path stays in a box, and draws it.  main runs next to a thread    *)
(* that spins the node's executor; it has to shut ROS down and join that   *)
(* thread before it returns, as a joinable thread that is destroyed        *)
(* terminates the process.                                                 *)
(***************************************************************************)
EXTENDS Integers

CONSTANT Refuses  \* does rclcpp refuse a node that already has an executor?
                  \* (it does; the lines after 132 are modelled all the same)

-----------------------------------------------------------------------------
(* The request, in centimetres of the frame "world".                       *)

Axes == {"x", "y", "z"}

Interval(centre, size) == (centre - size \div 2)..(centre + size \div 2)

\* box_constraint: where the path of gripper_base_link may be.
Box == [x |-> Interval(25, 50), y |-> Interval(0, 200), z |-> Interval(50, 70)]

\* goal_pos: the cube around the sphere where the same link is to end.
Goal == [x |-> Interval(30, 2), y |-> Interval(125, 2), z |-> Interval(50, 2)]

\* A path ends where it may be.
Satisfiable == \A a \in Axes : Box[a] \cap Goal[a] # {}

-----------------------------------------------------------------------------
VARIABLES main,      \* where main is, or how the process ended
          executor,  \* run_thread: "none", "spinning", "ended" or "joined"
          ok,        \* rclcpp::ok()
          service,   \* is /get_kinematic_path there?
          call,      \* the request: "none", "sent", "answered" or "complete"
          response,  \* its error code
          drawn      \* has a trajectory line been published?

vars == <<main, executor, ok, service, call, response, drawn>>

Init ==
  /\ main = "start" /\ executor = "none" /\ ok = TRUE
  /\ service = FALSE /\ call = "none" /\ response = "none" /\ drawn = FALSE

Running == main \notin {"returned", "terminated"}

Step(from, to) == main = from /\ main' = to

StartThread ==
  /\ Step("start", "configure")
  /\ executor' = "spinning"
  /\ UNCHANGED <<ok, service, call, response, drawn>>

\* MoveGroupInterface waits for move_group, and throws without a robot model.
Configure ==
  /\ Step("configure", "wait") \/ Step("configure", "terminated")
  /\ UNCHANGED <<executor, ok, service, call, response, drawn>>

\* The loop is left when the service is there, and when ROS has been shut
\* down: by a return with run_thread joinable.
WaitForService ==
  /\ \/ service /\ ok /\ Step("wait", "send")
     \/ ~ok /\ Step("wait", "terminated")
  /\ UNCHANGED <<executor, ok, service, call, response, drawn>>

Send ==
  /\ Step("send", "spin")
  /\ call' = "sent"
  /\ UNCHANGED <<executor, ok, service, response, drawn>>

\* spin_until_future_complete adds the node to an executor of its own, which
\* throws if the node is refused, or if there is no ROS context any more.
SpinUntilComplete ==
  /\ \/ (Refuses \/ ~ok) /\ Step("spin", "terminated")
     \/ ~Refuses /\ ok /\ Step("spin", "spinning")
  /\ UNCHANGED <<executor, ok, service, call, response, drawn>>

StopSpinning ==
  /\ \/ call = "complete" /\ Step("spinning", "parse")
     \/ ~ok /\ Step("spinning", "shutdown")
  /\ UNCHANGED <<executor, ok, service, call, response, drawn>>

Parse ==
  /\ Step("parse", "shutdown")
  /\ drawn' = (response = "plan")
  /\ UNCHANGED <<executor, ok, service, call, response>>

Shutdown ==
  /\ Step("shutdown", "join")
  /\ ok' = FALSE
  /\ UNCHANGED <<executor, service, call, response, drawn>>

Join ==
  /\ executor = "ended" /\ Step("join", "returned")
  /\ executor' = "joined"
  /\ UNCHANGED <<ok, service, call, response, drawn>>

-----------------------------------------------------------------------------
(* run_thread, move_group and the operator's Ctrl-C.                       *)

\* Either of the node's executors takes the response.
TakeResponse ==
  /\ Running /\ call = "answered"
  /\ executor = "spinning" \/ main = "spinning"
  /\ call' = "complete"
  /\ UNCHANGED <<main, executor, ok, service, response, drawn>>

EndThread ==
  /\ Running /\ executor = "spinning" /\ ~ok
  /\ executor' = "ended"
  /\ UNCHANGED <<main, ok, service, call, response, drawn>>

ServiceComes ==
  /\ Running /\ ~service
  /\ service' = TRUE
  /\ UNCHANGED <<main, executor, ok, call, response, drawn>>

\* move_group plans within the constraints or says why it did not.
Answer ==
  /\ call = "sent"
  /\ call' = "answered"
  /\ response' \in {"error"} \cup {r \in {"plan"} : Satisfiable}
  /\ UNCHANGED <<main, executor, ok, service, drawn>>

Interrupt ==
  /\ Running /\ ok
  /\ ok' = FALSE
  /\ UNCHANGED <<main, executor, service, call, response, drawn>>

-----------------------------------------------------------------------------
Main ==
  \/ StartThread \/ Configure \/ WaitForService \/ Send \/ SpinUntilComplete
  \/ StopSpinning \/ Parse \/ Shutdown \/ Join

Next == Main \/ TakeResponse \/ EndThread \/ ServiceComes \/ Answer \/ Interrupt

Spec == Init /\ [][Next]_vars

\* Both threads run and move_group is there; nobody has to interrupt.
FairSpec ==
  /\ Spec
  /\ WF_vars(Main) /\ WF_vars(TakeResponse) /\ WF_vars(EndThread)
  /\ WF_vars(ServiceComes) /\ WF_vars(Answer)

-----------------------------------------------------------------------------
(* Properties.                                                             *)

\* Every variable holds a value of its kind.
TypeOK ==
  /\ main \in {"start", "configure", "wait", "send", "spin", "spinning", "parse",
               "shutdown", "join", "returned", "terminated"}
  /\ executor \in {"none", "spinning", "ended", "joined"}
  /\ ok \in BOOLEAN /\ service \in BOOLEAN /\ drawn \in BOOLEAN
  /\ call \in {"none", "sent", "answered", "complete"}
  /\ response \in {"none", "error", "plan"}

\* main "waits for the response and parse[s] the output trajectory" (line 131)
\* once the request is sent, unless it is interrupted.
ResponseParsed == main = "spin" ~> main = "parse" \/ ~ok

\* No line is drawn: the goal lies outside the box that the path is to stay in.
NeverDrawn == ~drawn

\* main does not come to parse a response, nor does it return, if rclcpp refuses
\* a node that has an executor.
NeverParsed == main \notin {"spinning", "parse", "shutdown", "join", "returned"}
=============================================================================
