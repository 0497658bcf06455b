---------------------- MODULE ConstrainedPlannerProofs ----------------------
(***************************************************************************)
(* Theorems about ConstrainedPlanner: what its request can yield, and how  *)
(* far its main comes.                                                     *)
(***************************************************************************)
EXTENDS ConstrainedPlanner, TLAPS

\* Box and Goal are apart on the y axis: from -100 to 100, and from 124 to 126.
LEMMA GoalOutsideBox == ~Satisfiable
<1>1. Box["y"] = -100..100 /\ Goal["y"] = 124..126
  BY DEF Box, Goal, Interval
<1>. QED
  BY <1>1 DEF Satisfiable, Axes

\* Every variable keeps a value of its kind, whatever is interrupted, answered
\* or refused.
THEOREM TypeCorrect == Spec => []TypeOK
<1>1. Init => TypeOK
  BY DEF Init, TypeOK
<1>2. TypeOK /\ [Next]_vars => TypeOK'
  BY DEF TypeOK, vars, Next, Main, Step, StartThread, Configure, WaitForService, Send,
     SpinUntilComplete, StopSpinning, Parse, Shutdown, Join, TakeResponse, EndThread,
     ServiceComes, Answer, Interrupt
<1>. QED
  BY <1>1, <1>2, PTL DEF Spec

\* The program draws nothing, whether or not rclcpp lets it wait for the
\* response: no path within the box ends at the goal.
THEOREM DrawsNothing == Spec => []NeverDrawn
<1>. DEFINE Inv == drawn = FALSE /\ response # "plan"
<1>1. Init => Inv
  BY DEF Init
<1>2. Inv /\ [Next]_vars => Inv'
  <2>. SUFFICES ASSUME Inv, [Next]_vars PROVE Inv'
    OBVIOUS
  <2>1. CASE Parse
    BY <2>1 DEF Parse
  <2>2. CASE Answer
    BY <2>2, GoalOutsideBox DEF Answer
  <2>3. CASE UNCHANGED <<response, drawn>>
    BY <2>3
  <2>. QED
    BY <2>1, <2>2, <2>3 DEF vars, Next, Main, StartThread, Configure, WaitForService,
       Send, SpinUntilComplete, StopSpinning, Shutdown, Join, TakeResponse, EndThread,
       ServiceComes, Interrupt
<1>3. Inv => NeverDrawn
  BY DEF NeverDrawn
<1>. QED
  BY <1>1, <1>2, <1>3, PTL DEF Spec

\* As the node is in run_thread's executor, main neither parses the response nor
\* returns: every way out of it terminates the process.
THEOREM TerminatesUnparsed ==
  ASSUME Refuses
  PROVE  Spec => []NeverParsed
<1>1. Init => NeverParsed
  BY DEF Init, NeverParsed
<1>2. NeverParsed /\ [Next]_vars => NeverParsed'
  BY Refuses DEF NeverParsed, vars, Next, Main, Step, StartThread, Configure, WaitForService,
     Send, SpinUntilComplete, StopSpinning, Parse, Shutdown, Join, TakeResponse, EndThread,
     ServiceComes, Answer, Interrupt
<1>. QED
  BY <1>1, <1>2, PTL DEF Spec
=============================================================================
