--------------------------- MODULE MCAcmModifier ---------------------------
(***************************************************************************)
(* Small instances of AcmModifier: two gripper links, one part next to the *)
(* name "" that stands for all parts, and a bench lid that no request is   *)
(* about.  The scene starts as an SRDF leaves it: two links of the robot   *)
(* that touch by construction are not checked against each other.          *)
(***************************************************************************)
EXTENDS AcmModifier

MCLinks == {"finger_1_link", "finger_2_link"}
MCNames == MCLinks \cup {"handle", "bench_lid", ""}
MCInitialAcm == {{"finger_1_link", "finger_2_link"}}
=============================================================================
