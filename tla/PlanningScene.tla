--------------------------- MODULE PlanningScene ---------------------------
(***************************************************************************)
(* The allowed collision matrix (ACM) of MoveIt's planning scene, the one  *)
(* piece of state that run_demo and acm_modifier_node both write.          *)
(*                                                                         *)
(* A matrix is the set of the unordered pairs of names between which       *)
(* collisions are allowed, that is, not checked.  A pair whose entry is    *)
(* NEVER and a pair without an entry are both checked, so both are absent. *)
(* The matrix and its two services belong to move_group, which is not in   *)
(* this repository: both clients read the whole matrix, change entries of  *)
(* their copy and send the whole copy back, so a write replaces the matrix.*)
(***************************************************************************)

\* The pairs that a call of setEntry(link, name, allowed) for each link touches.
PairsWith(links, name) == {{link, name} : link \in links}

\* AllowedCollisionMatrix::setEntry(link1, link2, allowed) on each pair.
SetEntries(acm, pairs, allowed) ==
  IF allowed THEN acm \cup pairs ELSE acm \ pairs

\* The matrix says `allowed' of every one of the pairs.
Says(acm, pairs, allowed) ==
  IF allowed THEN pairs \subseteq acm ELSE pairs \cap acm = {}
=============================================================================
