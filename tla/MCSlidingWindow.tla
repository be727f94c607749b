-------------------------- MODULE MCSlidingWindow --------------------------
(***************************************************************************)
(* SlidingWindow on small instances.                                       *)
(***************************************************************************)
EXTENDS SlidingWindow, TLC

(* Keys are interchangeable: they are hashes. *)
Symmetry == Permutations(Keys)
=============================================================================
