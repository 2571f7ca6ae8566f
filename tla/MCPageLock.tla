------------------------------- MODULE MCPageLock -------------------------------
(* A small instance of PageLock for TLC. *)
EXTENDS PageLock, TLC

Symmetry == Permutations(Tasks) \cup Permutations(Pages)
===============================================================================
