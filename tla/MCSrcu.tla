--------------------------------- MODULE MCSrcu ---------------------------------
(* A small instance of Srcu for TLC. *)
EXTENDS Srcu, TLC

Symmetric ==
  Permutations(Readers) \cup Permutations(Updaters)
    \cup Permutations(Cpus) \cup Permutations(Idx)
===============================================================================
