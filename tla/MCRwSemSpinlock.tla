---------------------------- MODULE MCRwSemSpinlock ----------------------------
(* A small instance of RwSemSpinlock for TLC. *)
EXTENDS RwSemSpinlock, TLC

===============================================================================
