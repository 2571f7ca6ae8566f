-------------------------------- MODULE MCMutex --------------------------------
(* A small instance of Mutex for TLC; Init chooses the fast path. *)
EXTENDS Mutex, TLC

TaskSymmetry == Permutations(Tasks)

===============================================================================
