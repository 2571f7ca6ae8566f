------------------------------ MODULE MCWorkQueue ------------------------------
(* Small instances of WorkQueue for TLC.                                   *)
EXTENDS WorkQueue, TLC

CONSTANTS w1, d1, c1, c2

(* A plain work that is queued from both CPUs and a delayed work that      *)
(* stays on one; one caller of everything.                                 *)
OnOneOrBoth == (w1 :> {1, 2}) @@ (d1 :> {1})
Everything  == c1 :> AllOps

(* A delayed work on one CPU; two callers in each other's way. *)
OnOne      == d1 :> {1}
TwoCallers ==
  (c1 :> {"flush_workqueue", "flush_work", "cancel_work_sync"})
    @@ (c2 :> {"flush_workqueue", "cancel_delayed_work_sync", "flush_delayed_work"})

(* A delayed work that moves between CPUs while it is cancelled. *)
OnBoth     == d1 :> {1, 2}
CancelOnly == c1 :> {"cancel_delayed_work_sync"}
===============================================================================
