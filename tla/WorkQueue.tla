------------------------------- MODULE WorkQueue -------------------------------
(***************************************************************************)
(* Work queues: kernel/workqueue.c and include/linux/workqueue.h.  One     *)
(* multi-threaded work queue: a list and a worker thread for each CPU,     *)
(* contexts of any kind that queue works at once or through a timer, and   *)
(* callers that flush, cancel and destroy.                                 *)
(*                                                                         *)
(* cwq->lock is taken with interrupts off, so what a function does under   *)
(* it is one action, with one exception: set_wq_data() of                  *)
(* queue_delayed_work_on() runs without it and can come between the two    *)
(* tests of try_to_grab_pending() and flush_work(), which therefore are    *)
(* two actions that hold the lock in between.  Everything else that the    *)
(* code does without the lock is an action of its own: each use of the     *)
(* pending bit, of work->data and of the timer.                            *)
(*                                                                         *)
(* The ghosts asked and todo say what callers were promised: the works     *)
(* whose callback has to start once more, and what a flush found on entry. *)
(***************************************************************************)
EXTENDS Integers, FiniteSets, KernelList

CONSTANTS
  NCpus,
  Works,
  Delayed,  \* the works that are delayed_works
  On,       \* the CPUs each work is queued from and its timer runs on
  Cancelled, \* the works that are cancelled and waited for
  Callers,  \* tasks that flush, cancel or destroy
  Ops,      \* which of the functions each of them calls
  NULL

Cpus  == 1 .. NCpus
Items == Works \cup Callers   \* a caller stands for the wq_barrier on its stack

Flushes  == {"flush_work", "flush_delayed_work"}
Cancels  == {"cancel_work_sync", "cancel_delayed_work_sync"}
Unarms   == {"cancel_delayed_work", "__cancel_delayed_work"}
CpuLoops == {"flush_workqueue", "destroy_workqueue"}
AllOps   == Flushes \cup Cancels \cup Unarms \cup CpuLoops

ASSUME WorkQueueAssumption ==
  /\ NCpus \in Nat \ {0}
  /\ Delayed \subseteq Works
  /\ On \in [Works -> (SUBSET Cpus) \ {{}}]
  /\ Cancelled \subseteq Works
  /\ Ops \in [Callers -> SUBSET AllOps]
  /\ Works \cap Callers = {}
  /\ NULL \notin Items \cup Cpus

VARIABLES
  worklist, current_work,   \* of each CPU's cpu_workqueue_struct
  wpc, awake,     \* where each worker is; the workers in TASK_RUNNING
  should_stop,    \* the workers kthread_should_stop() tells to stop
  pending,        \* the works with WORK_STRUCT_PENDING set
  wq_data,        \* the cwq part of work->data
  timer,          \* the delayed works whose timer is pending
  queueing,       \* the contexts inside queue_work_on(), queue_delayed_work_on()
                  \* and delayed_work_timer_fn()
  call,           \* what each caller is in, with its local variables
  done,           \* the callers whose barr.done is completed
  asked, todo

cwqVars    == <<worklist, current_work>>
workerVars == <<wpc, awake, should_stop>>
workVars   == <<pending, wq_data, timer, queueing>>
callVars   == <<call, done>>
vars == <<worklist, current_work, wpc, awake, should_stop, pending, wq_data,
          timer, queueing, call, done, asked, todo>>

Idle == [op |-> "none", pc |-> "idle", work |-> NULL, cwq |-> NULL,
         cpu |-> 0, ret |-> 0]

WorkerPcs == {"prepare", "test", "schedule", "finish", "lock", "clear", "run",
              "running", "exit"}
CallPcs == {"idle", "del_timer", "grab", "data", "grab_lock", "match", "wq",
            "lock", "wait", "clear", "requeue", "fw", "fw_lock", "fw_match",
            "stop", "exited", "return"}

(* A thing a flush has to wait for: a work on a CPU's list, or one that    *)
(* the CPU's worker has taken from it.                                     *)
Pieces == Works \X Cpus \X {"list", "run"}

TypeOK ==
  /\ worklist \in [Cpus -> Seq(Items)]
  /\ current_work \in [Cpus -> Items \cup {NULL}]
  /\ wpc \in [Cpus -> WorkerPcs]
  /\ awake \subseteq Cpus /\ should_stop \subseteq Cpus
  /\ pending \subseteq Works /\ timer \subseteq Delayed /\ asked \subseteq Works
  /\ wq_data \in [Works -> Cpus \cup {NULL}]
  /\ queueing \subseteq [work : Works, cpu : Cpus,
                         step : {"insert", "data", "timer", "fn"}]
  /\ call \in [Callers -> [op : AllOps \cup {"none"}, pc : CallPcs,
                           work : Works \cup {NULL}, cwq : Cpus \cup {NULL},
                           cpu : 0 .. NCpus, ret : {-1, 0, 1}]]
  /\ done \subseteq Callers
  /\ todo \in [Callers -> SUBSET Pieces]

Init ==
  /\ worklist = [p \in Cpus |-> << >>]
  /\ current_work = [p \in Cpus |-> NULL]
  /\ wpc = [p \in Cpus |-> "prepare"]
  /\ awake = Cpus
  /\ should_stop = {}
  /\ pending = {} /\ timer = {} /\ queueing = {}
  /\ wq_data = [w \in Works |-> NULL]
  /\ call = [c \in Callers |-> Idle]
  /\ done = {} /\ asked = {}
  /\ todo = [c \in Callers |-> {}]
-------------------------------------------------------------------------------
(* Nobody holds cwq->lock between two actions. *)
Unlocked(p) ==
  ~ \E c \in Callers : call[c].pc \in {"match", "fw_match"} /\ call[c].cwq = p

(* !list_empty(&work->entry): w is on some worklist. *)
Linked(w) == \E p \in Cpus : w \in Entries(worklist[p])

(* Whoever destroys a work queue sees to it that nobody uses it any more. *)
Usable == \A p \in Cpus : wpc[p] # "exit"
          /\ ~ \E c \in Callers : call[c].op = "destroy_workqueue"

(* The caller that has taken the pending bit away from the queueing side. *)
Owns(c, w) ==
  /\ call[c].work = w
  /\ \/ call[c].op \in Cancels /\ call[c].ret >= 0
        /\ call[c].pc \in {"wq", "lock", "wait", "clear"}
     \/ call[c].op \in Unarms /\ call[c].pc = "clear"
     \/ call[c].pc = "requeue"

(* A request while the work is being cancelled is cancelled with it. *)
Asked(w) ==
  IF \E c \in Callers : Owns(c, w) /\ call[c].op \notin Flushes
  THEN asked ELSE asked \cup {w}

(* test_and_set_bit(WORK_STRUCT_PENDING) of queue_work_on(), step =        *)
(* "insert", and of queue_delayed_work_on(), step = "data".  A work that   *)
(* is pending already is left alone.                                       *)
queue_work_on(w, cpu, step) ==
  /\ Usable
  /\ cpu \in On[w] /\ (step = "data" => w \in Delayed)
  /\ asked' = Asked(w)
  /\ \/ /\ w \in pending
        /\ UNCHANGED <<pending, queueing>>
     \/ /\ w \notin pending
        /\ pending' = pending \cup {w}
        /\ queueing' = queueing \cup {[work |-> w, cpu |-> cpu, step |-> step]}
  /\ UNCHANGED <<cwqVars, workerVars, wq_data, timer, callVars, todo>>

(* Mutant of wake_up(): the worker is not woken. *)
wake_up_nobody(p) == UNCHANGED awake

(* wake_up(&cwq->more_work) *)
wake_up(p) == awake' = awake \cup {p}

(* A flush_work() makes no promise for a work that is queued elsewhere     *)
(* while it waits.                                                         *)
Moved(w, p) ==
  [c \in Callers |-> IF call[c].op \in Flushes /\ call[c].work = w /\ call[c].cwq # p
                     THEN {} ELSE todo[c]]

(* Mutant of __queue_work(): work->data is not set. *)
__queue_work_data_kept(w, p) ==
  /\ Unlocked(p)
  /\ worklist' = [worklist EXCEPT ![p] = list_add_tail(w, @)]
  /\ wake_up(p)
  /\ todo' = Moved(w, p)
  /\ UNCHANGED wq_data

(* __queue_work(): insert_work() at the tail, under cwq->lock. *)
__queue_work(w, p) ==
  /\ Unlocked(p)
  /\ wq_data' = [wq_data EXCEPT ![w] = p]
  /\ worklist' = [worklist EXCEPT ![p] = list_add_tail(w, @)]
  /\ wake_up(p)
  /\ todo' = Moved(w, p)

Insert(q) ==
  /\ q.step \in {"insert", "fn"}
  /\ __queue_work(q.work, q.cpu)
  /\ queueing' = queueing \ {q}
  /\ UNCHANGED <<current_work, wpc, should_stop, pending, timer, callVars, asked>>

(* queue_delayed_work_on() stores the cwq for the timer function, without  *)
(* a lock, and arms the timer.                                             *)
SetWqData(q) ==
  /\ q.step = "data"
  /\ wq_data' = [wq_data EXCEPT ![q.work] = q.cpu]
  /\ queueing' = (queueing \ {q}) \cup {[q EXCEPT !.step = "timer"]}
  /\ UNCHANGED <<cwqVars, workerVars, pending, timer, callVars, asked, todo>>

add_timer(q) ==
  /\ q.step = "timer"
  /\ timer' = timer \cup {q.work}
  /\ queueing' = queueing \ {q}
  /\ UNCHANGED <<cwqVars, workerVars, pending, wq_data, callVars, asked, todo>>

(* The timer expires and its function is about to call __queue_work(). *)
delayed_work_timer_fn(w, cpu) ==
  /\ w \in timer /\ cpu \in On[w]
  /\ timer' = timer \ {w}
  /\ queueing' = queueing \cup {[work |-> w, cpu |-> cpu, step |-> "fn"]}
  /\ UNCHANGED <<cwqVars, workerVars, pending, wq_data, callVars, asked, todo>>
-------------------------------------------------------------------------------
(* worker_thread(): announces the sleep, looks at the list without the     *)
(* lock, sleeps, and goes to work unless it is told to stop.               *)
prepare_to_wait(p) ==
  /\ wpc[p] = "prepare"
  /\ wpc' = [wpc EXCEPT ![p] = "test"]
  /\ awake' = awake \ {p}
  /\ UNCHANGED <<cwqVars, should_stop, workVars, callVars, asked, todo>>

WorkerTest(p) ==
  /\ wpc[p] = "test"
  /\ wpc' = [wpc EXCEPT ![p] =
       IF p \notin should_stop /\ list_empty(worklist[p]) THEN "schedule" ELSE "finish"]
  /\ UNCHANGED <<cwqVars, awake, should_stop, workVars, callVars, asked, todo>>

finish_wait(p) ==
  /\ wpc[p] = "finish" \/ (wpc[p] = "schedule" /\ p \in awake)
  /\ awake' = awake \cup {p}
  /\ wpc' = [wpc EXCEPT ![p] = IF p \in should_stop THEN "exit" ELSE "lock"]
  /\ UNCHANGED <<cwqVars, should_stop, workVars, callVars, asked, todo>>

(* A piece of work leaves the list of CPU p: finished or taken. *)
Finished(t, p) == {x \in t : ~(x[2] = p /\ x[3] = "run")}
Taken(t, w, p) ==
  IF <<w, p, "list">> \in t THEN (t \ {<<w, p, "list">>}) \cup {<<w, p, "run">>} ELSE t

(* run_workqueue() under cwq->lock: the callback that ran, if any, is      *)
(* over, and the next work is taken.                                       *)
run_workqueue(p) ==
  /\ wpc[p] \in {"lock", "running"} /\ Unlocked(p)
  /\ \/ /\ list_empty(worklist[p])
        /\ current_work' = [current_work EXCEPT ![p] = NULL]
        /\ wpc' = [wpc EXCEPT ![p] = "prepare"]
        /\ todo' = [c \in Callers |-> Finished(todo[c], p)]
        /\ UNCHANGED worklist
     \/ /\ ~list_empty(worklist[p])
        /\ LET w == list_first_entry(worklist[p])
           IN /\ current_work' = [current_work EXCEPT ![p] = w]
              /\ todo' = [c \in Callers |-> Taken(Finished(todo[c], p), w, p)]
        /\ worklist' = [worklist EXCEPT ![p] = Tail(@)]
        /\ wpc' = [wpc EXCEPT ![p] = "clear"]
  /\ UNCHANGED <<awake, should_stop, workVars, callVars, asked>>

(* Mutant of work_clear_pending(): the bit stays set until the callback is *)
(* over.                                                                   *)
work_clear_pending_late(p) ==
  /\ \/ wpc[p] = "clear" /\ wpc' = [wpc EXCEPT ![p] = "run"] /\ UNCHANGED pending
     \/ wpc[p] = "running" /\ current_work[p] \in pending
        /\ pending' = pending \ {current_work[p]} /\ UNCHANGED wpc
  /\ UNCHANGED <<cwqVars, awake, should_stop, wq_data, timer, queueing, callVars,
                 asked, todo>>

work_clear_pending(p) ==
  /\ wpc[p] = "clear"
  /\ pending' = pending \ {current_work[p]}
  /\ wpc' = [wpc EXCEPT ![p] = "run"]
  /\ UNCHANGED <<cwqVars, awake, should_stop, wq_data, timer, queueing, callVars,
                 asked, todo>>

(* f(work): the callback starts; that of a barrier is wq_barrier_func(),   *)
(* which completes barr.done.                                              *)
CallFunc(p) ==
  /\ wpc[p] = "run"
  /\ wpc' = [wpc EXCEPT ![p] = "running"]
  /\ \/ /\ current_work[p] \in Works
        /\ asked' = asked \ {current_work[p]}
        /\ UNCHANGED done
     \/ /\ current_work[p] \in Callers
        /\ done' = done \cup {current_work[p]}
        /\ UNCHANGED asked
  /\ UNCHANGED <<cwqVars, awake, should_stop, workVars, call, todo>>

Worker(p) ==
  \/ prepare_to_wait(p)
  \/ WorkerTest(p)
  \/ finish_wait(p)
  \/ run_workqueue(p)
  \/ work_clear_pending(p)
  \/ CallFunc(p)
-------------------------------------------------------------------------------
Goto(c, pc) == call' = [call EXCEPT ![c].pc = pc]

(* Link caller c's barrier before position i of CPU p's list, wake the     *)
(* worker and wait for the completion.                                     *)
insert_wq_barrier(c, p, q, i) ==
  /\ worklist' = [worklist EXCEPT ![q] =
       SubSeq(@, 1, i - 1) \o <<c>> \o SubSeq(@, i, Len(@))]
  /\ done' = done \ {c}
  /\ wake_up(p)
  /\ Goto(c, "wait")

(* Where __cancel_work_timer() starts, and starts over. *)
CancelStart(op) == IF op = "cancel_work_sync" THEN "grab" ELSE "del_timer"

(* Mutant of CpuEntry(): destroy_workqueue() stops without a flush. *)
CpuEntry_no_flush(op) == IF op = "destroy_workqueue" THEN "stop" ELSE "lock"

(* What a caller does first on each CPU: flush, or look for the work. *)
CpuEntry(op) == "lock"

(* The loops over the CPUs, and what follows them. *)
LastCpu == NCpus

NextCpu(r) ==
  IF r.cpu < LastCpu THEN [r EXCEPT !.cpu = @ + 1, !.pc = CpuEntry(r.op)]
  ELSE IF r.op \in CpuLoops THEN [r EXCEPT !.pc = "return"]
  ELSE IF r.ret < 0 THEN [r EXCEPT !.pc = CancelStart(r.op), !.cpu = 0, !.cwq = NULL, !.ret = 0]
  ELSE [r EXCEPT !.pc = "clear", !.cpu = 0, !.cwq = NULL]

(* What is on the lists of the CPUs ps and in the hands of their workers. *)
Busy(ws, ps) ==
  {x \in ws \X ps \X {"list"} : x[1] \in Entries(worklist[x[2]])}
    \cup {x \in ws \X ps \X {"run"} : x[1] = current_work[x[2]]}

(* flush_workqueue(), and destroy_workqueue() by a caller that has made    *)
(* sure that nobody uses the work queue.                                   *)
BeginCpuLoop(c, op) ==
  /\ op \in Ops[c] \cap CpuLoops /\ call[c] = Idle
  /\ Usable
  /\ op = "destroy_workqueue" =>
       queueing = {} /\ timer = {} /\ \A d \in Callers : call[d] = Idle
  /\ call' = [call EXCEPT ![c] = [Idle EXCEPT !.op = op, !.pc = CpuEntry(op), !.cpu = 1]]
  /\ todo' = [todo EXCEPT ![c] = Busy(Works, Cpus)]
  /\ UNCHANGED <<cwqVars, workerVars, workVars, done, asked>>

Begin(c, op, w) ==
  /\ op \in Ops[c] \ CpuLoops /\ call[c] = Idle
  /\ Usable
  /\ op \notin {"flush_work", "cancel_work_sync"} => w \in Delayed
  /\ op \in Cancels => w \in Cancelled
  /\ call' = [call EXCEPT ![c] = [Idle EXCEPT !.op = op, !.work = w, !.pc =
       CASE op = "flush_work" -> "fw"
         [] op \in Cancels -> CancelStart(op)
         [] OTHER -> "del_timer"]]
  /\ UNCHANGED <<cwqVars, workerVars, workVars, done, asked, todo>>

Return(c) ==
  /\ call[c].pc = "return"
  /\ call' = [call EXCEPT ![c] = Idle]
  /\ todo' = [todo EXCEPT ![c] = {}]
  /\ UNCHANGED <<cwqVars, workerVars, workVars, done, asked>>

(* Mutant of Idling(): the worker's current work is not looked at. *)
Idling_list_only(p) == list_empty(worklist[p])

Idling(p) == list_empty(worklist[p]) /\ current_work[p] = NULL

(* Mutant of CpuFlushed(): flush until nothing is queued. *)
CpuFlushed_until_idle(r) ==
  IF ~Idling(r.cpu) THEN [r EXCEPT !.pc = "lock"]
  ELSE IF r.op = "destroy_workqueue" THEN [r EXCEPT !.pc = "stop"] ELSE NextCpu(r)

(* Where a CPU's part of the loop goes on once the CPU is flushed: to      *)
(* kthread_stop() or to the next CPU.                                      *)
CpuFlushed(r) ==
  IF r.op = "destroy_workqueue" THEN [r EXCEPT !.pc = "stop"] ELSE NextCpu(r)

(* flush_cpu_workqueue() *)
flush_cpu_workqueue(c) ==
  LET p == call[c].cpu
  IN /\ call[c].pc = "lock" /\ call[c].op \in CpuLoops
     /\ Unlocked(p)
     /\ \/ /\ Idling(p)
           /\ call' = [call EXCEPT ![c] = CpuFlushed(@)]
           /\ UNCHANGED <<worklist, awake, done>>
        \/ /\ ~Idling(p)
           /\ insert_wq_barrier(c, p, p, Len(worklist[p]) + 1)
     /\ UNCHANGED <<current_work, wpc, should_stop, workVars, asked, todo>>

(* Mutant of Completed(): a signal ends the wait. *)
Completed_or_signal(c) == TRUE

Completed(c) == c \in done

(* wait_for_completion(&barr.done) returns. *)
wait_for_completion(c) ==
  /\ call[c].pc = "wait" /\ Completed(c)
  /\ done' = done \ {c}
  /\ call' = [call EXCEPT ![c] =
       IF @.op \in Flushes THEN [@ EXCEPT !.pc = "return"]
       ELSE IF @.op \in CpuLoops THEN CpuFlushed(@) ELSE NextCpu(@)]
  /\ UNCHANGED <<cwqVars, workerVars, workVars, asked, todo>>

(* kthread_stop() of the CPU's worker, and its wait for the exit. *)
kthread_stop(c) ==
  /\ call[c].pc = "stop"
  /\ should_stop' = should_stop \cup {call[c].cpu}
  /\ awake' = awake \cup {call[c].cpu}
  /\ Goto(c, "exited")
  /\ UNCHANGED <<cwqVars, wpc, workVars, done, asked, todo>>

ThreadExited(c) ==
  /\ call[c].pc = "exited" /\ wpc[call[c].cpu] = "exit"
  /\ call' = [call EXCEPT ![c] = NextCpu(@)]
  /\ UNCHANGED <<cwqVars, workerVars, workVars, done, asked, todo>>

(* __create_workqueue_key() in place of the one that was destroyed, with   *)
(* works that are initialised again.                                       *)
create_workqueue ==
  /\ \A p \in Cpus : wpc[p] = "exit"
  /\ \A c \in Callers : call[c] = Idle
  /\ wpc' = [p \in Cpus |-> "prepare"]
  /\ should_stop' = {}
  /\ worklist' = [p \in Cpus |-> << >>]
  /\ current_work' = [p \in Cpus |-> NULL]
  /\ wq_data' = [w \in Works |-> NULL]
  /\ UNCHANGED <<awake, pending, timer, queueing, callVars, asked, todo>>
-------------------------------------------------------------------------------
(* flush_work(): read the cwq, ... *)
FlushReads(c) ==
  LET p == wq_data[call[c].work]
  IN /\ call[c].pc = "fw"
     /\ call' = [call EXCEPT ![c] =
          IF p = NULL THEN [@ EXCEPT !.pc = "return"]
          ELSE [@ EXCEPT !.pc = "fw_lock", !.cwq = p]]
     /\ todo' = [todo EXCEPT ![c] = IF p = NULL THEN {} ELSE Busy({call[c].work}, {p})]
     /\ UNCHANGED <<cwqVars, workerVars, workVars, done, asked>>

(* ... lock it and see where the work is, ... *)
FlushLooks(c) ==
  LET w == call[c].work   p == call[c].cwq
  IN /\ call[c].pc = "fw_lock" /\ Unlocked(p)
     /\ \/ /\ Linked(w)
           /\ Goto(c, "fw_match")
           /\ UNCHANGED <<worklist, awake, done>>
        \/ /\ ~Linked(w) /\ current_work[p] = w
           /\ insert_wq_barrier(c, p, p, 1)
        \/ /\ ~Linked(w) /\ current_work[p] # w
           /\ Goto(c, "return")
           /\ UNCHANGED <<worklist, awake, done>>
     /\ UNCHANGED <<current_work, wpc, should_stop, workVars, asked, todo>>

(* ... and queue the barrier right behind the work, unless it moved.  With *)
(* a stale answer to the first test the entry is linked to itself, and the *)
(* barrier is linked to it and to no list.                                 *)
FlushMatches(c) ==
  LET w == call[c].work   p == call[c].cwq
  IN /\ call[c].pc = "fw_match"
     /\ \/ /\ wq_data[w] # p
           /\ Goto(c, "return")
           /\ UNCHANGED <<worklist, awake, done>>
        \/ /\ wq_data[w] = p
           /\ \E q \in Cpus :
                /\ w \in Entries(worklist[q])
                /\ insert_wq_barrier(c, p, q, Position(worklist[q], w) + 1)
        \/ /\ wq_data[w] = p /\ ~Linked(w)
           /\ Goto(c, "wait") /\ done' = done \ {c} /\ wake_up(p)
           /\ UNCHANGED worklist
     /\ UNCHANGED <<current_work, wpc, should_stop, workVars, asked, todo>>

(* del_timer() and del_timer_sync(): the latter waits for a timer function *)
(* that is running.                                                        *)
InTimerFn(w) == \E q \in queueing : q.work = w /\ q.step = "fn"

DelTimer(c) ==
  LET w == call[c].work   op == call[c].op
  IN /\ call[c].pc = "del_timer"
     /\ \/ /\ w \in timer
           /\ timer' = timer \ {w}
           /\ call' = [call EXCEPT ![c] =
                CASE op \in Cancels -> [@ EXCEPT !.ret = 1, !.pc = "wq"]
                  [] op \in Unarms -> [@ EXCEPT !.pc = "clear"]
                  [] op \in Flushes -> [@ EXCEPT !.pc = "requeue"]]
           /\ asked' = IF op \in Flushes THEN asked ELSE asked \ {w}
        \/ /\ w \notin timer
           /\ op \in {"cancel_delayed_work", "flush_delayed_work"} => ~InTimerFn(w)
           /\ Goto(c, CASE op \in Cancels -> "grab"
                        [] op \in Unarms -> "return"
                        [] op \in Flushes -> "fw")
           /\ UNCHANGED <<timer, asked>>
     /\ UNCHANGED <<cwqVars, workerVars, pending, wq_data, queueing, done, todo>>

(* flush_delayed_work() queues the work itself. *)
FlushRequeues(c) ==
  /\ call[c].pc = "requeue"
  /\ \E p \in On[call[c].work] : __queue_work(call[c].work, p)
  /\ Goto(c, "fw")
  /\ UNCHANGED <<current_work, wpc, should_stop, pending, timer, queueing, done, asked>>
-------------------------------------------------------------------------------
(* try_to_grab_pending(): take the pending bit if it is free, ... *)
GrabBit(c) ==
  LET w == call[c].work
  IN /\ call[c].pc = "grab"
     /\ pending' = pending \cup {w}
     /\ Goto(c, IF w \in pending THEN "data" ELSE "wq")
     /\ UNCHANGED <<cwqVars, workerVars, wq_data, timer, queueing, done, asked, todo>>

(* ... else read the cwq, ... *)
GrabReads(c) ==
  LET p == wq_data[call[c].work]
  IN /\ call[c].pc = "data"
     /\ call' = [call EXCEPT ![c] =
          IF p = NULL THEN [@ EXCEPT !.pc = "wq", !.ret = -1]
          ELSE [@ EXCEPT !.pc = "grab_lock", !.cwq = p]]
     /\ UNCHANGED <<cwqVars, workerVars, workVars, done, asked, todo>>

(* ... lock it, see whether the work is on a list ... *)
GrabLooks(c) ==
  LET w == call[c].work   p == call[c].cwq
  IN /\ call[c].pc = "grab_lock" /\ Unlocked(p)
     /\ call' = [call EXCEPT ![c] =
          IF Linked(w) THEN [@ EXCEPT !.pc = "match"]
          ELSE [@ EXCEPT !.pc = "wq", !.ret = -1]]
     /\ UNCHANGED <<cwqVars, workerVars, workVars, done, asked, todo>>

(* Mutant of Matches(): the cwq is not compared again. *)
Matches_untested(w, p) == TRUE

Matches(w, p) == wq_data[w] = p

(* ... and on this one: then it is stolen, with its pending bit. *)
GrabMatches(c) ==
  LET w == call[c].work   p == call[c].cwq
  IN /\ call[c].pc = "match"
     /\ \/ /\ Matches(w, p)
           /\ worklist' = [q \in Cpus |->
                IF w \in Entries(worklist[q]) THEN list_del(worklist[q], w) ELSE worklist[q]]
           /\ call' = [call EXCEPT ![c].pc = "wq", ![c].ret = 1]
           /\ asked' = asked \ {w}
           /\ todo' = [d \in Callers |->
                {x \in todo[d] : ~(x[1] = w /\ x[3] = "list")}]
        \/ /\ ~Matches(w, p)
           /\ call' = [call EXCEPT ![c].pc = "wq", ![c].ret = -1]
           /\ UNCHANGED <<worklist, asked, todo>>
     /\ UNCHANGED <<current_work, workerVars, workVars, done>>

(* Mutant of FirstCpu(): only the last CPU is looked at. *)
FirstCpu_last == NCpus

(* wait_on_work(): every CPU of the work queue the work was last on. *)
FirstCpu == 1

wait_on_work(c) ==
  /\ call[c].pc = "wq"
  /\ call' = [call EXCEPT ![c] =
       IF wq_data[@.work] = NULL THEN NextCpu([@ EXCEPT !.cpu = LastCpu])
       ELSE [@ EXCEPT !.pc = "lock", !.cpu = FirstCpu, !.cwq = NULL]]
  /\ UNCHANGED <<cwqVars, workerVars, workVars, done, asked, todo>>

(* The barrier comes before everything queued. *)
wait_on_cpu_work(c) ==
  LET p == call[c].cpu
  IN /\ call[c].pc = "lock" /\ call[c].op \in Cancels
     /\ Unlocked(p)
     /\ \/ /\ current_work[p] = call[c].work
           /\ insert_wq_barrier(c, p, p, 1)
        \/ /\ current_work[p] # call[c].work
           /\ call' = [call EXCEPT ![c] = NextCpu(@)]
           /\ UNCHANGED <<worklist, awake, done>>
     /\ UNCHANGED <<current_work, wpc, should_stop, workVars, asked, todo>>

(* work_clear_pending() at the end of __cancel_work_timer() and of         *)
(* cancel_delayed_work().                                                  *)
CancelClears(c) ==
  /\ call[c].pc = "clear"
  /\ pending' = pending \ {call[c].work}
  /\ call' = [call EXCEPT ![c] = Idle]
  /\ UNCHANGED <<cwqVars, workerVars, wq_data, timer, queueing, done, asked, todo>>

Caller(c) ==
  \/ flush_cpu_workqueue(c) \/ wait_for_completion(c) \/ kthread_stop(c)
  \/ ThreadExited(c) \/ Return(c)
  \/ FlushReads(c) \/ FlushLooks(c) \/ FlushMatches(c) \/ FlushRequeues(c)
  \/ DelTimer(c)
  \/ GrabBit(c) \/ GrabReads(c) \/ GrabLooks(c) \/ GrabMatches(c)
  \/ wait_on_work(c) \/ wait_on_cpu_work(c) \/ CancelClears(c)

Next ==
  \/ \E w \in Works, p \in Cpus, step \in {"insert", "data"} : queue_work_on(w, p, step)
  \/ \E q \in queueing : Insert(q) \/ SetWqData(q) \/ add_timer(q)
  \/ \E w \in Delayed, p \in Cpus : delayed_work_timer_fn(w, p)
  \/ \E p \in Cpus : Worker(p)
  \/ \E c \in Callers : Caller(c)
  \/ \E c \in Callers, op \in CpuLoops : BeginCpuLoop(c, op)
  \/ \E c \in Callers, op \in AllOps, w \in Works : Begin(c, op, w)
  \/ create_workqueue

Spec == Init /\ [][Next]_vars
-------------------------------------------------------------------------------
(* Who has work w's pending bit: a context that is queueing it, its timer, *)
(* a list, a worker that has just taken it, or a caller that has grabbed   *)
(* it.                                                                     *)
Holders(w) ==
  {<<"queueing", q.cpu, q.step>> : q \in {r \in queueing : r.work = w}}
    \cup {<<"timer">> : d \in {w} \cap timer}
    \cup (UNION {{<<"list", p, i>> : i \in {j \in 1 .. Len(worklist[p]) :
                                           worklist[p][j] = w}} : p \in Cpus})
    \cup {<<"taken", p>> : p \in {q \in Cpus : wpc[q] = "clear" /\ current_work[q] = w}}
    \cup {<<"owned", c>> : c \in {d \in Callers : Owns(d, w)}}

(* The pending bit is a token: while it is set exactly one party has the   *)
(* work, and none while it is clear.  So a work is never linked twice,     *)
(* armed while it is queued, or re-armed under a caller that cancels it    *)
(* (workqueue.c:122, 199, 251-252, 470-473).                               *)
PendingIsToken ==
  \A w \in Works : Cardinality(Holders(w)) = IF w \in pending THEN 1 ELSE 0

(* The worker finds its own cwq in the work it took, although work->data   *)
(* is written by others without its lock (workqueue.c:296).                *)
RunsWhereQueued ==
  \A p \in Cpus : wpc[p] = "clear" /\ current_work[p] \in Works
                    => wq_data[current_work[p]] = p

(* A flush has waited for everything that it found on entry, and           *)
(* flush_work() for the work where it was last queued (workqueue.c:397-401,*)
(* 418-428).                                                               *)
FlushComplete ==
  \A c \in Callers :
    /\ call[c].op = "flush_workqueue" =>
         \A x \in todo[c] : x[2] >= call[c].cpu /\ call[c].pc # "return"
    /\ call[c].op \in Flushes /\ call[c].pc = "return" => todo[c] = {}

(* When a synchronous cancel lets go of the pending bit the work is on no  *)
(* list, no timer is armed for it and its callback does not run anywhere   *)
(* (workqueue.c:565-585, 591-600).                                         *)
CancelComplete ==
  \A c \in Callers :
    call[c].op \in Cancels /\ call[c].pc = "clear" =>
      LET w == call[c].work
      IN /\ ~Linked(w) /\ w \notin timer
         /\ \A q \in queueing : q.work # w
         /\ \A p \in Cpus : current_work[p] # w

(* A barrier lives on its caller's stack: as long as a list or a worker    *)
(* still has to run it, the caller waits for it (workqueue.c:376, 366-370).*)
BarrierAlive ==
  \A c \in Callers, p \in Cpus :
    (c \in Entries(worklist[p]) \/ (wpc[p] \in {"clear", "run"} /\ current_work[p] = c))
      => call[c].pc = "wait" /\ c \notin done

(* A worker that sleeps has nothing to do or has been woken, so the        *)
(* unlocked look at the list loses no wakeup (workqueue.c:330-334).        *)
NoLostWakeup ==
  \A p \in Cpus : wpc[p] = "schedule" /\ p \notin awake
                    => list_empty(worklist[p]) /\ p \notin should_stop

(* When destroy_workqueue() has stopped a worker all its work is done      *)
(* (workqueue.c:939).                                                      *)
DestroyComplete ==
  \A p \in Cpus : wpc[p] = "exit" => list_empty(worklist[p])

(* A request is never lost: once queue_work() or queue_delayed_work() was  *)
(* called, even when it found the work pending, the callback starts again, *)
(* unless the work is cancelled (workqueue.c:297-300).                     *)
RequestServed == \A w \in Works : w \in asked ~> w \notin asked

(* flush_workqueue() returns, whatever is queued meanwhile: "we are not    *)
(* livelocked by new incoming ones" (workqueue.c:401).                     *)
FlushReturns ==
  \A c \in Callers : call[c].op = "flush_workqueue" ~> call[c].op # "flush_workqueue"
-------------------------------------------------------------------------------
(* What takes cwq->lock. *)
Locks(c) ==
  flush_cpu_workqueue(c) \/ FlushLooks(c) \/ GrabLooks(c) \/ wait_on_cpu_work(c)
    \/ FlushRequeues(c)

Queues(w) ==
  \E q \in queueing : q.work = w /\ (Insert(q) \/ SetWqData(q) \/ add_timer(q))

(* Workers, callers and contexts that can run do, callbacks return and     *)
(* timers expire.  Spinlocks are handed out in turn (ticket locks), so     *)
(* whoever wants cwq->lock gets it although others take it again and       *)
(* again.                                                                  *)
FairSpec ==
  /\ Spec
  /\ \A p \in Cpus : WF_vars(Worker(p)) /\ SF_vars(run_workqueue(p))
  /\ \A c \in Callers : WF_vars(Caller(c)) /\ SF_vars(Locks(c))
  /\ \A w \in Works : SF_vars(Queues(w))
  /\ \A w \in Delayed : WF_vars(\E p \in Cpus : delayed_work_timer_fn(w, p))
===============================================================================
