----------------------------- MODULE RwSemSpinlock -----------------------------
(***************************************************************************)
(* The generic reader/writer semaphore: lib/rwsem-spinlock.c.              *)
(*                                                                         *)
(* Everything but a waiter's test of waiter.task is done under wait_lock,  *)
(* so each function is one action, but for the wait.  A waiter let go in   *)
(* the middle of __rwsem_do_wake() can touch nothing of the semaphore      *)
(* before wait_lock is dropped; what it may notice, a wakeup after it has  *)
(* left, is a stray wakeup.                                                *)
(***************************************************************************)
EXTENDS TaskSleep, KernelList, Integers, FiniteSets

ASSUME RwSemSpinlockAssumption == IsFiniteSet(Tasks)

VARIABLES
  activity,   \* the number of readers, or -1 for a writer
  wait_list,
  flags,      \* waiter.flags: what each task has asked for
  ungranted,  \* the tasks whose waiter.task is not NULL
  pc

vars == <<activity, wait_list, flags, ungranted, pc, taskVars>>

PCs == {"idle", "read", "write", "wait", "schedule"}

TypeOK ==
  /\ TaskTypeOK
  /\ activity \in Int /\ activity >= -1
  /\ wait_list \in Seq(Tasks)
  /\ flags \in [Tasks -> {"READ", "WRITE"}]
  /\ ungranted \in SUBSET Tasks
  /\ pc \in [Tasks -> PCs]

__init_rwsem ==
  /\ activity = 0
  /\ wait_list = << >>

Init ==
  /\ TaskInit
  /\ __init_rwsem
  /\ flags = [t \in Tasks |-> "READ"]
  /\ ungranted = {}
  /\ pc = [t \in Tasks |-> "idle"]

Goto(t, to) == pc' = [pc EXCEPT ![t] = to]
-------------------------------------------------------------------------------
(* Mutant of LetGo(): wake_up_process() is left out. *)
LetGo_no_wakeup(n) ==
  /\ wait_list' = SubSeq(wait_list, n + 1, Len(wait_list))
  /\ ungranted' = ungranted \ {wait_list[i] : i \in 1 .. n}
  /\ UNCHANGED state

(* Take the first n waiters off the list, zero their ->task and wake them. *)
LetGo(n) ==
  LET served == {wait_list[i] : i \in 1 .. n}
  IN /\ wait_list' = SubSeq(wait_list, n + 1, Len(wait_list))
     /\ ungranted' = ungranted \ served
     /\ state' = [t \in Tasks |-> IF t \in served THEN "RUNNING" ELSE state[t]]

Nobody == UNCHANGED <<wait_list, ungranted, state>>

(* Mutant of FrontReaders: one reader at a time. *)
FrontReaders_one == IF flags[list_first_entry(wait_list)] = "READ" THEN 1 ELSE 0

(* The number of readers at the front of the list. *)
FrontReaders ==
  CHOOSE n \in 0 .. Len(wait_list) :
    /\ \A i \in 1 .. n : flags[wait_list[i]] = "READ"
    /\ n < Len(wait_list) => flags[wait_list[n + 1]] = "WRITE"

(* Mutant of __rwsem_do_wake(): activity = woken instead of +=. *)
__rwsem_do_wake_overwrites(active, wakewrite) ==
  LET front == flags[list_first_entry(wait_list)]
  IN \/ front = "WRITE" /\ wakewrite /\ activity' = -1 /\ LetGo(1)
     \/ front = "WRITE" /\ ~wakewrite /\ activity' = active /\ Nobody
     \/ front = "READ" /\ activity' = FrontReaders /\ LetGo(FrontReaders)

(* __rwsem_do_wake() with the activity its caller has just set. *)
__rwsem_do_wake(active, wakewrite) ==
  LET front == flags[list_first_entry(wait_list)]
  IN \/ front = "WRITE" /\ wakewrite /\ activity' = -1 /\ LetGo(1)
     \/ front = "WRITE" /\ ~wakewrite /\ activity' = active /\ Nobody
     \/ /\ front = "READ"
        /\ activity' = active + FrontReaders /\ LetGo(FrontReaders)

(* It takes the first waiter for a writer without looking at its flags. *)
__rwsem_wake_one_writer == activity' = -1 /\ LetGo(1)
-------------------------------------------------------------------------------
(* The end of a down that cannot be granted: queue the waiter. *)
Enqueue(t) ==
  /\ set_task_state(t, "UNINTERRUPTIBLE")
  /\ ungranted' = ungranted \cup {t}
  /\ wait_list' = list_add_tail(t, wait_list)
  /\ Goto(t, "wait")
  /\ UNCHANGED activity

(* Mutant of ReadGrantable: readers join the readers past the queue. *)
ReadGrantable_unfair == activity >= 0

ReadGrantable  == activity >= 0 /\ list_empty(wait_list)
WriteGrantable == activity = 0 /\ list_empty(wait_list)

__down_read(t) ==
  /\ pc[t] = "idle"
  /\ flags' = [flags EXCEPT ![t] = "READ"]
  /\ \/ ReadGrantable /\ activity' = activity + 1 /\ Goto(t, "read") /\ Nobody
     \/ ~ReadGrantable /\ Enqueue(t)
  /\ UNCHANGED sigpend

__down_read_trylock(t) ==
  /\ pc[t] = "idle" /\ ReadGrantable
  /\ flags' = [flags EXCEPT ![t] = "READ"]
  /\ activity' = activity + 1
  /\ Goto(t, "read")
  /\ Nobody /\ UNCHANGED sigpend

__down_write_nested(t) ==
  /\ pc[t] = "idle"
  /\ flags' = [flags EXCEPT ![t] = "WRITE"]
  /\ \/ WriteGrantable /\ activity' = -1 /\ Goto(t, "write") /\ Nobody
     \/ ~WriteGrantable /\ Enqueue(t)
  /\ UNCHANGED sigpend

__down_write_trylock(t) ==
  /\ pc[t] = "idle" /\ WriteGrantable
  /\ flags' = [flags EXCEPT ![t] = "WRITE"]
  /\ activity' = -1
  /\ Goto(t, "write")
  /\ Nobody /\ UNCHANGED sigpend

(* The wait for waiter.task to become NULL: test it, ... *)
WaitTest(t) ==
  /\ pc[t] = "wait"
  /\ IF t \in ungranted
     THEN Goto(t, "schedule") /\ UNCHANGED state
     ELSE /\ Goto(t, IF flags[t] = "READ" THEN "read" ELSE "write")
          /\ set_task_state(t, "RUNNING")
  /\ UNCHANGED <<activity, wait_list, flags, ungranted, sigpend>>

(* ... sleep, and announce the next sleep before the next test. *)
WaitSchedule(t) ==
  /\ pc[t] = "schedule" /\ schedule_returns(t)
  /\ set_task_state(t, "UNINTERRUPTIBLE")
  /\ Goto(t, "wait")
  /\ UNCHANGED <<activity, wait_list, flags, ungranted, sigpend>>

__up_read(t) ==
  /\ pc[t] = "read"
  /\ Goto(t, "idle")
  /\ IF activity - 1 = 0 /\ ~list_empty(wait_list)
     THEN __rwsem_wake_one_writer
     ELSE activity' = activity - 1 /\ Nobody
  /\ UNCHANGED <<flags, sigpend>>

__up_write(t) ==
  /\ pc[t] = "write"
  /\ Goto(t, "idle")
  /\ IF list_empty(wait_list) THEN activity' = 0 /\ Nobody
                              ELSE __rwsem_do_wake(0, TRUE)
  /\ UNCHANGED <<flags, sigpend>>

(* Mutant of __downgrade_write(): activity is left at -1. *)
__downgrade_write_still_writer(t) ==
  /\ pc[t] = "write"
  /\ Goto(t, "read")
  /\ IF list_empty(wait_list) THEN activity' = activity /\ Nobody
                              ELSE __rwsem_do_wake(activity, FALSE)
  /\ flags' = [flags EXCEPT ![t] = "READ"]
  /\ UNCHANGED sigpend

(* Mutant of __downgrade_write(): the readers at the front go on waiting. *)
__downgrade_write_no_wake(t) ==
  /\ pc[t] = "write"
  /\ Goto(t, "read")
  /\ activity' = 1 /\ Nobody
  /\ flags' = [flags EXCEPT ![t] = "READ"]
  /\ UNCHANGED sigpend

__downgrade_write(t) ==
  /\ pc[t] = "write"
  /\ Goto(t, "read")
  /\ IF list_empty(wait_list) THEN activity' = 1 /\ Nobody
                              ELSE __rwsem_do_wake(1, FALSE)
  /\ flags' = [flags EXCEPT ![t] = "READ"]
  /\ UNCHANGED sigpend

Stray(t) ==
  StrayWakeup(t) /\ UNCHANGED <<activity, wait_list, flags, ungranted, pc>>

Step(t) == WaitTest(t) \/ WaitSchedule(t) \/ __up_read(t) \/ __up_write(t)

Next ==
  \E t \in Tasks :
    \/ __down_read(t) \/ __down_read_trylock(t)
    \/ __down_write_nested(t) \/ __down_write_trylock(t)
    \/ Step(t) \/ __downgrade_write(t) \/ Stray(t)

Spec == Init /\ [][Next]_vars

(* A task that can run does, and a holder lets go in the end. *)
FairSpec == Spec /\ \A t \in Tasks : WF_vars(Step(t))
-------------------------------------------------------------------------------
InWait(t)   == pc[t] \in {"wait", "schedule"}
Holds(t, f) ==
  flags[t] = f /\ (pc[t] \in {"read", "write"} \/ (InWait(t) /\ t \notin ungranted))
Readers == {t \in Tasks : Holds(t, "READ")}
Writers == {t \in Tasks : Holds(t, "WRITE")}

(* activity counts the readers, or is -1 for exactly one writer, from the  *)
(* grant by another task on, so a writer never meets a reader: six         *)
(* functions keep it (rwsem-spinlock.c:68-97, 112, 137, 203, 269-301).     *)
ActivityExact ==
  \/ activity = Cardinality(Readers) /\ Writers = {}
  \/ activity = -1 /\ Readers = {} /\ Cardinality(Writers) = 1

(* Whoever is first in the queue could not be let in: a writer has the    *)
(* semaphore, or readers have it and he is a writer.  So no wakeup is      *)
(* missing (the property rwsem.c loses in the window of its undo), and     *)
(* __up_read() may hand the semaphore to the first waiter as to a writer   *)
(* without looking at its flags (rwsem-spinlock.c:114, 269, 285, 302).     *)
FrontMustWait ==
  ~list_empty(wait_list) =>
    \/ activity = -1
    \/ activity > 0 /\ flags[list_first_entry(wait_list)] = "WRITE"

(* The list links exactly the waiters on the stacks of tasks that were not *)
(* let go, and a task let go is awake for its last test                    *)
(* (rwsem-spinlock.c:71-75, 83-90, 156-161).                               *)
WaitersExact ==
  /\ NoDuplicates(wait_list)
  /\ Entries(wait_list) = ungranted
  /\ \A t \in ungranted : InWait(t)
  /\ \A t \in Tasks : pc[t] = "schedule" /\ t \notin ungranted => schedule_returns(t)

(* Grants made by other tasks, out of turn as they look in the code, add   *)
(* up to one fair queue: whoever is at the front and compatible with the   *)
(* holders has been let in, readers together, and nobody else              *)
(* (rwsem-spinlock.c:52-119, 137, 203, 269, 285, 302).                     *)
Lock == INSTANCE FairRwLock WITH
  reading <- Readers,
  writing <- Writers,
  queue   <- [i \in 1 .. Len(wait_list) |-> <<wait_list[i], flags[wait_list[i]]>>]

IsFairLock == Lock!Spec

(* Neither readers nor writers starve: whoever queues is served. *)
WaiterServed == \A t \in Tasks : t \in ungranted ~> t \notin ungranted
===============================================================================
