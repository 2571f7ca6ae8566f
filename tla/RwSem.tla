--------------------------------- MODULE RwSem ---------------------------------
(***************************************************************************)
(* Reader/writer semaphores by exchange-and-add: lib/rwsem.c over the x86  *)
(* fast paths of arch/x86/include/asm/rwsem.h and the assembler wrapper of *)
(* rwsem_wake().                                                           *)
(*                                                                         *)
(* count is changed by locked instructions with and without wait_lock, and *)
(* a waiter tests waiter.task without it, so an action makes at most one   *)
(* access to count and one to a waiter.task.  The wait list is touched     *)
(* under wait_lock only.  Every sleep is uninterruptible: signals play no  *)
(* part, and sigpend never changes.                                        *)
(***************************************************************************)
EXTENDS TaskSleep, KernelList, Integers, FiniteSets

CONSTANTS
  NULL,
  RWSEM_ACTIVE_MASK, \* the bits of count that count active lockers
  WAKE_MASK          \* the bits of its old value that call_rwsem_wake tests

ASSUME RwSemAssumption ==
  /\ NULL \notin Tasks
  /\ IsFiniteSet(Tasks)
  /\ RWSEM_ACTIVE_MASK \in Nat /\ Cardinality(Tasks) < RWSEM_ACTIVE_MASK
  /\ WAKE_MASK \in 1 .. RWSEM_ACTIVE_MASK
  /\ (RWSEM_ACTIVE_MASK + 1) % (WAKE_MASK + 1) = 0

VARIABLES
  count,
  wait_lock,  \* who holds sem->wait_lock
  wait_list,  \* the waiters linked on sem->wait_list
  flags,      \* waiter.flags: what each task has asked for
  ungranted,  \* the tasks whose waiter.task is not NULL
  pc,
  caller,     \* where the task in __rwsem_do_wake() returns to
  next, loop, \* its locals: the waiter to grant next, how many are left
  tsk,        \* and the task it is about to wake
  undone      \* history: an undo has left no active locker behind

lockVars == <<wait_lock, caller>>
wakeVars == <<next, loop, tsk>>
vars == <<count, wait_list, flags, ungranted, pc, undone, lockVars, wakeVars,
          taskVars>>

RWSEM_UNLOCKED_VALUE    == 0
RWSEM_ACTIVE_BIAS       == 1
RWSEM_WAITING_BIAS      == -RWSEM_ACTIVE_MASK - 1
RWSEM_ACTIVE_READ_BIAS  == RWSEM_ACTIVE_BIAS
RWSEM_ACTIVE_WRITE_BIAS == RWSEM_WAITING_BIAS + RWSEM_ACTIVE_BIAS

(* c & RWSEM_ACTIVE_MASK *)
ActivePart(c) == c % (RWSEM_ACTIVE_MASK + 1)

Flags == {"READ", "WRITE"}
PCs == {"idle", "read", "write", "failed", "wait", "schedule", "wake",
        "downgrade_wake", "try_again", "undo", "grant_writer",
        "readers_only", "grant_reader", "wake_task"}
Callers == {"idle", "wait", "read"}

TypeOK ==
  /\ TaskTypeOK
  /\ count \in Int
  /\ wait_lock \in Tasks \cup {NULL}
  /\ wait_list \in Seq(Tasks)
  /\ flags \in [Tasks -> Flags]
  /\ ungranted \in SUBSET Tasks
  /\ pc \in [Tasks -> PCs]
  /\ caller \in Callers
  /\ next \in Nat /\ loop \in Nat
  /\ tsk \in Tasks \cup {NULL}
  /\ undone \in BOOLEAN

__init_rwsem ==
  /\ count = RWSEM_UNLOCKED_VALUE
  /\ wait_lock = NULL
  /\ wait_list = << >>

Init ==
  /\ TaskInit
  /\ __init_rwsem
  /\ flags = [t \in Tasks |-> "READ"]
  /\ ungranted = {}
  /\ pc = [t \in Tasks |-> "idle"]
  /\ caller = "idle"
  /\ next = 1 /\ loop = 0 /\ tsk = NULL
  /\ undone = FALSE

Goto(t, to) == pc' = [pc EXCEPT ![t] = to]
Ask(t, f)   == flags' = [flags EXCEPT ![t] = f]

slowVars == <<wait_list, ungranted, undone, lockVars, wakeVars, taskVars>>
-------------------------------------------------------------------------------
(* inc; jns *)
__down_read(t) ==
  /\ pc[t] = "idle"
  /\ Ask(t, "READ")
  /\ count' = count + RWSEM_ACTIVE_READ_BIAS
  /\ Goto(t, IF count + RWSEM_ACTIVE_READ_BIAS >= 0 THEN "read" ELSE "failed")
  /\ UNCHANGED slowVars

(* The compare-and-exchange loop, when it succeeds. *)
__down_read_trylock(t) ==
  /\ pc[t] = "idle"
  /\ count + RWSEM_ACTIVE_READ_BIAS > 0
  /\ Ask(t, "READ")
  /\ count' = count + RWSEM_ACTIVE_READ_BIAS
  /\ Goto(t, "read")
  /\ UNCHANGED slowVars

__down_write(t) ==
  /\ pc[t] = "idle"
  /\ Ask(t, "WRITE")
  /\ count' = count + RWSEM_ACTIVE_WRITE_BIAS
  /\ Goto(t, IF count = 0 THEN "write" ELSE "failed")
  /\ UNCHANGED slowVars

__down_write_trylock(t) ==
  /\ pc[t] = "idle"
  /\ count = RWSEM_UNLOCKED_VALUE
  /\ Ask(t, "WRITE")
  /\ count' = RWSEM_ACTIVE_WRITE_BIAS
  /\ Goto(t, "write")
  /\ UNCHANGED slowVars

(* call_rwsem_wake decrements (part of) the old value the xadd has left in *)
(* %dx and does nothing if other active lockers remain.                    *)
call_rwsem_wake(t) ==
  Goto(t, IF count % (WAKE_MASK + 1) = 1 THEN "wake" ELSE "idle")

__up_read(t) ==
  /\ pc[t] = "read"
  /\ count' = count - RWSEM_ACTIVE_READ_BIAS
  /\ IF count' >= 0 THEN Goto(t, "idle") ELSE call_rwsem_wake(t)
  /\ UNCHANGED <<flags, slowVars>>

__up_write(t) ==
  /\ pc[t] = "write"
  /\ count' = count - RWSEM_ACTIVE_WRITE_BIAS
  /\ IF count' = 0 THEN Goto(t, "idle") ELSE call_rwsem_wake(t)
  /\ UNCHANGED <<flags, slowVars>>

__downgrade_write(t) ==
  /\ pc[t] = "write"
  /\ Ask(t, "READ")
  /\ count' = count - RWSEM_WAITING_BIAS
  /\ Goto(t, IF count' >= 0 THEN "read" ELSE "downgrade_wake")
  /\ UNCHANGED slowVars
-------------------------------------------------------------------------------
(* Enter __rwsem_do_wake() with wait_lock held, at a label. *)
DoWake(t, label, back) ==
  /\ wait_lock' = t
  /\ caller' = back
  /\ Goto(t, label)

(* Never enter it: wait_lock is taken and dropped again. *)
DontWake(t, back) == Goto(t, back) /\ UNCHANGED lockVars

(* Leave it: its locals are gone, the caller drops wait_lock and goes on. *)
Out(t) ==
  /\ Goto(t, caller)
  /\ wait_lock' = NULL /\ caller' = "idle"
  /\ next' = 1 /\ loop' = 0 /\ tsk' = NULL

FrontIs(f) == flags[list_first_entry(wait_list)] = f

(* Mutant of adjustment(): a queued reader is treated like a writer. *)
adjustment_no_waiting_bias(t) == -RWSEM_ACTIVE_BIAS

adjustment(t) ==
  IF flags[t] = "READ" THEN RWSEM_WAITING_BIAS - RWSEM_ACTIVE_BIAS
                       ELSE -RWSEM_ACTIVE_BIAS

(* Mutant: "if there are no active locks, wake the front" is left out. *)
rwsem_down_failed_common_no_wake(t) ==
  /\ pc[t] = "failed" /\ wait_lock = NULL
  /\ set_task_state(t, "UNINTERRUPTIBLE")
  /\ ungranted' = ungranted \cup {t}
  /\ wait_list' = list_add_tail(t, wait_list)
  /\ count' = count + adjustment(t)
  /\ DontWake(t, "wait")
  /\ UNCHANGED <<flags, undone, wakeVars, sigpend>>

(* rwsem_down_failed_common() to the end of its critical section.  The     *)
(* task's state is set just before; a wakeup in between has the same       *)
(* effect right after.                                                     *)
rwsem_down_failed_common(t) ==
  /\ pc[t] = "failed" /\ wait_lock = NULL
  /\ set_task_state(t, "UNINTERRUPTIBLE")
  /\ ungranted' = ungranted \cup {t}
  /\ wait_list' = list_add_tail(t, wait_list)
  /\ count' = count + adjustment(t)
  /\ IF ActivePart(count') = 0 THEN DoWake(t, "try_again", "wait")
                               ELSE DontWake(t, "wait")
  /\ UNCHANGED <<flags, undone, wakeVars, sigpend>>

rwsem_wake(t) ==
  /\ pc[t] = "wake" /\ wait_lock = NULL
  /\ IF list_empty(wait_list) THEN DontWake(t, "idle")
                              ELSE DoWake(t, "try_again", "idle")
  /\ UNCHANGED <<count, flags, wait_list, ungranted, undone, wakeVars, taskVars>>

(* Up to and with the test at dont_wake_writers. *)
rwsem_downgrade_wake(t) ==
  /\ pc[t] = "downgrade_wake" /\ wait_lock = NULL
  /\ IF list_empty(wait_list) \/ FrontIs("WRITE")
     THEN DontWake(t, "read") ELSE DoWake(t, "readers_only", "read")
  /\ UNCHANGED <<count, flags, wait_list, ungranted, undone, wakeVars, taskVars>>

(* Mutant of try_again(): 16 bits of the active part are looked at. *)
try_again_short_mask(t) ==
  /\ pc[t] = "try_again"
  /\ count' = count + RWSEM_ACTIVE_BIAS
  /\ Goto(t, IF count % (WAKE_MASK + 1) # 0 THEN "undo"
             ELSE IF FrontIs("WRITE") THEN "grant_writer" ELSE "readers_only")
  /\ UNCHANGED <<flags, slowVars>>

try_again(t) ==
  /\ pc[t] = "try_again"
  /\ count' = count + RWSEM_ACTIVE_BIAS
  /\ Goto(t, IF ActivePart(count) # 0 THEN "undo"
             ELSE IF FrontIs("WRITE") THEN "grant_writer" ELSE "readers_only")
  /\ UNCHANGED <<flags, slowVars>>

(* "undo the change to count, but check for a transition 1->0": the test   *)
(* is of the whole count, which is never 0 with somebody queued.           *)
undo(t) ==
  /\ pc[t] = "undo"
  /\ count' = count - RWSEM_ACTIVE_BIAS
  /\ undone' = (undone \/ ActivePart(count') = 0)
  /\ IF count' # 0 THEN Out(t)
                   ELSE Goto(t, "try_again") /\ UNCHANGED <<lockVars, wakeVars>>
  /\ UNCHANGED <<flags, wait_list, ungranted, taskVars>>

(* The writer at the front gets the semaphore: unlink it, then zero its    *)
(* waiter.task, after which its waiter may be gone.                        *)
GrantWriter(t) ==
  /\ pc[t] = "grant_writer"
  /\ tsk' = list_first_entry(wait_list)
  /\ wait_list' = Tail(wait_list)
  /\ ungranted' = ungranted \ {tsk'}
  /\ next' = 1 /\ loop' = 0
  /\ Goto(t, "wake_task")
  /\ UNCHANGED <<count, flags, undone, lockVars, taskVars>>

(* The readers at the front of the queue, up to the first writer. *)
FrontReaders ==
  CHOOSE n \in 0 .. Len(wait_list) :
    /\ \A i \in 1 .. n : flags[wait_list[i]] = "READ"
    /\ n < Len(wait_list) => flags[wait_list[n + 1]] = "WRITE"

(* Mutant: "we'd already done one increment earlier" is left out. *)
readers_only_counts_twice(t) ==
  /\ pc[t] = "readers_only"
  /\ count' = count + FrontReaders * (RWSEM_ACTIVE_BIAS - RWSEM_WAITING_BIAS)
  /\ next' = 1 /\ loop' = FrontReaders
  /\ Goto(t, "grant_reader")
  /\ UNCHANGED <<flags, wait_list, ungranted, undone, tsk, lockVars, taskVars>>

readers_only(t) ==
  /\ pc[t] = "readers_only"
  /\ count' = count + FrontReaders * (RWSEM_ACTIVE_BIAS - RWSEM_WAITING_BIAS)
                    - (IF caller = "read" THEN 0 ELSE RWSEM_ACTIVE_BIAS)
  /\ next' = 1 /\ loop' = FrontReaders
  /\ Goto(t, "grant_reader")
  /\ UNCHANGED <<flags, wait_list, ungranted, undone, tsk, lockVars, taskVars>>

(* One round of the loop to the store to waiter->task; waiter->list.next   *)
(* was read before it.                                                     *)
GrantReader(t) ==
  /\ pc[t] = "grant_reader"
  /\ tsk' = wait_list[next]
  /\ ungranted' = ungranted \ {tsk'}
  /\ next' = next + 1 /\ loop' = loop - 1
  /\ Goto(t, "wake_task")
  /\ UNCHANGED <<count, flags, wait_list, undone, lockVars, taskVars>>

(* Mutants of WakeTask(): the granted waiters stay linked; nobody is woken. *)
WakeTask_list_kept(t) ==
  /\ pc[t] = "wake_task"
  /\ wake_up_process(tsk)
  /\ IF loop > 0 THEN Goto(t, "grant_reader") /\ UNCHANGED <<lockVars, wakeVars>>
                 ELSE Out(t)
  /\ UNCHANGED <<count, flags, wait_list, ungranted, undone, sigpend>>
(* wake_up_process(), and after the last one the granted waiters are cut   *)
(* off the list.                                                           *)
WakeTask(t) ==
  /\ pc[t] = "wake_task"
  /\ wake_up_process(tsk)
  /\ IF loop > 0
     THEN Goto(t, "grant_reader") /\ UNCHANGED <<wait_list, lockVars, wakeVars>>
     ELSE wait_list' = SubSeq(wait_list, next, Len(wait_list)) /\ Out(t)
  /\ UNCHANGED <<count, flags, ungranted, undone, sigpend>>
-------------------------------------------------------------------------------
(* The waiter's loop, outside wait_lock: test waiter.task ... *)
WaitTest(t) ==
  /\ pc[t] = "wait"
  /\ IF t \in ungranted
     THEN Goto(t, "schedule") /\ UNCHANGED state
     ELSE /\ Goto(t, IF flags[t] = "READ" THEN "read" ELSE "write")
          /\ set_task_state(t, "RUNNING")
  /\ UNCHANGED <<count, flags, wait_list, ungranted, undone, lockVars,
                 wakeVars, sigpend>>

(* ... sleep, and announce the next sleep before the next test. *)
WaitSchedule(t) ==
  /\ pc[t] = "schedule" /\ schedule_returns(t)
  /\ set_task_state(t, "UNINTERRUPTIBLE")
  /\ Goto(t, "wait")
  /\ UNCHANGED <<count, flags, wait_list, ungranted, undone, lockVars,
                 wakeVars, sigpend>>

Stray(t) ==
  /\ StrayWakeup(t)
  /\ UNCHANGED <<count, flags, wait_list, ungranted, pc, undone, lockVars, wakeVars>>

Call(t) ==
  \/ __down_read(t) \/ __down_read_trylock(t)
  \/ __down_write(t) \/ __down_write_trylock(t)

Step(t) ==
  \/ __up_read(t) \/ __up_write(t)
  \/ rwsem_down_failed_common(t) \/ rwsem_wake(t) \/ rwsem_downgrade_wake(t)
  \/ try_again(t) \/ undo(t) \/ GrantWriter(t)
  \/ readers_only(t) \/ GrantReader(t) \/ WakeTask(t)
  \/ WaitTest(t) \/ WaitSchedule(t)

Next == \E t \in Tasks : Call(t) \/ Step(t) \/ __downgrade_write(t) \/ Stray(t)

Spec == Init /\ [][Next]_vars

(* A task that can run does, a holder lets go in the end, and the ticket   *)
(* spinlock wait_lock serves whoever waits for it.                         *)
FairSpec ==
  /\ Spec
  /\ \A t \in Tasks :
       /\ WF_vars(Step(t))
       /\ SF_vars(rwsem_down_failed_common(t) \/ rwsem_wake(t)
                     \/ rwsem_downgrade_wake(t))
-------------------------------------------------------------------------------
WakerPCs == {"try_again", "undo", "grant_writer", "readers_only",
             "grant_reader", "wake_task"}

(* Task t is in rwsem_down_failed_common(), past its queueing. *)
InWait(t) ==
  pc[t] \in {"wait", "schedule"} \/ (pc[t] \in WakerPCs /\ caller = "wait")

(* Task t has been handed the semaphore, or has taken it, in mode f. *)
Granted(t) == InWait(t) /\ t \notin ungranted
Holds(t, f) ==
  /\ flags[t] = f
  /\ \/ pc[t] \in {"read", "write", "downgrade_wake"}
     \/ pc[t] \in WakerPCs /\ caller = "read"
     \/ Granted(t)

Readers == {t \in Tasks : Holds(t, "READ")}
Writers == {t \in Tasks : Holds(t, "WRITE")}

(* A writer has the semaphore to itself, whichever of the fast paths, the  *)
(* handover in the slow path or a downgrade let the holders in             *)
(* (rwsem.h:117-191, rwsem.c:63-131).                                      *)
ReadersExcludeWriter ==
  /\ Cardinality(Writers) <= 1
  /\ Writers # {} => Readers = {}

InLoop == \E t \in Tasks : pc[t] \in {"grant_reader", "wake_task"}

(* The waiters counted as readers at readers_only that the loop has not    *)
(* reached, and those that still wait to be let in.                        *)
Promised == {wait_list[i] : i \in next .. (IF InLoop THEN next + loop - 1 ELSE 0)}
Queued   == ungranted \ Promised

(* count is what the tasks' positions add up to: active lockers, failed    *)
(* ones not yet queued, the queue and the increment of a waker in flight.  *)
(* A slip in any of the eight adjustments of rwsem.h and rwsem.c breaks    *)
(* it, often without breaking exclusion for a long time.                   *)
CountExact ==
  LET failed(f) == {t \in Tasks : pc[t] = "failed" /\ flags[t] = f}
      inflight  == {t \in Tasks : \/ pc[t] \in {"undo", "grant_writer"}
                                  \/ pc[t] = "readers_only" /\ caller # "read"}
  IN count = RWSEM_ACTIVE_READ_BIAS
                  * Cardinality(Readers \cup failed("READ") \cup Promised)
           + RWSEM_ACTIVE_WRITE_BIAS * Cardinality(Writers \cup failed("WRITE"))
           + RWSEM_WAITING_BIAS * Cardinality(Queued)
           + RWSEM_ACTIVE_BIAS * Cardinality(inflight)

(* "We must be careful not to touch 'waiter' after we set ->task = NULL"   *)
(* (rwsem.c:78): every waiter the waker or a later caller can still reach  *)
(* on the list is on the stack of a task that has not been let go.         *)
NoDanglingWaiter ==
  LET from == IF InLoop THEN next ELSE 1
      reachable == {wait_list[i] : i \in from .. Len(wait_list)}
  IN /\ reachable = ungranted
     /\ NoDuplicates(wait_list)
     /\ \A t \in ungranted : InWait(t)
     /\ (InLoop /\ loop > 0) => next + loop - 1 <= Len(wait_list)

(* Nobody takes a fast path, or has trylock succeed, while somebody is     *)
(* queued: the waiting part of count keeps it negative ("and will still be *)
(* so", rwsem.c:43) even in the windows of try_again and undo.             *)
NoOvertaking ==
  [][\A t \in Tasks :
       pc[t] = "idle" /\ pc'[t] \in {"read", "write"} => Queued = {}]_vars

(* Waiter s came before waiter t. *)
Before(s, t) ==
  \E i, j \in 1 .. Len(wait_list) : i < j /\ wait_list[i] = s /\ wait_list[j] = t

(* First come, first served (rwsem.c:63-131, 163), though the waiters of   *)
(* one wakeup are let go in many steps and leave the list later still:     *)
(* nobody who waits is let go while one who came before still waits, and a *)
(* newcomer queues behind everyone.                                        *)
ServedInOrder ==
  [][ /\ \A s, t \in ungranted :
           Before(s, t) /\ t \notin ungranted' => s \notin ungranted'
      /\ \A s \in ungranted \cap ungranted', t \in ungranted' :
           s # t /\ (Before(s, t) \/ t \notin ungranted) => Before(s, t)' ]_vars

Stuck ==
  /\ \A t \in Tasks : pc[t] = "idle" \/ (pc[t] = "schedule" /\ ~schedule_returns(t))
  /\ \E t \in Tasks : pc[t] # "idle"

(* "if there are no active locks, wake the front queued process(es) up"    *)
(* (rwsem.c:168): it never happens that nobody has the semaphore, somebody *)
(* sleeps on it, and no other task is on its way to wake him.              *)
NoLostWakeup == ~Stuck

(* ... except after an undo that made the transition 1->0 of the active    *)
(* part and left all the same.                                             *)
LostOnlyByUndo == Stuck => undone

(* However many others come and go, whoever has to queue gets the          *)
(* semaphore: readers cannot starve a writer nor writers a reader, unless  *)
(* such an undo has lost a wakeup.                                         *)
WaiterServed ==
  \A t \in Tasks : pc[t] = "failed" ~> (pc[t] \in {"read", "write"} \/ undone)
===============================================================================
