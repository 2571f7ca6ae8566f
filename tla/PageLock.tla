-------------------------------- MODULE PageLock --------------------------------
(***************************************************************************)
(* Page locks: the wait queues of kernel/wait.c and __wake_up_common(), as *)
(* lock_page(), its killable variant, wait_on_page_locked() and            *)
(* unlock_page() use them.  All pages of the model hash to one queue.      *)
(*                                                                         *)
(* A step reads or writes PG_locked, a ->state or the queue once.  What is *)
(* done under q->lock is one step, but for a waker's walk along the queue: *)
(* waiters that it lets go run on beside it.  unlock_page() may also come  *)
(* from an interrupt, which is one more task here.                         *)
(***************************************************************************)
EXTENDS TaskSleep, KernelList

CONSTANTS
  Pages,
  NULL     \* no task, page or entry

ASSUME PageLockAssumption == NULL \notin Tasks \cup Pages \cup (Tasks \X {"next", "prev"})

VARIABLES
  locked,     \* the pages with PG_locked set
  task_list,  \* the queue's entries, each on the stack of its task
  qlock,      \* who has q->lock across steps
  curr,       \* the position of the waker in the queue
  half,       \* <<task, pointer>>: the entry in the middle of a waker's
              \* list_del_init(), and which of its pointers is set so far
  call,       \* the function a task is in, and the page
  pc

queueVars == <<task_list, qlock, curr, half>>
vars == <<locked, queueVars, call, pc, taskVars>>

Locks == {"lock_page", "lock_page_killable"}
Calls == Locks \cup {"wait_on_page_locked"}
NoCall == [op |-> "none", page |-> NULL]

WaitPCs == {"prepare", "test", "action", "asleep", "again",
            "finish", "finish_check", "finish_lock", "abort"}
WakePCs == {"wake_test", "wake_task", "wake_del", "wake_init"}
PCs     == WaitPCs \cup WakePCs \cup {"idle", "has", "unlocked", "wake"}

TypeOK ==
  /\ TaskTypeOK
  /\ locked \subseteq Pages
  /\ task_list \in Seq(Tasks)
  /\ qlock \in Tasks \cup {NULL}
  /\ curr \in Nat
  /\ half \in (Tasks \X {"next", "prev"}) \cup {NULL}
  /\ call \in [Tasks -> [op : Calls, page : Pages] \cup {NoCall}]
  /\ pc \in [Tasks -> PCs]

Init ==
  /\ TaskInit
  /\ locked = {} /\ task_list = << >> /\ qlock = NULL /\ curr = 0 /\ half = NULL
  /\ call = [t \in Tasks |-> NoCall]
  /\ pc = [t \in Tasks |-> "idle"]

Goto(t, to)  == pc' = [pc EXCEPT ![t] = to]
Exclusive(t) == call[t].op \in Locks
Page(t)      == call[t].page
Mode(t)      == IF call[t].op = "lock_page_killable" THEN "KILLABLE" ELSE "UNINTERRUPTIBLE"

(* t is done with its call: it has the page, or nothing. *)
Return(t, to) ==
  /\ Goto(t, to)
  /\ call' = IF to = "has" THEN call ELSE [call EXCEPT ![t] = NoCall]
-------------------------------------------------------------------------------
(* The callers: lock_page() tries before it waits, wait_on_page_locked()   *)
(* looks before it waits.                                                  *)
trylock_page(t, op, p) ==
  /\ pc[t] = "idle" /\ op \in Locks /\ p \notin locked
  /\ locked' = locked \cup {p}
  /\ call' = [call EXCEPT ![t] = [op |-> op, page |-> p]]
  /\ Goto(t, "has")
  /\ UNCHANGED <<queueVars, taskVars>>

MustWait(t, op, p) ==
  /\ pc[t] = "idle" /\ p \in locked
  /\ call' = [call EXCEPT ![t] = [op |-> op, page |-> p]]
  /\ Goto(t, "prepare")
  /\ UNCHANGED <<locked, queueVars, taskVars>>

(* A waiter still queued keeps its place; wake-one waiters go last. *)
__add_wait_queue(t) ==
  task_list' = IF t \in Entries(task_list) THEN task_list
               ELSE IF Exclusive(t) THEN list_add_tail(t, task_list)
               ELSE list_add(t, task_list)

(* prepare_to_wait() and prepare_to_wait_exclusive() *)
prepare_to_wait(t) ==
  /\ pc[t] = "prepare" /\ qlock = NULL
  /\ __add_wait_queue(t)
  /\ set_task_state(t, Mode(t))
  /\ Goto(t, "test")
  /\ UNCHANGED <<locked, qlock, curr, half, call, sigpend>>

TestBit(t) ==
  /\ pc[t] = "test"
  /\ Goto(t, IF Page(t) \in locked THEN "action" ELSE "again")
  /\ UNCHANGED <<locked, queueVars, call, taskVars>>

(* sync_page() or sync_page_killable() calls schedule(): t goes to sleep, *)
(* off the run queue, unless a wakeup or a signal has come before.        *)
ActionSleeps(t) ==
  /\ pc[t] = "action" /\ ~schedule_returns(t)
  /\ Goto(t, "asleep")
  /\ UNCHANGED <<locked, queueVars, call, taskVars>>

ActionReturns(t) ==
  /\ pc[t] \in {"action", "asleep"} /\ schedule_returns(t)
  /\ set_task_state(t, "RUNNING")
  /\ Goto(t, IF Mode(t) = "KILLABLE" /\ sigpend[t] = "fatal" THEN "abort" ELSE "again")
  /\ UNCHANGED <<locked, queueVars, call, sigpend>>

(* The condition of the loops: test_and_set_bit() for the exclusive        *)
(* waiter, test_bit() for the other.                                       *)
TestAgain(t) ==
  /\ pc[t] = "again"
  /\ IF Page(t) \in locked THEN Goto(t, "prepare") /\ UNCHANGED locked
     ELSE /\ Goto(t, "finish")
          /\ locked' = IF Exclusive(t) THEN locked \cup {Page(t)} ELSE locked
  /\ UNCHANGED <<queueVars, call, taskVars>>
-------------------------------------------------------------------------------
Leave(t) == Return(t, IF Exclusive(t) THEN "has" ELSE "idle")

(* Mutant of list_empty_careful(): list_empty(), which looks at ->next. *)
list_empty_next(t) == t \notin Entries(task_list) /\ half # <<t, "prev">>

list_empty_careful(t) ==
  t \notin Entries(task_list) /\ (half = NULL \/ half[1] # t)

(* finish_wait() looks at the entry without the lock, ... *)
finish_wait(t) ==
  /\ pc[t] = "finish"
  /\ set_task_state(t, "RUNNING")
  /\ Goto(t, "finish_check")
  /\ UNCHANGED <<locked, queueVars, call, sigpend>>

FinishCheck(t) ==
  /\ pc[t] = "finish_check"
  /\ IF list_empty_careful(t) THEN Leave(t)
                              ELSE Goto(t, "finish_lock") /\ UNCHANGED call
  /\ UNCHANGED <<locked, queueVars, taskVars>>

(* list_del_init() of the own entry: nothing happens to one unlinked. *)
Unlink(t) ==
  task_list' = IF t \in Entries(task_list) THEN list_del(task_list, t) ELSE task_list

(* ... and takes it if it has to unlink it. *)
FinishLock(t) ==
  /\ pc[t] = "finish_lock" /\ qlock = NULL
  /\ Unlink(t)
  /\ Leave(t)
  /\ UNCHANGED <<locked, qlock, curr, half, taskVars>>

(* Mutant of abort_exclusive_wait(): the wakeup is not passed on. *)
abort_exclusive_wait_drops(t) ==
  /\ pc[t] = "abort" /\ qlock = NULL
  /\ set_task_state(t, "RUNNING")
  /\ Unlink(t) /\ Return(t, "idle") /\ UNCHANGED <<qlock, curr>>
  /\ UNCHANGED <<locked, half, sigpend>>

(* The wakeup that took t off the queue, if one did, is passed on. *)
abort_exclusive_wait(t) ==
  /\ pc[t] = "abort" /\ qlock = NULL
  /\ set_task_state(t, "RUNNING")
  /\ IF t \in Entries(task_list) \/ list_empty(task_list)
     THEN Unlink(t) /\ Return(t, "idle") /\ UNCHANGED <<qlock, curr>>
     ELSE /\ qlock' = t /\ curr' = 1 /\ Goto(t, "wake_test")
          /\ UNCHANGED <<task_list, call>>
  /\ UNCHANGED <<locked, half, sigpend>>
-------------------------------------------------------------------------------
(* unlock_page() clears the bit, ... *)
unlock_page(t) ==
  /\ pc[t] = "has"
  /\ locked' = locked \ {Page(t)}
  /\ Goto(t, "unlocked")
  /\ UNCHANGED <<queueVars, call, taskVars>>

(* ... looks for waiters without the lock, ... *)
__wake_up_bit(t) ==
  /\ pc[t] = "unlocked"
  /\ IF list_empty(task_list) THEN Return(t, "idle")
                              ELSE Goto(t, "wake") /\ UNCHANGED call
  /\ UNCHANGED <<locked, queueVars, taskVars>>

(* ... and walks along the queue. *)
__wake_up(t) ==
  /\ pc[t] = "wake" /\ qlock = NULL
  /\ qlock' = t /\ curr' = 1
  /\ Goto(t, "wake_test")
  /\ UNCHANGED <<locked, task_list, half, call, taskVars>>

WakeUpDone(t) == qlock' = NULL /\ curr' = 0 /\ Return(t, "idle")
WakeUpNext(t) == curr' = curr + 1 /\ Goto(t, "wake_test") /\ UNCHANGED <<qlock, call>>

(* wake_bit_function(): is entry w one to wake? *)
Wakes(t, w) == Page(w) = Page(t) /\ Page(w) \notin locked

wake_bit_function(t) ==
  /\ pc[t] = "wake_test"
  /\ \/ curr > Len(task_list) /\ WakeUpDone(t)
     \/ /\ curr <= Len(task_list) /\ Wakes(t, task_list[curr])
        /\ Goto(t, "wake_task") /\ UNCHANGED <<qlock, curr, call>>
     \/ curr <= Len(task_list) /\ ~Wakes(t, task_list[curr]) /\ WakeUpNext(t)
  /\ UNCHANGED <<locked, task_list, half, taskVars>>

(* What try_to_wake_up() returns: a task still on the run queue does not   *)
(* count as woken, although its ->state is set.                            *)
Success(w) == state[w] # "RUNNING" /\ pc[w] = "asleep"

(* autoremove_wake_function(): only a waiter that was woken is taken off.  *)
(* TASK_NORMAL and TASK_KILLABLE match every state a waiter can be in.     *)
try_to_wake_up(t) ==
  /\ pc[t] = "wake_task"
  /\ LET w == task_list[curr]
     IN /\ wake_up_process(w)
        /\ IF Success(w) THEN Goto(t, "wake_del") /\ UNCHANGED <<qlock, curr, call>>
                         ELSE WakeUpNext(t)
  /\ UNCHANGED <<locked, task_list, half, sigpend>>

(* list_del_init(): unlink the entry and set one of its pointers, ... *)
WakeDel(t) ==
  /\ pc[t] = "wake_del"
  /\ \E pointer \in {"next", "prev"} : half' = <<task_list[curr], pointer>>
  /\ task_list' = list_del(task_list, task_list[curr])
  /\ Goto(t, "wake_init")
  /\ UNCHANGED <<locked, qlock, curr, call, taskVars>>

(* ... then the other; one exclusive waiter is enough. *)
WakeInit(t) ==
  /\ pc[t] = "wake_init"
  /\ half' = NULL
  /\ IF Exclusive(half[1]) THEN WakeUpDone(t)
     ELSE Goto(t, "wake_test") /\ UNCHANGED <<qlock, curr, call>>
  /\ UNCHANGED <<locked, task_list, taskVars>>
-------------------------------------------------------------------------------
Other == UNCHANGED <<locked, queueVars, call, pc>>

Kill(t)      == signal_wake_up(t, "fatal") /\ Other
Delivered(t) == pc[t] = "idle" /\ SignalDelivered(t) /\ Other
Stray(t)     == StrayWakeup(t) /\ Other

Wait(t) ==
  \/ prepare_to_wait(t) \/ TestBit(t) \/ ActionSleeps(t) \/ ActionReturns(t)
  \/ TestAgain(t) \/ finish_wait(t) \/ FinishCheck(t) \/ FinishLock(t)
  \/ abort_exclusive_wait(t)

Wake(t) ==
  \/ unlock_page(t) \/ __wake_up_bit(t) \/ __wake_up(t) \/ wake_bit_function(t)
  \/ try_to_wake_up(t) \/ WakeDel(t) \/ WakeInit(t)

Next ==
  \E t \in Tasks :
    \/ \E op \in Calls, p \in Pages : trylock_page(t, op, p) \/ MustWait(t, op, p)
    \/ Wait(t) \/ Wake(t) \/ Kill(t) \/ Delivered(t) \/ Stray(t)

Spec == Init /\ [][Next]_vars
-------------------------------------------------------------------------------
(* The queue links, and a waker still writes to, entries on the stacks of  *)
(* tasks that have not left their wait: the unlocked look of finish_wait() *)
(* misses no half-done list_del_init() (wait.c:109-122).                   *)
EntriesAlive ==
  /\ NoDuplicates(task_list)
  /\ \A t \in Entries(task_list) : pc[t] \in WaitPCs
  /\ half # NULL => pc[half[1]] \in WaitPCs

Asleep(t) == pc[t] = "asleep" /\ ~schedule_returns(t)

(* "This prevents waiter starvation where an exclusive waiter aborts and   *)
(* is woken up concurrently and noone wakes up the next waiter"            *)
(* (wait.c:144): when everybody rests, nobody sleeps for a page that is    *)
(* not locked.                                                             *)
NoLostWakeup ==
  (\A t \in Tasks : pc[t] \in {"idle", "has"} \/ Asleep(t))
    => \A t \in Tasks : Asleep(t) => Page(t) \in locked

===============================================================================
