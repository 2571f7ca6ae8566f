--------------------------------- MODULE Mutex ---------------------------------
(***************************************************************************)
(* Sleeping mutexes: kernel/mutex.c over the fast paths of                 *)
(* asm-generic/mutex-dec.h (and its x86 versions), with and without a      *)
(* cmpxchg for trylock, mutex-xchg.h, mutex-null.h, and the ldrex/strex    *)
(* version of ARMv6.                                                       *)
(*                                                                         *)
(* count and owner are read and written without wait_lock, so an action    *)
(* makes at most one access to one of them; wait_list and the tasks' state *)
(* only change under wait_lock, and what a function does to them goes with *)
(* the access to count next to it.  Locked instructions are full barriers, *)
(* and a delayed store to owner is a task that lingers in "set_owner".     *)
(***************************************************************************)
EXTENDS TaskSleep, KernelList, Integers

CONSTANTS
  NULL,
  Fastpaths,  \* of "dec", "dec386" (the same without __HAVE_ARCH_CMPXCHG),
              \* "llsc", "xchg", and "null" for CONFIG_DEBUG_MUTEXES
  Spinning,   \* those that optimistic spinning is compiled in with
  LockStates, \* the sleeps of the lock variants called: mutex_lock(),
              \* mutex_lock_interruptible(), mutex_lock_killable()
  Sent        \* the kinds of signal sent to the tasks

(* mutex-xchg.h is used by ARM before v6 only, which is never SMP, and     *)
(* CONFIG_DEBUG_MUTEXES compiles the spinning out.                         *)
ASSUME MutexAssumption ==
  /\ NULL \notin Tasks
  /\ Fastpaths \subseteq {"dec", "dec386", "llsc", "xchg", "null"}
  /\ Spinning \subseteq {"dec", "dec386", "llsc"}
  /\ LockStates \subseteq SleepStates
  /\ Sent \subseteq Signals

VARIABLES
  fastpath,   \* the one the kernel was built with
  debug_locks, \* FALSE once some lock of the kernel was found misused
  count,      \* lock->count: 1 unlocked, 0 locked, negative locked with
              \* waiters possible
  owner,      \* lock->owner
  wait_lock,  \* who holds lock->wait_lock
  wait_list,  \* lock->wait_list
  pc,         \* where each task is
  mstate,     \* __mutex_lock_common()'s parameter state
  snap,       \* the owner a spinner has read
  prev        \* what __mutex_fastpath_trylock() has read

vars == <<fastpath, debug_locks, count, owner, wait_lock, wait_list, pc, mstate,
          snap, prev, state, sigpend>>

PCs == {"idle", "set_owner", "spin", "spin_on_owner", "spin_cmpxchg", "slow",
        "retry", "asleep", "done", "done_count", "held", "unlock",
        "unlock_slow", "try_restore", "try_owner", "try_got", "try_failed"}

Counts == {c \in Int : c <= 1}

TypeOK ==
  /\ TaskTypeOK
  /\ fastpath \in Fastpaths
  /\ debug_locks \in BOOLEAN
  /\ count \in Counts
  /\ owner \in Tasks \cup {NULL}
  /\ wait_lock \in Tasks \cup {NULL}
  /\ wait_list \in Seq(Tasks)
  /\ pc \in [Tasks -> PCs]
  /\ mstate \in [Tasks -> SleepStates]
  /\ snap \in [Tasks -> Tasks \cup {NULL}]
  /\ prev \in [Tasks -> Counts]

__mutex_init ==
  /\ count = 1
  /\ owner = NULL
  /\ wait_lock = NULL
  /\ wait_list = << >>

Init ==
  /\ TaskInit
  /\ fastpath \in Fastpaths
  /\ debug_locks = TRUE
  /\ __mutex_init
  /\ pc = [t \in Tasks |-> "idle"]
  /\ mstate = [t \in Tasks |-> "UNINTERRUPTIBLE"]
  /\ snap = [t \in Tasks |-> NULL]
  /\ prev = [t \in Tasks |-> 0]

(* Task t goes on at to; what is compiled in does not change. *)
Goto(t, to) == pc' = [pc EXCEPT ![t] = to] /\ UNCHANGED <<fastpath, debug_locks>>
-------------------------------------------------------------------------------
(* Mutant of LlscLock(): a strex whose failure nobody looks at. *)
LlscLock_flag_unseen(ok) ==
  (count' = count - 1 \/ count' = count) /\ ok = (count = 1)

(* The fast paths: what __mutex_fastpath_lock() does to count, and whether *)
(* it got the mutex.  A strex that lost its reservation stores nothing.    *)
DecLock(ok)  == count' = count - 1 /\ ok = (count - 1 >= 0)
LlscLock(ok) == \/ count' = count - 1 /\ ok = (count = 1)
                \/ count' = count /\ ok = FALSE
XchgLock(ok) == count' = 0 /\ ok = (count = 1)
NullLock(ok) == count' = count /\ ok = FALSE

__mutex_fastpath_lock(ok) ==
  \/ fastpath \in {"dec", "dec386"} /\ DecLock(ok)
  \/ fastpath = "llsc" /\ LlscLock(ok)
  \/ fastpath = "xchg" /\ XchgLock(ok)
  \/ fastpath = "null" /\ NullLock(ok)

(* The same for __mutex_fastpath_unlock(): is there nothing left to do? *)
DecUnlock(ok)  == count' = count + 1 /\ ok = (count + 1 > 0)
LlscUnlock(ok) == \/ count' = count + 1 /\ ok = (count = 0)
                  \/ count' = count /\ ok = FALSE
XchgUnlock(ok) == count' = 1 /\ ok = (count = 0)

__mutex_fastpath_unlock(ok) ==
  \/ fastpath \in {"dec", "dec386"} /\ DecUnlock(ok)
  \/ fastpath = "llsc" /\ LlscUnlock(ok)
  \/ fastpath = "xchg" /\ XchgUnlock(ok)
  \/ fastpath = "null" /\ NullLock(ok)

__mutex_slowpath_needs_to_unlock == fastpath # "xchg"
-------------------------------------------------------------------------------
(* Where __mutex_lock_common() begins. *)
LockCommon == IF fastpath \in Spinning THEN "spin" ELSE "slow"

(* mutex_lock() and its variants up to the end of the fast path. *)
mutex_lock(t, st) ==
  /\ pc[t] = "idle"
  /\ mstate' = [mstate EXCEPT ![t] = st]
  /\ \E ok \in BOOLEAN :
       /\ __mutex_fastpath_lock(ok)
       /\ Goto(t, IF ok THEN "set_owner" ELSE LockCommon)
  /\ UNCHANGED <<owner, wait_lock, wait_list, snap, prev, taskVars>>

(* mutex_set_owner() at the end of every function that took the mutex.     *)
mutex_set_owner(t) ==
  /\ pc[t] = "set_owner"
  /\ owner' = t
  /\ Goto(t, "held")
  /\ UNCHANGED <<count, wait_lock, wait_list, mstate, snap, prev, taskVars>>

(* The head of the spin loop: a task that owns the BKL does not spin.      *)
SpinReadsOwner(t) ==
  /\ pc[t] = "spin"
  /\ snap' = [snap EXCEPT ![t] = owner]
  /\ \/ Goto(t, IF owner = NULL THEN "spin_cmpxchg" ELSE "spin_on_owner")
     \/ Goto(t, "slow")
  /\ UNCHANGED <<count, owner, wait_lock, wait_list, mstate, prev, taskVars>>

(* It spins while the owner it has read is still the owner, runs, and      *)
(* nobody else needs the CPU; whether these two hold is not in the model.  *)
mutex_spin_on_owner(t) ==
  /\ pc[t] = "spin_on_owner"
  /\ \/ owner # snap[t] /\ Goto(t, "spin_cmpxchg")
     \/ Goto(t, "slow")
  /\ UNCHANGED <<count, owner, wait_lock, wait_list, mstate, snap, prev, taskVars>>

(* The spinner's attempt; if it fails only a spinner that had read no      *)
(* owner leaves the loop, if it must reschedule or is a real-time task.    *)
SpinCmpxchg(t) ==
  /\ pc[t] = "spin_cmpxchg"
  /\ \/ count = 1 /\ count' = 0 /\ Goto(t, "set_owner")
     \/ count # 1 /\ count' = count /\ Goto(t, "spin")
     \/ count # 1 /\ count' = count /\ snap[t] = NULL /\ Goto(t, "slow")
  /\ UNCHANGED <<owner, wait_lock, wait_list, mstate, snap, prev, taskVars>>

(* __mutex_lock_common() takes wait_lock, queues the waiter and makes its  *)
(* first attempt.                                                          *)
LockSlowpath(t) ==
  /\ pc[t] = "slow" /\ wait_lock = NULL
  /\ wait_lock' = t
  /\ wait_list' = list_add_tail(t, wait_list)
  /\ count' = -1
  /\ Goto(t, IF count = 1 THEN "done" ELSE "retry")
  /\ UNCHANGED <<owner, mstate, snap, prev, taskVars>>

(* One pass of the loop, with wait_lock: take the mutex, leave with        *)
(* -EINTR, or announce the sleep and drop wait_lock.                       *)
LockRetry(t) ==
  /\ pc[t] = "retry"
  /\ count' = -1
  /\ \/ /\ count = 1
        /\ Goto(t, "done")
        /\ UNCHANGED <<wait_lock, wait_list, state>>
     \/ /\ count # 1 /\ signal_pending_state(mstate[t], t)
        /\ wait_list' = list_del(wait_list, t)
        /\ wait_lock' = NULL
        /\ Goto(t, "idle")
        /\ UNCHANGED state
     \/ /\ count # 1 /\ ~signal_pending_state(mstate[t], t)
        /\ set_task_state(t, mstate[t])
        /\ wait_lock' = NULL
        /\ Goto(t, "asleep")
        /\ UNCHANGED wait_list
  /\ UNCHANGED <<owner, mstate, snap, prev, sigpend>>

(* schedule() returns and the task takes wait_lock again. *)
LockWakes(t) ==
  /\ pc[t] = "asleep" /\ schedule_returns(t) /\ wait_lock = NULL
  /\ wake_up_process(t)
  /\ wait_lock' = t
  /\ Goto(t, "retry")
  /\ UNCHANGED <<count, owner, wait_list, mstate, snap, prev, sigpend>>

(* Mutant of LockDone(): the waiter stays linked. *)
LockDone_still_linked(t) ==
  /\ pc[t] = "done"
  /\ owner' = t
  /\ Goto(t, "done_count")
  /\ UNCHANGED <<count, wait_lock, wait_list, mstate, snap, prev, taskVars>>

(* The label done: unlink the waiter and become the owner ... *)
LockDone(t) ==
  /\ pc[t] = "done"
  /\ wait_list' = list_del(wait_list, t)
  /\ owner' = t
  /\ Goto(t, "done_count")
  /\ UNCHANGED <<count, wait_lock, mstate, snap, prev, taskVars>>

(* Mutant of LockDoneCount(): the wrong value for "uncontended". *)
LockDoneCount_unlocks(t) ==
  /\ pc[t] = "done_count"
  /\ count' = IF list_empty(wait_list) THEN 1 ELSE count
  /\ wait_lock' = NULL
  /\ Goto(t, "set_owner")
  /\ UNCHANGED <<owner, wait_list, mstate, snap, prev, taskVars>>

(* ... and, if nobody is left waiting, mark the mutex uncontended. *)
LockDoneCount(t) ==
  /\ pc[t] = "done_count"
  /\ count' = IF list_empty(wait_list) THEN 0 ELSE count
  /\ wait_lock' = NULL
  /\ Goto(t, "set_owner")
  /\ UNCHANGED <<owner, wait_list, mstate, snap, prev, taskVars>>
-------------------------------------------------------------------------------
(* Mutant of mutex_clear_owner. *)
owner_kept == owner' = owner

mutex_clear_owner == owner' = NULL

(* The debugging build's check of an unlock returns at once when lock      *)
(* debugging is off: the owner is then not cleared at all.                 *)
debug_mutex_unlock == IF debug_locks THEN mutex_clear_owner ELSE UNCHANGED owner

(* mutex_unlock() clears the owner before it gives the mutex up; with      *)
(* debugging, debug_mutex_unlock() does that under wait_lock.              *)
mutex_unlock(t) ==
  /\ pc[t] = "held"
  /\ IF fastpath = "null" THEN UNCHANGED owner ELSE mutex_clear_owner
  /\ Goto(t, "unlock")
  /\ UNCHANGED <<count, wait_lock, wait_list, mstate, snap, prev, taskVars>>

UnlockFastpath(t) ==
  /\ pc[t] = "unlock"
  /\ \E ok \in BOOLEAN :
       /\ __mutex_fastpath_unlock(ok)
       /\ Goto(t, IF ok THEN "idle" ELSE "unlock_slow")
  /\ UNCHANGED <<owner, wait_lock, wait_list, mstate, snap, prev, taskVars>>

FirstWaiterWoken ==
  \/ list_empty(wait_list) /\ UNCHANGED state
  \/ ~list_empty(wait_list) /\ wake_up_process(list_first_entry(wait_list))

(* __mutex_unlock_common_slowpath(): the waiter that is woken stays on the *)
(* list and has to take the mutex itself.                                  *)
__mutex_unlock_slowpath(t) ==
  /\ pc[t] = "unlock_slow" /\ wait_lock = NULL
  /\ IF fastpath = "null" THEN debug_mutex_unlock ELSE UNCHANGED owner
  /\ count' = IF __mutex_slowpath_needs_to_unlock THEN 1 ELSE count
  /\ FirstWaiterWoken
  /\ Goto(t, "idle")
  /\ UNCHANGED <<wait_lock, wait_list, mstate, snap, prev, sigpend>>
-------------------------------------------------------------------------------
(* __mutex_fastpath_trylock() by compare and exchange. *)
TrylockCmpxchg(t) ==
  /\ fastpath \in {"dec", "llsc"}
  /\ count = 1 /\ count' = 0
  /\ Goto(t, "set_owner")
  /\ UNCHANGED <<owner, wait_lock, wait_list, mstate, snap, prev, taskVars>>

(* Mutant of TrylockXchg(): the negative count is not put back. *)
TrylockXchg_no_restore(t) ==
  /\ fastpath = "xchg"
  /\ count' = 0
  /\ Goto(t, IF count = 1 THEN "set_owner" ELSE "idle")
  /\ UNCHANGED <<owner, wait_lock, wait_list, mstate, snap, prev, taskVars>>

(* The version of mutex-xchg.h: a negative count it has overwritten with 0 *)
(* is put back by a second exchange.                                       *)
TrylockXchg(t) ==
  /\ fastpath = "xchg"
  /\ count' = 0
  /\ prev' = [prev EXCEPT ![t] = count]
  /\ Goto(t, IF count = 1 THEN "set_owner"
             ELSE IF count < 0 THEN "try_restore" ELSE "idle")
  /\ UNCHANGED <<owner, wait_lock, wait_list, mstate, snap, taskVars>>

TrylockRestore(t) ==
  /\ pc[t] = "try_restore"
  /\ count' = prev[t]
  /\ Goto(t, IF count = 1 THEN "set_owner" ELSE "idle")
  /\ UNCHANGED <<owner, wait_lock, wait_list, mstate, snap, prev, taskVars>>

(* __mutex_trylock_slowpath(), where there is no other way: the exchange   *)
(* under wait_lock ...                                                     *)
TrylockSlowpath(t) ==
  /\ fastpath \in {"null", "dec386"} /\ wait_lock = NULL
  /\ wait_lock' = t
  /\ count' = -1
  /\ Goto(t, IF count = 1 THEN "try_owner" ELSE "try_failed")
  /\ UNCHANGED <<owner, wait_list, mstate, snap, prev, taskVars>>

TrylockOwner(t) ==
  /\ pc[t] = "try_owner"
  /\ owner' = t
  /\ Goto(t, "try_got")
  /\ UNCHANGED <<count, wait_lock, wait_list, mstate, snap, prev, taskVars>>

(* ... and the count put to 0 if nobody waits, also by a task that did not *)
(* get the mutex: the fast paths have run in between.                      *)
TrylockCount(t) ==
  /\ pc[t] \in {"try_got", "try_failed"}
  /\ count' = IF list_empty(wait_list) THEN 0 ELSE count
  /\ wait_lock' = NULL
  /\ Goto(t, IF pc[t] = "try_got" THEN "set_owner" ELSE "idle")
  /\ UNCHANGED <<owner, wait_list, mstate, snap, prev, taskVars>>

mutex_trylock(t) ==
  /\ pc[t] = "idle"
  /\ TrylockCmpxchg(t) \/ TrylockXchg(t) \/ TrylockSlowpath(t)

mutexVars == <<fastpath, debug_locks, count, owner, wait_lock, wait_list, pc,
               mstate, snap, prev>>

Signal(t, sig) == signal_wake_up(t, sig) /\ UNCHANGED mutexVars
Stray(t) == StrayWakeup(t) /\ UNCHANGED mutexVars
Delivered(t) == pc[t] = "idle" /\ SignalDelivered(t) /\ UNCHANGED mutexVars

(* What a task does once it has called a function of the mutex. *)
Step(t) ==
  \/ mutex_set_owner(t)
  \/ SpinReadsOwner(t) \/ mutex_spin_on_owner(t) \/ SpinCmpxchg(t)
  \/ LockSlowpath(t) \/ LockRetry(t) \/ LockWakes(t)
  \/ LockDone(t) \/ LockDoneCount(t)
  \/ mutex_unlock(t) \/ UnlockFastpath(t) \/ __mutex_unlock_slowpath(t)
  \/ TrylockRestore(t) \/ TrylockOwner(t) \/ TrylockCount(t)

(* A bug in the use of some other lock is reported: lock debugging goes    *)
(* off for good.  Only debug_mutex_unlock() reads the flag here.           *)
debug_locks_off ==
  /\ fastpath = "null" /\ debug_locks
  /\ debug_locks' = FALSE
  /\ UNCHANGED <<fastpath, count, owner, wait_lock, wait_list, pc, mstate, snap,
                 prev, taskVars>>

Next ==
  \/ \E t \in Tasks :
       \/ \E st \in LockStates : mutex_lock(t, st)
       \/ mutex_trylock(t)
       \/ Step(t)
       \/ \E sig \in Sent : Signal(t, sig)
       \/ Stray(t)
       \/ Delivered(t)
  \/ debug_locks_off

Spec == Init /\ [][Next]_vars

-------------------------------------------------------------------------------
(* Task t has the mutex: from the instruction that takes it to the one     *)
(* that gives it up, which for mutex-xchg.h is the fast path's exchange.   *)
HolderPCs ==
  {"set_owner", "done", "done_count", "held", "unlock", "try_owner", "try_got"}
     \cup (IF fastpath = "xchg" THEN {} ELSE {"unlock_slow"})
Holds(t) == pc[t] \in HolderPCs

(* At most one task has the mutex, through every race of fast paths,       *)
(* spinners, trylock and the slow path (mutex.c:189, 223, 238, 444).       *)
MutualExclusion == \A t, u \in Tasks : Holds(t) /\ Holds(u) => t = u

(* A spinner follows lock->owner: it only ever names the task that has the *)
(* mutex, and names it all the while the caller relies on it               *)
(* (mutex.h:20-28; checked by debug_mutex_unlock(), mutex-debug.c:78).     *)
(* The first half ends with lock debugging in the build that has it: from  *)
(* then on no unlock clears the owner (mutex-debug.c:74), and that build   *)
(* has no spinners to be misled (mutex.c:151).                             *)
OwnerIsHolder ==
  /\ debug_locks /\ owner # NULL => Holds(owner)
  /\ \A t \in Tasks : pc[t] = "held" => owner = t

(* The wait list links exactly the waiters on the stacks of tasks that are *)
(* still in the slow path (mutex.c:220, 246, 268).                         *)
WaitListExact ==
  /\ NoDuplicates(wait_list)
  /\ Entries(wait_list) = {t \in Tasks : pc[t] \in {"retry", "asleep", "done"}}

Unwoken(t) == pc[t] = "asleep" /\ ~schedule_returns(t)

(* "to make sure that we get a wakeup once it's unlocked" (mutex.c:232):   *)
(* never do all waiters sleep on a free mutex with no other task on its    *)
(* way to wake them or to take the mutex.                                  *)
NoLostWakeup ==
  (\A t \in Tasks : pc[t] = "idle" \/ Unwoken(t)) => \A t \in Tasks : pc[t] = "idle"

===============================================================================
