------------------------------- MODULE Semaphore -------------------------------
(***************************************************************************)
(* Counting semaphores: kernel/semaphore.c.                                *)
(*                                                                         *)
(* sem->lock is taken with interrupts off around every access to the       *)
(* semaphore, so what a function does between taking and dropping it is    *)
(* one action.  A down that has to wait drops the lock around schedule()   *)
(* and so takes at least two actions: the one that queues the waiter and   *)
(* the one that runs when schedule() has returned.  Everything can happen  *)
(* in between: up() by any context, a signal, the timer, a stray wakeup.   *)
(*                                                                         *)
(* The ghosts taken and extra say what the callers did: the units handed   *)
(* to callers and not given back, and the units that callers who never     *)
(* took one have added.                                                    *)
(***************************************************************************)
EXTENDS TaskSleep, KernelList, FiniteSets

CONSTANTS
  InitCount,  \* the val of sema_init()
  MaxExtra,   \* bound on the units added by up() without a down()
  Sent        \* the signals sent to tasks

ASSUME SemAssumption ==
  /\ IsFiniteSet(Tasks)
  /\ InitCount \in Nat
  /\ MaxExtra \in Nat
  /\ Sent \subseteq Signals

VARIABLES
  count,      \* sem->count
  wait_list,  \* sem->wait_list
  waiter_up,  \* semaphore_waiter.up of the waiter on each task's stack
  sleeper,    \* the tasks that are in __down_common()
  wstate,     \* __down_common()'s parameter state
  timeout,    \* __down_common()'s timeout: the jiffies left, abstracted
  taken, extra

semVars == <<count, wait_list, waiter_up, sleeper, wstate, timeout>>
vars == <<count, wait_list, waiter_up, sleeper, wstate, timeout, taken, extra,
          state, sigpend>>

Timeouts == {"MAX", "left", "zero"}

(* The state and timeout down(), down_interruptible(), down_killable() and *)
(* down_timeout() pass on; the last one's caller may pass no time at all.  *)
Calls == (SleepStates \X {"MAX"}) \cup ({"UNINTERRUPTIBLE"} \X {"left", "zero"})

TypeOK ==
  /\ TaskTypeOK
  /\ count \in Nat /\ taken \in Nat /\ extra \in Nat
  /\ wait_list \in Seq(Tasks)
  /\ waiter_up \in [Tasks -> BOOLEAN]
  /\ sleeper \in SUBSET Tasks
  /\ wstate \in [Tasks -> SleepStates]
  /\ timeout \in [Tasks -> Timeouts]

sema_init ==
  /\ count = InitCount
  /\ wait_list = << >>

Init ==
  /\ TaskInit
  /\ sema_init
  /\ waiter_up = [t \in Tasks |-> FALSE]
  /\ sleeper = {}
  /\ wstate = [t \in Tasks |-> "UNINTERRUPTIBLE"]
  /\ timeout = [t \in Tasks |-> "MAX"]
  /\ taken = 0 /\ extra = 0
-------------------------------------------------------------------------------
(* The two tests at the head of __down_common()'s loop. *)
GivesUp(t, st, tmo) == signal_pending_state(st, t) \/ tmo = "zero"

(* The first pass of __down_common(): queue the waiter and go to sleep.    *)
__down_common(t, st, tmo) ==
  /\ wait_list' = list_add_tail(t, wait_list)
  /\ waiter_up' = [waiter_up EXCEPT ![t] = FALSE]
  /\ sleeper' = sleeper \cup {t}
  /\ wstate' = [wstate EXCEPT ![t] = st]
  /\ timeout' = [timeout EXCEPT ![t] = tmo]
  /\ set_task_state(t, st)
  /\ UNCHANGED <<count, sigpend, taken, extra>>

(* Mutant of down(): tests the count with >= 0. *)
down_off_by_one(t, st, tmo) ==
  /\ t \notin sleeper /\ count >= 0
  /\ count' = count - 1
  /\ taken' = taken + 1
  /\ UNCHANGED <<wait_list, waiter_up, sleeper, wstate, timeout, extra, taskVars>>

(* down() and its variants.  A waiter that gives up on its first pass      *)
(* is linked and unlinked in one go.                                       *)
down(t, st, tmo) ==
  /\ t \notin sleeper
  /\ \/ /\ count > 0
        /\ count' = count - 1
        /\ taken' = taken + 1
        /\ UNCHANGED <<wait_list, waiter_up, sleeper, wstate, timeout, extra, taskVars>>
     \/ /\ count = 0 /\ ~GivesUp(t, st, tmo)
        /\ __down_common(t, st, tmo)
     \/ /\ count = 0 /\ GivesUp(t, st, tmo)
        /\ UNCHANGED vars

(* down_trylock(): also from interrupt context, hence without a task. *)
down_trylock ==
  /\ count > 0
  /\ count' = count - 1
  /\ taken' = taken + 1
  /\ UNCHANGED <<wait_list, waiter_up, sleeper, wstate, timeout, extra, taskVars>>

(* __down_common() returns: its parameters and the waiter on its stack are *)
(* gone.                                                                   *)
Return(t) ==
  /\ sleeper' = sleeper \ {t}
  /\ waiter_up' = [waiter_up EXCEPT ![t] = FALSE]
  /\ wstate' = [wstate EXCEPT ![t] = "UNINTERRUPTIBLE"]
  /\ timeout' = [timeout EXCEPT ![t] = "MAX"]

(* schedule_timeout() has returned to t, which holds sem->lock again and   *)
(* finds that it was given a unit: waiter.up is tested before the signal   *)
(* and the timeout.                                                        *)
DownReturnsZero(t) ==
  /\ t \in sleeper /\ schedule_returns(t)
  /\ waiter_up[t]
  /\ Return(t)
  /\ wake_up_process(t)
  /\ taken' = taken + 1
  /\ UNCHANGED <<count, wait_list, extra, sigpend>>

(* The time left when schedule_timeout() returns: a finite timeout may be  *)
(* over whatever woke the task.                                            *)
TimeLeft(tmo) == IF tmo = "left" THEN {"left", "zero"} ELSE {tmo}

(* Mutants of DownGivesUp(): waiter.up is not looked at first; the waiter  *)
(* stays linked.                                                           *)
DownGivesUp_up_untested(t) ==
  /\ t \in sleeper /\ schedule_returns(t)
  /\ \E tmo \in TimeLeft(timeout[t]) : GivesUp(t, wstate[t], tmo)
  /\ wait_list' = IF t \in Entries(wait_list) THEN list_del(wait_list, t) ELSE wait_list
  /\ Return(t)
  /\ wake_up_process(t)
  /\ UNCHANGED <<count, taken, extra, sigpend>>

DownGivesUp_still_linked(t) ==
  /\ t \in sleeper /\ schedule_returns(t)
  /\ ~waiter_up[t]
  /\ \E tmo \in TimeLeft(timeout[t]) : GivesUp(t, wstate[t], tmo)
  /\ Return(t)
  /\ wake_up_process(t)
  /\ UNCHANGED <<count, wait_list, taken, extra, sigpend>>

(* schedule_timeout() has returned to t without a unit. *)
DownGivesUp(t) ==
  /\ t \in sleeper /\ schedule_returns(t)
  /\ ~waiter_up[t]
  /\ \E tmo \in TimeLeft(timeout[t]) : GivesUp(t, wstate[t], tmo)
  /\ wait_list' = list_del(wait_list, t)
  /\ Return(t)
  /\ wake_up_process(t)
  /\ UNCHANGED <<count, taken, extra, sigpend>>

DownSleepsAgain(t) ==
  /\ t \in sleeper /\ schedule_returns(t)
  /\ ~waiter_up[t]
  /\ \E tmo \in TimeLeft(timeout[t]) : ~GivesUp(t, wstate[t], tmo)
  /\ set_task_state(t, wstate[t])
  /\ UNCHANGED <<semVars, taken, extra, sigpend>>

(* Mutants of __up(): no wakeup; the unit goes through count and the       *)
(* woken waiter has to find it there.                                      *)
__up_no_wakeup ==
  /\ wait_list' = Tail(wait_list)
  /\ waiter_up' = [waiter_up EXCEPT ![list_first_entry(wait_list)] = TRUE]
  /\ UNCHANGED <<count, state>>

__up_frees_unit ==
  /\ count' = count + 1
  /\ wake_up_process(list_first_entry(wait_list))
  /\ UNCHANGED <<wait_list, waiter_up>>

(* __up(): the unit goes to the first waiter and never through count. *)
__up ==
  LET t == list_first_entry(wait_list)
  IN /\ wait_list' = Tail(wait_list)
     /\ waiter_up' = [waiter_up EXCEPT ![t] = TRUE]
     /\ wake_up_process(t)
     /\ UNCHANGED count

up ==
  /\ \/ /\ list_empty(wait_list)
        /\ count' = count + 1
        /\ UNCHANGED <<wait_list, waiter_up, state>>
     \/ /\ ~list_empty(wait_list)
        /\ __up
  /\ UNCHANGED <<sleeper, wstate, timeout, sigpend>>

(* up() by whoever has a unit, and by someone who never took one. *)
UpByHolder  == taken > 0 /\ taken' = taken - 1 /\ up /\ UNCHANGED extra
UpByOther   == extra < MaxExtra /\ extra' = extra + 1 /\ up /\ UNCHANGED taken

(* process_timeout(): the timer of a sleep with a finite timeout. *)
process_timeout(t) ==
  /\ t \in sleeper /\ timeout[t] = "left" /\ state[t] # "RUNNING"
  /\ timeout' = [timeout EXCEPT ![t] = "zero"]
  /\ wake_up_process(t)
  /\ UNCHANGED <<count, wait_list, waiter_up, sleeper, wstate, taken, extra, sigpend>>

Signal(t, sig) == signal_wake_up(t, sig) /\ UNCHANGED <<semVars, taken, extra>>
Stray(t) == StrayWakeup(t) /\ UNCHANGED <<semVars, taken, extra>>
Delivered(t) ==
  t \notin sleeper /\ SignalDelivered(t) /\ UNCHANGED <<semVars, taken, extra>>

Resume(t) == DownReturnsZero(t) \/ DownGivesUp(t) \/ DownSleepsAgain(t)

Next ==
  \/ \E t \in Tasks : \E c \in Calls : down(t, c[1], c[2])
  \/ down_trylock
  \/ \E t \in Tasks : Resume(t)
  \/ UpByHolder
  \/ UpByOther
  \/ \E t \in Tasks : process_timeout(t)
  \/ \E t \in Tasks, sig \in Sent : Signal(t, sig)
  \/ \E t \in Tasks : Stray(t)
  \/ \E t \in Tasks : Delivered(t)

Spec == Init /\ [][Next]_vars

-------------------------------------------------------------------------------
(* The waiters that were given a unit and have not returned with it yet. *)
Granted == {t \in sleeper : waiter_up[t]}

(* Units are neither lost nor made up: what is free, what was promised to  *)
(* a waiter and what callers have is what sema_init() and stray up() calls *)
(* put in, however signals and timeouts race with up() (semaphore.c:224).  *)
UnitConservation ==
  count + Cardinality(Granted) + taken = InitCount + extra

(* No waiter is queued while a unit is free: up() hands the unit over      *)
(* instead of freeing it (semaphore.c:178).                                *)
NoIdleUnit == ~list_empty(wait_list) => count = 0

(* The wait list holds exactly the waiters that are still to be served,    *)
(* each once.  A waiter lives on its task's stack, so one left on the list *)
(* by a down that returned is a dangling pointer (semaphore.c:229).        *)
WaitListExact ==
  /\ NoDuplicates(wait_list)
  /\ Entries(wait_list) = {t \in sleeper : ~waiter_up[t]}

(* A waiter that was given a unit has been woken for good: nothing puts it *)
(* back to sleep with the unit in hand (semaphore.c:224).                  *)
GrantedIsAwake == \A t \in Granted : schedule_returns(t)

(* Waiter t came before waiter u. *)
Before(t, u) ==
  \E i, j \in 1 .. Len(wait_list) : i < j /\ wait_list[i] = t /\ wait_list[j] = u

(* First come, first served (semaphore.c:211, 257): no waiter is served    *)
(* before one that came earlier, a newcomer queues behind everyone, and it *)
(* takes a free unit only when nobody waits.                               *)
ServedInOrder ==
  [][ /\ \A t, u \in Tasks : Before(t, u) => u \notin Granted'
      /\ \A t, u \in Entries(wait_list') :
           t \in Entries(wait_list) /\ (Before(t, u) \/ u \notin Entries(wait_list))
             /\ t # u => Before(t, u)'
      /\ count' < count => list_empty(wait_list) ]_vars

(* Every waiter is served, or gives up, in the end: no down sleeps for     *)
(* ever while units keep coming back.                                      *)
WaiterServed ==
  \A t \in Tasks : t \in Entries(wait_list) ~> t \notin Entries(wait_list)
-------------------------------------------------------------------------------
(* A task that can run does; whoever has a unit gives it back in the end.  *)
FairSpec ==
  /\ Spec
  /\ \A t \in Tasks : WF_vars(Resume(t))
  /\ WF_vars(UpByHolder)
===============================================================================
