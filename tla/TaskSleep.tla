------------------------------- MODULE TaskSleep -------------------------------
(***************************************************************************)
(* The sleep and wakeup protocol every blocking primitive of the kernel is *)
(* built on: a task announces that it will sleep by setting its ->state,   *)
(* drops its locks and calls schedule(); wakers set ->state back to        *)
(* TASK_RUNNING.  A wakeup between the announcement and schedule() makes   *)
(* schedule() return at once, which is what keeps it from being lost.      *)
(*                                                                         *)
(* schedule() and try_to_wake_up() test and set ->state under the run      *)
(* queue's lock, so each is one atomic step.                               *)
(***************************************************************************)
EXTENDS Naturals

CONSTANT Tasks

VARIABLES
  state,    \* task_struct.state
  sigpend   \* what TIF_SIGPENDING and the pending set say of each task

taskVars == <<state, sigpend>>

SleepStates == {"INTERRUPTIBLE", "UNINTERRUPTIBLE", "KILLABLE"}
TaskStates  == SleepStates \cup {"RUNNING"}
Signals     == {"none", "pending", "fatal"}

TaskTypeOK ==
  /\ state \in [Tasks -> TaskStates]
  /\ sigpend \in [Tasks -> Signals]

TaskInit ==
  /\ state = [t \in Tasks |-> "RUNNING"]
  /\ sigpend = [t \in Tasks |-> "none"]

(* Would a signal pending with task t interrupt a sleep in state st? *)
signal_pending_state(st, t) ==
  \/ st = "INTERRUPTIBLE" /\ sigpend[t] # "none"
  \/ st = "KILLABLE" /\ sigpend[t] = "fatal"

(* set_task_state(): task t is about to sleep in state st. *)
set_task_state(t, st) == state' = [state EXCEPT ![t] = st]

(* schedule() called by t returns now.  It does not return while t sleeps  *)
(* and no signal that matches its state is pending.                        *)
schedule_returns(t) ==
  state[t] = "RUNNING" \/ signal_pending_state(state[t], t)

(* wake_up_process(): TASK_ALL, so whatever t waits for. *)
wake_up_process(t) == state' = [state EXCEPT ![t] = "RUNNING"]

(* A wakeup that has nothing to do with what t waits for: t is still on    *)
(* some other wait queue, or a wakeup meant for an earlier sleep is late.  *)
StrayWakeup(t) ==
  /\ state[t] # "RUNNING"
  /\ wake_up_process(t)
  /\ UNCHANGED sigpend

(* signal_wake_up(): the flag is set, then a sleep the signal may          *)
(* interrupt is ended.  A fatal signal stays the strongest one pending.    *)
signal_wake_up(t, sig) ==
  /\ sig \in {"pending", "fatal"}
  /\ sigpend[t] # "fatal" /\ sigpend[t] # sig
  /\ sigpend' = [sigpend EXCEPT ![t] = sig]
  /\ state' = [state EXCEPT ![t] =
                 IF @ = "INTERRUPTIBLE" \/ (@ = "KILLABLE" /\ sig = "fatal")
                 THEN "RUNNING" ELSE @]

(* The pending signal is taken on the way back to user mode. *)
SignalDelivered(t) ==
  /\ sigpend[t] # "none"
  /\ sigpend' = [sigpend EXCEPT ![t] = "none"]
  /\ UNCHANGED state

===============================================================================
