---------------------------- MODULE SemaphoreProofs ----------------------------
(* Theorems about Semaphore for any number of tasks and units. *)
EXTENDS Semaphore, KernelListProofs, FiniteSetTheorems, TLAPS

(* TypeCorrect: every variable keeps its type. *)
LEMMA TypeInductive == TypeOK /\ [Next]_vars => TypeOK'
<1> SUFFICES ASSUME TypeOK, [Next]_vars PROVE TypeOK'
  OBVIOUS
<1> USE DEF TypeOK, TaskTypeOK, taskVars, semVars, vars, TaskStates
<1>1. ASSUME NEW t \in Tasks, NEW st \in SleepStates, NEW tmo \in Timeouts,
             down(t, st, tmo)
      PROVE  TypeOK'
  <2>2. CASE count > 0
    BY <1>1, <2>2 DEF down
  <2>3. CASE count = 0 /\ GivesUp(t, st, tmo)
    BY <1>1, <2>3 DEF down
  <2>4. CASE count = 0 /\ ~GivesUp(t, st, tmo)
    <3>1. wait_list' = Append(wait_list, t) /\ Append(wait_list, t) \in Seq(Tasks)
      BY <1>1, <2>4 DEF down, __down_common, list_add_tail
    <3>2. __down_common(t, st, tmo) BY <1>1, <2>4 DEF down
    <3>3. state' \in [Tasks -> TaskStates] BY <3>2 DEF __down_common, set_task_state
    <3>4. waiter_up' \in [Tasks -> BOOLEAN] BY <3>2 DEF __down_common
    <3>5. sleeper' \in SUBSET Tasks BY <3>2 DEF __down_common
    <3>6. wstate' \in [Tasks -> SleepStates] BY <3>2 DEF __down_common
    <3>7. timeout' \in [Tasks -> Timeouts] BY <3>2 DEF __down_common
    <3>8. QED BY <3>1, <3>2, <3>3, <3>4, <3>5, <3>6, <3>7 DEF __down_common
  <2>5. QED BY <1>1, <2>2, <2>3, <2>4 DEF down
<1>2. CASE down_trylock
  BY <1>2 DEF down_trylock
<1>3. ASSUME NEW t \in Tasks, Resume(t) PROVE TypeOK'
  <2>0. ASSUME Return(t)
        PROVE  /\ sleeper' \in SUBSET Tasks /\ waiter_up' \in [Tasks -> BOOLEAN]
               /\ wstate' \in [Tasks -> SleepStates] /\ timeout' \in [Tasks -> Timeouts]
    <3>1. "UNINTERRUPTIBLE" \in SleepStates /\ "MAX" \in Timeouts
      BY DEF SleepStates, Timeouts
    <3>2. sleeper' \in SUBSET Tasks /\ waiter_up' \in [Tasks -> BOOLEAN]
      BY <2>0 DEF Return
    <3>3. wstate' \in [Tasks -> SleepStates] BY <2>0, <3>1 DEF Return
    <3>4. timeout' \in [Tasks -> Timeouts] BY <2>0, <3>1 DEF Return
    <3>5. QED BY <3>2, <3>3, <3>4
  <2>1. CASE DownReturnsZero(t)
    BY <2>0, <2>1 DEF DownReturnsZero, wake_up_process
  <2>2. CASE DownGivesUp(t)
    <3>1. list_del(wait_list, t) \in Seq(Tasks)
      BY ListDelSeq
    <3>2. QED BY <2>0, <2>2, <3>1 DEF DownGivesUp, wake_up_process
  <2>3. CASE DownSleepsAgain(t)
    BY <2>3 DEF DownSleepsAgain, set_task_state
  <2>4. QED BY <1>3, <2>1, <2>2, <2>3 DEF Resume
<1>4. CASE UpByHolder \/ UpByOther
  <2>1. taken' \in Nat /\ extra' \in Nat
    BY <1>4 DEF UpByHolder, UpByOther
  <2>2. up BY <1>4 DEF UpByHolder, UpByOther
  <2>3. CASE list_empty(wait_list)
    BY <2>1, <2>2, <2>3 DEF up
  <2>4. CASE ~list_empty(wait_list)
    <3>1. Head(wait_list) \in Tasks /\ Tail(wait_list) \in Seq(Tasks)
      BY <2>4 DEF list_empty
    <3>2. QED BY <2>1, <2>2, <2>4, <3>1 DEF up, __up, wake_up_process, list_first_entry
  <2>5. QED BY <2>3, <2>4
<1>5. ASSUME NEW t \in Tasks, process_timeout(t) PROVE TypeOK'
  BY <1>5 DEF process_timeout, wake_up_process, Timeouts
<1>6. ASSUME NEW t \in Tasks, NEW sig \in Sent, Signal(t, sig) PROVE TypeOK'
  BY <1>6 DEF Signal, signal_wake_up, Signals
<1>7. ASSUME NEW t \in Tasks, Stray(t) \/ Delivered(t) PROVE TypeOK'
  BY <1>7 DEF Stray, Delivered, StrayWakeup, SignalDelivered, wake_up_process, Signals
<1>8. CASE UNCHANGED vars
  BY <1>8
<1>9. ASSUME NEW c \in Calls PROVE c[1] \in SleepStates /\ c[2] \in Timeouts
  BY DEF Calls, SleepStates, Timeouts
<1>10. QED BY <1>9, <1>1, <1>2, <1>3, <1>4, <1>5, <1>6, <1>7, <1>8 DEF Next

LEMMA TypeInit == Init => TypeOK
BY SemAssumption DEF Init, TypeOK, TaskInit, TaskTypeOK, TaskStates, SleepStates,
   Signals, Timeouts, sema_init

(* Every variable of the semaphore keeps its type, whatever the calls. *)
THEOREM TypeCorrect == Spec => []TypeOK
BY TypeInit, TypeInductive, PTL DEF Spec
-------------------------------------------------------------------------------
(* GrantedIsAwake is not inductive by itself: a signal that makes          *)
(* schedule() return may be taken back, a state of TASK_RUNNING may not.   *)
GrantedRunning == \A t \in Granted : state[t] = "RUNNING"

SemInv ==
  /\ TypeOK
  /\ WaitListExact
  /\ NoIdleUnit
  /\ GrantedRunning
  /\ UnitConservation

(* What the steps do to the number of granted waiters. *)
LEMMA GrantedFinite ==
  ASSUME TypeOK PROVE IsFiniteSet(Granted) /\ Cardinality(Granted) \in Nat
<1>1. Granted \subseteq Tasks BY DEF Granted, TypeOK
<1>2. QED BY <1>1, SemAssumption, FS_Subset, FS_CardinalityType

LEMMA GrantedGrows ==
  ASSUME TypeOK, NEW t, t \notin Granted, Granted' = Granted \cup {t}
  PROVE  Cardinality(Granted') = Cardinality(Granted) + 1
BY GrantedFinite, FS_AddElement

LEMMA GrantedShrinks ==
  ASSUME TypeOK, NEW t, t \in Granted, Granted' = Granted \ {t}
  PROVE  Cardinality(Granted') = Cardinality(Granted) - 1
BY GrantedFinite, FS_RemoveElement

(* down() and its variants, and down_trylock(). *)
LEMMA DownStep ==
  ASSUME SemInv,
         \/ down_trylock
         \/ \E t \in Tasks, st \in SleepStates, tmo \in Timeouts : down(t, st, tmo)
  PROVE  WaitListExact' /\ NoIdleUnit' /\ GrantedRunning' /\ UnitConservation'
<1> USE DEF SemInv
<1>0. TypeOK OBVIOUS
<1>1. CASE /\ count > 0 /\ count' = count - 1 /\ taken' = taken + 1
           /\ UNCHANGED <<wait_list, waiter_up, sleeper, extra, state>>
  <2>1. UNCHANGED Granted BY <1>1 DEF Granted
  <2>2. list_empty(wait_list) BY <1>1 DEF NoIdleUnit, TypeOK
  <2>3. WaitListExact' BY <1>1 DEF WaitListExact
  <2>4. NoIdleUnit' BY <1>1, <2>2 DEF NoIdleUnit
  <2>5. GrantedRunning' BY <1>1, <2>1 DEF GrantedRunning
  <2>6. UnitConservation'
    <3>1. Cardinality(Granted') = Cardinality(Granted) BY <2>1
    <3>2. QED BY <1>1, <3>1, GrantedFinite, SemAssumption DEF UnitConservation, TypeOK
  <2>7. QED BY <2>3, <2>4, <2>5, <2>6
<1>2. ASSUME NEW t \in Tasks, NEW st \in SleepStates, NEW tmo \in Timeouts,
             t \notin sleeper, count = 0, __down_common(t, st, tmo)
      PROVE  WaitListExact' /\ NoIdleUnit' /\ GrantedRunning' /\ UnitConservation'
  <2>1. /\ wait_list' = list_add_tail(t, wait_list)
        /\ sleeper' = sleeper \cup {t}
        /\ waiter_up'[t] = FALSE /\ \A u \in Tasks : u # t => waiter_up'[u] = waiter_up[u]
        /\ \A u \in Tasks : u # t => state'[u] = state[u]
        /\ UNCHANGED <<count, taken, extra>>
    BY <1>2 DEF __down_common, set_task_state, TypeOK, TaskTypeOK
  <2>2. sleeper \subseteq Tasks BY DEF TypeOK
  <2>3. Granted' = Granted
    BY <1>2, <2>1, <2>2 DEF Granted
  <2>4. WaitListExact'
    <3>1. t \notin Entries(wait_list) BY <1>2 DEF WaitListExact
    <3>2. /\ NoDuplicates(wait_list')
          /\ Entries(wait_list') = Entries(wait_list) \cup {t}
      BY <2>1, <3>1, ListAddTail DEF WaitListExact, TypeOK
    <3>3. {u \in sleeper' : ~waiter_up'[u]} = {u \in sleeper : ~waiter_up[u]} \cup {t}
      BY <1>2, <2>1, <2>2
    <3>4. QED BY <3>2, <3>3 DEF WaitListExact
  <2>5. NoIdleUnit' BY <1>2, <2>1 DEF NoIdleUnit
  <2>6. GrantedRunning'
    <3>1. \A u \in Granted : u # t /\ u \in Tasks BY <1>2, <2>2 DEF Granted
    <3>2. QED BY <2>1, <2>3, <3>1 DEF GrantedRunning
  <2>7. UnitConservation' BY <2>1, <2>3 DEF UnitConservation
  <2>8. QED BY <2>4, <2>5, <2>6, <2>7
<1>3. CASE UNCHANGED vars
  BY <1>3 DEF vars, WaitListExact, NoIdleUnit, GrantedRunning, UnitConservation, Granted
<1>4. QED BY <1>1, <1>2, <1>3 DEF down_trylock, down, taskVars

(* A waiter back from schedule_timeout(). *)
LEMMA ResumeStep ==
  ASSUME SemInv, NEW t \in Tasks, Resume(t)
  PROVE  WaitListExact' /\ NoIdleUnit' /\ GrantedRunning' /\ UnitConservation'
<1> USE DEF SemInv
<1>0. TypeOK /\ sleeper \subseteq Tasks BY DEF TypeOK
<1>1. CASE DownReturnsZero(t)
  <2>1. /\ t \in sleeper /\ waiter_up[t] /\ sleeper' = sleeper \ {t} /\ taken' = taken + 1
        /\ UNCHANGED <<count, wait_list, extra>>
        /\ \A u \in sleeper' : waiter_up'[u] = waiter_up[u]
        /\ \A u \in Tasks : state[u] = "RUNNING" => state'[u] = "RUNNING"
    BY <1>0, <1>1 DEF DownReturnsZero, Return, wake_up_process, TypeOK, TaskTypeOK
  <2>2. t \in Granted /\ Granted' = Granted \ {t} BY <2>1 DEF Granted
  <2>3. WaitListExact' BY <2>1 DEF WaitListExact
  <2>4. NoIdleUnit' BY <2>1 DEF NoIdleUnit
  <2>5. GrantedRunning' BY <1>0, <2>1, <2>2 DEF GrantedRunning, Granted
  <2>6. UnitConservation'
    <3>1. Cardinality(Granted') = Cardinality(Granted) - 1 BY <1>0, <2>2, GrantedShrinks
    <3>2. QED BY <2>1, <3>1, GrantedFinite, SemAssumption DEF UnitConservation, TypeOK
  <2>7. QED BY <2>3, <2>4, <2>5, <2>6
<1>2. CASE DownGivesUp(t)
  <2>1. /\ t \in sleeper /\ ~waiter_up[t] /\ sleeper' = sleeper \ {t}
        /\ wait_list' = list_del(wait_list, t)
        /\ UNCHANGED <<count, taken, extra>>
        /\ \A u \in sleeper' : waiter_up'[u] = waiter_up[u]
        /\ \A u \in Tasks : state[u] = "RUNNING" => state'[u] = "RUNNING"
    BY <1>0, <1>2 DEF DownGivesUp, Return, wake_up_process, TypeOK, TaskTypeOK
  <2>2. Granted' = Granted BY <2>1 DEF Granted
  <2>3. t \in Entries(wait_list) BY <2>1 DEF WaitListExact
  <2>4. /\ NoDuplicates(wait_list')
        /\ Entries(wait_list') = Entries(wait_list) \ {t}
    BY <2>1, <2>3, ListDel DEF WaitListExact, TypeOK
  <2>5. WaitListExact'
    <3>1. {u \in sleeper' : ~waiter_up'[u]} = {u \in sleeper : ~waiter_up[u]} \ {t}
      BY <2>1
    <3>2. QED BY <2>4, <3>1 DEF WaitListExact
  <2>6. NoIdleUnit'
    <3>1. ~list_empty(wait_list) BY <2>3, ListEmpty DEF TypeOK
    <3>2. QED BY <2>1, <3>1 DEF NoIdleUnit
  <2>7. GrantedRunning' BY <1>0, <2>1, <2>2 DEF GrantedRunning, Granted
  <2>8. UnitConservation' BY <2>1, <2>2 DEF UnitConservation
  <2>9. QED BY <2>5, <2>6, <2>7, <2>8
<1>3. CASE DownSleepsAgain(t)
  <2>1. /\ ~waiter_up[t]
        /\ UNCHANGED <<count, wait_list, waiter_up, sleeper, taken, extra>>
        /\ \A u \in Tasks : u # t => state'[u] = state[u]
    BY <1>3 DEF DownSleepsAgain, set_task_state, semVars, TypeOK, TaskTypeOK
  <2>2. Granted' = Granted BY <2>1 DEF Granted
  <2>3. GrantedRunning' BY <1>0, <2>1, <2>2 DEF GrantedRunning, Granted
  <2>4. QED BY <2>1, <2>2, <2>3 DEF WaitListExact, NoIdleUnit, UnitConservation
<1>4. QED BY <1>1, <1>2, <1>3 DEF Resume

(* up(), by whoever calls it. *)
LEMMA UpStep ==
  ASSUME SemInv, UpByHolder \/ UpByOther
  PROVE  WaitListExact' /\ NoIdleUnit' /\ GrantedRunning' /\ UnitConservation'
<1> USE DEF SemInv
<1>0. TypeOK /\ sleeper \subseteq Tasks BY DEF TypeOK
<1>1. /\ up /\ UNCHANGED sleeper
      /\ \/ taken > 0 /\ taken' = taken - 1 /\ extra' = extra
         \/ taken' = taken /\ extra' = extra + 1
  BY DEF UpByHolder, UpByOther, up
<1>2. CASE list_empty(wait_list)
  <2>1. count' = count + 1 /\ UNCHANGED <<wait_list, waiter_up, state, sleeper>>
    BY <1>1, <1>2 DEF up
  <2>2. Granted' = Granted BY <2>1 DEF Granted
  <2>3. UnitConservation'
    BY <1>1, <2>1, <2>2, GrantedFinite, SemAssumption DEF UnitConservation, TypeOK
  <2>4. QED BY <1>2, <2>1, <2>2, <2>3 DEF WaitListExact, NoIdleUnit, GrantedRunning
<1>3. CASE ~list_empty(wait_list)
  <2>1. PICK t \in Tasks : t = list_first_entry(wait_list) /\ t \in Entries(wait_list)
    BY <1>3, ListEmpty DEF TypeOK
  <2>2. t \in sleeper /\ ~waiter_up[t] BY <2>1 DEF WaitListExact
  <2>3. /\ wait_list' = Tail(wait_list) /\ UNCHANGED <<count, sleeper>>
        /\ waiter_up'[t] = TRUE /\ \A u \in Tasks : u # t => waiter_up'[u] = waiter_up[u]
        /\ state'[t] = "RUNNING" /\ \A u \in Tasks : u # t => state'[u] = state[u]
    BY <1>1, <1>3, <2>1 DEF up, __up, wake_up_process, TypeOK, TaskTypeOK
  <2>4. t \notin Granted /\ Granted' = Granted \cup {t}
    BY <1>0, <2>2, <2>3 DEF Granted
  <2>5. WaitListExact'
    <3>1. /\ NoDuplicates(wait_list')
          /\ Entries(wait_list') = Entries(wait_list) \ {t}
      BY <1>3, <2>1, <2>3, ListTail DEF WaitListExact, TypeOK
    <3>2. {u \in sleeper' : ~waiter_up'[u]} = {u \in sleeper : ~waiter_up[u]} \ {t}
      BY <1>0, <2>3
    <3>3. QED BY <3>1, <3>2 DEF WaitListExact
  <2>6. NoIdleUnit' BY <1>3, <2>3 DEF NoIdleUnit
  <2>7. GrantedRunning'
    <3>1. Granted \subseteq Tasks BY <1>0 DEF Granted
    <3>2. QED BY <2>3, <2>4, <3>1 DEF GrantedRunning
  <2>8. UnitConservation'
    <3>1. Cardinality(Granted') = Cardinality(Granted) + 1 BY <1>0, <2>4, GrantedGrows
    <3>2. InitCount \in Nat BY SemAssumption
    <3>3. Cardinality(Granted) \in Nat BY <1>0, GrantedFinite
    <3>4. count \in Nat /\ taken \in Nat /\ extra \in Nat BY DEF TypeOK
    <3>5. count' + Cardinality(Granted') + taken' = InitCount + extra'
      BY <1>1, <2>3, <3>1, <3>2, <3>3, <3>4 DEF UnitConservation
    <3>6. QED BY <3>5 DEF UnitConservation
  <2>9. QED BY <2>5, <2>6, <2>7, <2>8
<1>4. QED BY <1>2, <1>3

(* Timers, signals and stray wakeups only end sleeps. *)
LEMMA WakeupOnlyStep ==
  ASSUME SemInv, UNCHANGED <<count, wait_list, waiter_up, sleeper, taken, extra>>,
         \A u \in Tasks : state[u] = "RUNNING" => state'[u] = "RUNNING"
  PROVE  WaitListExact' /\ NoIdleUnit' /\ GrantedRunning' /\ UnitConservation'
<1>1. Granted' = Granted BY DEF Granted
<1>2. Granted \subseteq Tasks BY DEF Granted, SemInv, TypeOK
<1>3. GrantedRunning' BY <1>1, <1>2 DEF GrantedRunning, SemInv
<1>4. QED BY <1>1, <1>3 DEF WaitListExact, NoIdleUnit, UnitConservation, SemInv

LEMMA SemStep == SemInv /\ [Next]_vars => SemInv'
<1> SUFFICES ASSUME SemInv, [Next]_vars
             PROVE  WaitListExact' /\ NoIdleUnit' /\ GrantedRunning' /\ UnitConservation'
  BY TypeInductive DEF SemInv
<1>0. state \in [Tasks -> TaskStates] BY DEF SemInv, TypeOK, TaskTypeOK
<1>1. ASSUME NEW t \in Tasks, NEW c \in Calls, down(t, c[1], c[2])
      PROVE  WaitListExact' /\ NoIdleUnit' /\ GrantedRunning' /\ UnitConservation'
  <2>1. c[1] \in SleepStates /\ c[2] \in Timeouts BY DEF Calls, SleepStates, Timeouts
  <2>2. QED BY <1>1, <2>1, DownStep
<1>2. ASSUME NEW t \in Tasks,
             \/ process_timeout(t) \/ Stray(t) \/ Delivered(t)
             \/ \E sig \in Sent : Signal(t, sig)
      PROVE  WaitListExact' /\ NoIdleUnit' /\ GrantedRunning' /\ UnitConservation'
  <2>1. UNCHANGED <<count, wait_list, waiter_up, sleeper, taken, extra>>
    BY <1>2 DEF process_timeout, Signal, Stray, Delivered, semVars
  <2>2. \A u \in Tasks : state[u] = "RUNNING" => state'[u] = "RUNNING"
    BY <1>0, <1>2 DEF process_timeout, Signal, Stray, Delivered, signal_wake_up, StrayWakeup,
       SignalDelivered, wake_up_process
  <2>3. QED BY <2>1, <2>2, WakeupOnlyStep
<1>3. CASE UNCHANGED vars
  BY <1>3, WakeupOnlyStep DEF vars
<1>4. QED BY <1>1, <1>2, <1>3, DownStep, ResumeStep, UpStep DEF Next

LEMMA SemInvariant == Spec => []SemInv
<1>1. Init => SemInv
  <2> SUFFICES ASSUME Init PROVE SemInv
    OBVIOUS
  <2>1. TypeOK BY TypeInit
  <2>2. Granted = {} BY DEF Init, Granted
  <2>3. WaitListExact BY DEF Init, sema_init, WaitListExact, NoDuplicates, Entries
  <2>4. NoIdleUnit BY DEF Init, sema_init, NoIdleUnit, list_empty
  <2>5. UnitConservation
    BY <2>2, FS_EmptySet, SemAssumption DEF Init, sema_init, UnitConservation
  <2>6. QED BY <2>1, <2>2, <2>3, <2>4, <2>5 DEF SemInv, GrantedRunning
<1>2. QED BY <1>1, SemStep, PTL DEF Spec

(* No unit is lost or made up, for any number of tasks, units and signals. *)
THEOREM ConservationCorrect == Spec => []UnitConservation
BY SemInvariant, PTL DEF SemInv

(* No waiter is queued while a unit is free. *)
THEOREM NoIdleUnitCorrect == Spec => []NoIdleUnit
BY SemInvariant, PTL DEF SemInv

(* The wait list holds exactly the waiters still to be served. *)
THEOREM WaitListCorrect == Spec => []WaitListExact
BY SemInvariant, PTL DEF SemInv

(* A waiter that was given a unit is awake. *)
THEOREM GrantedAwakeCorrect == Spec => []GrantedIsAwake
<1>1. SemInv => GrantedIsAwake
  BY DEF SemInv, GrantedRunning, GrantedIsAwake, schedule_returns
<1>2. QED BY <1>1, SemInvariant, PTL

-------------------------------------------------------------------------------
(* What a step may do to the wait list, and who may be given a unit by it. *)
QueueMove ==
  \/ /\ wait_list' = wait_list /\ Granted' \subseteq Granted
     /\ count' < count => count > 0
  \/ /\ \E t \in Tasks : wait_list' = list_add_tail(t, wait_list)
     /\ Granted' \subseteq Granted /\ count' = count
  \/ /\ \E t \in Entries(wait_list) : wait_list' = list_del(wait_list, t)
     /\ Granted' \subseteq Granted /\ count' = count
  \/ /\ ~list_empty(wait_list) /\ wait_list' = Tail(wait_list)
     /\ Granted' \subseteq Granted \cup {list_first_entry(wait_list)} /\ count' = count

LEMMA StepMovesQueue ==
  ASSUME SemInv, [Next]_vars
  PROVE  QueueMove
<1>1. /\ TypeOK /\ WaitListExact /\ count \in Nat /\ sleeper \subseteq Tasks
      /\ waiter_up \in [Tasks -> BOOLEAN]
  BY DEF SemInv, TypeOK
<1>2. ASSUME NEW t \in Tasks, NEW c \in Calls, down(t, c[1], c[2]) PROVE QueueMove
  <2>1. CASE count > 0
    BY <1>1, <1>2, <2>1 DEF down, QueueMove, Granted
  <2>2. CASE count = 0 /\ ~GivesUp(t, c[1], c[2])
    <3>1. /\ wait_list' = list_add_tail(t, wait_list) /\ count' = count
          /\ waiter_up' = [waiter_up EXCEPT ![t] = FALSE] /\ sleeper' = sleeper \cup {t}
      BY <1>2, <2>2 DEF down, __down_common
    <3>2. Granted' \subseteq Granted BY <1>1, <3>1 DEF Granted
    <3>3. QED BY <3>1, <3>2 DEF QueueMove
  <2>3. CASE count = 0 /\ GivesUp(t, c[1], c[2])
    BY <1>1, <1>2, <2>3 DEF down, QueueMove, Granted, vars, semVars
  <2>4. QED BY <1>1, <2>1, <2>2, <2>3
<1>3. CASE down_trylock BY <1>1, <1>3 DEF down_trylock, QueueMove, Granted
<1>4. ASSUME NEW t \in Tasks, Resume(t) PROVE QueueMove
  <2>1. ASSUME Return(t) PROVE Granted' \subseteq Granted BY <1>1, <2>1 DEF Return, Granted
  <2>2. CASE DownReturnsZero(t) BY <1>1, <2>1, <2>2 DEF DownReturnsZero, QueueMove
  <2>3. CASE DownGivesUp(t)
    <3>1. t \in Entries(wait_list) BY <1>1, <2>3 DEF DownGivesUp, WaitListExact
    <3>2. QED BY <1>1, <2>1, <2>3, <3>1 DEF DownGivesUp, QueueMove
  <2>4. CASE DownSleepsAgain(t)
    BY <1>1, <2>4 DEF DownSleepsAgain, semVars, QueueMove, Granted
  <2>5. QED BY <1>4, <2>2, <2>3, <2>4 DEF Resume
<1>5. CASE UpByHolder \/ UpByOther
  <2>1. up /\ sleeper' = sleeper BY <1>5 DEF UpByHolder, UpByOther, up
  <2>2. CASE list_empty(wait_list)
    BY <1>1, <2>1, <2>2 DEF up, QueueMove, Granted
  <2>3. CASE ~list_empty(wait_list)
    <3>1. /\ wait_list' = Tail(wait_list) /\ count' = count
          /\ waiter_up' = [waiter_up EXCEPT ![list_first_entry(wait_list)] = TRUE]
      BY <2>1, <2>3 DEF up, __up
    <3>2. Granted' \subseteq Granted \cup {list_first_entry(wait_list)}
      BY <1>1, <2>1, <3>1 DEF Granted
    <3>3. QED BY <2>3, <3>1, <3>2 DEF QueueMove
  <2>4. QED BY <2>2, <2>3
<1>6. ASSUME NEW t \in Tasks,
             \/ process_timeout(t) \/ Stray(t) \/ Delivered(t)
             \/ \E sig \in Sent : Signal(t, sig)
      PROVE  QueueMove
  BY <1>1, <1>6 DEF process_timeout, Signal, Stray, Delivered, semVars, QueueMove, Granted
<1>7. CASE UNCHANGED vars BY <1>1, <1>7 DEF vars, semVars, QueueMove, Granted
<1>8. QED BY <1>2, <1>3, <1>4, <1>5, <1>6, <1>7 DEF Next

(* No step of any task serves a waiter before one that came earlier, lets  *)
(* a newcomer queue ahead of anyone, or takes a free unit past the queue   *)
(* (semaphore.c:211, 257), for any number of tasks.                        *)
THEOREM ServedInOrderCorrect == Spec => ServedInOrder
<1> DEFINE InOrder ==
      /\ \A t, u \in Tasks : Before(t, u) => u \notin Granted'
      /\ \A t, u \in Entries(wait_list') :
           t \in Entries(wait_list) /\ (Before(t, u) \/ u \notin Entries(wait_list))
             /\ t # u => Before(t, u)'
      /\ count' < count => list_empty(wait_list)
<1>1. ASSUME SemInv, [Next]_vars PROVE InOrder
  <2>1. /\ TypeOK /\ WaitListExact /\ NoIdleUnit /\ wait_list \in Seq(Tasks)
        /\ NoDuplicates(wait_list) /\ count \in Nat
    BY <1>1 DEF SemInv, TypeOK, WaitListExact
  <2>2. QueueMove BY <1>1, StepMovesQueue
  <2>3. \A t, u : /\ Before(t, u) <=> Precedes(wait_list, t, u)
                  /\ Before(t, u)' <=> Precedes(wait_list', t, u)
    BY DEF Before, Precedes
  <2>4. ASSUME NEW t \in Tasks, NEW u \in Tasks, Precedes(wait_list, t, u) PROVE u \notin Granted'
    <3>1. u \in Entries(wait_list) BY <2>4, PrecedesEntries
    <3>2. u \notin Granted BY <2>1, <3>1 DEF WaitListExact, Granted
    <3>3. ~list_empty(wait_list) BY <2>1, <3>1, ListEmpty
    <3>4. u # list_first_entry(wait_list) BY <2>1, <2>4, <3>3, PrecedesTail
    <3>5. QED BY <2>2, <3>2, <3>4 DEF QueueMove
  <2>5. ASSUME NEW t \in Entries(wait_list'), NEW u \in Entries(wait_list'),
               t \in Entries(wait_list), t # u,
               Precedes(wait_list, t, u) \/ u \notin Entries(wait_list)
        PROVE  Precedes(wait_list', t, u)
    <3>1. CASE wait_list' = wait_list BY <2>5, <3>1
    <3>2. ASSUME NEW e \in Tasks, wait_list' = list_add_tail(e, wait_list)
          PROVE  Precedes(wait_list', t, u)
      <4>1. Entries(wait_list') = Entries(wait_list) \cup {e} BY <2>1, <3>2, ListAddTail
      <4>2. CASE Precedes(wait_list, t, u) BY <2>1, <3>2, <4>2, PrecedesAddTail
      <4>3. CASE u = e BY <2>1, <2>5, <3>2, <4>3, PrecedesAddTail
      <4>4. QED BY <2>5, <4>1, <4>2, <4>3
    <3>3. ASSUME NEW e \in Entries(wait_list), wait_list' = list_del(wait_list, e)
          PROVE  Precedes(wait_list', t, u)
      <4>1. Entries(wait_list') = Entries(wait_list) \ {e} BY <2>1, <3>3, ListDel
      <4>2. QED BY <2>1, <2>5, <3>3, <4>1, PrecedesDel
    <3>4. ASSUME ~list_empty(wait_list), wait_list' = Tail(wait_list)
          PROVE  Precedes(wait_list', t, u)
      <4>1. Entries(wait_list') = Entries(wait_list) \ {list_first_entry(wait_list)}
        BY <2>1, <3>4, ListTail
      <4>2. QED BY <2>1, <2>5, <3>4, <4>1, PrecedesTail
    <3>5. QED BY <2>2, <3>1, <3>2, <3>3, <3>4 DEF QueueMove
  <2>6. ASSUME count' < count PROVE list_empty(wait_list)
    BY <2>1, <2>2, <2>6 DEF QueueMove, NoIdleUnit
  <2>7. QED BY <2>3, <2>4, <2>5, <2>6
<1>2. SemInv /\ [Next]_vars => [InOrder]_vars BY <1>1
<1>3. QED BY <1>2, SemInvariant, PTL DEF Spec, ServedInOrder

===============================================================================
