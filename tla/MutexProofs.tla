------------------------------ MODULE MutexProofs ------------------------------
(***************************************************************************)
(* Mutual exclusion and the absence of lost wakeups, for every number of   *)
(* tasks and every fast path.                                              *)
(***************************************************************************)
EXTENDS Mutex, KernelListProofs, TLAPS

(* The count is 1 exactly while nobody has the mutex. *)
FreeIffOne == count = 1 <=> \A t \in Tasks : ~Holds(t)

(* mutex-xchg.h's trylock only puts a negative count back. *)
RestoreNegative ==
  \A t \in Tasks : pc[t] = "try_restore" => prev[t] < 0 /\ fastpath = "xchg"

(* wait_lock is held by the task that is in a section it protects. *)
WaitLockPCs ==
  {"retry", "done", "done_count", "try_owner", "try_got", "try_failed"}
WaitLockHeld == \A t \in Tasks : wait_lock = t <=> pc[t] \in WaitLockPCs

(* While the spinlock based trylock has failed and not yet put the count   *)
(* to 0 the holder cannot give the mutex up: it finds the count negative   *)
(* and ends up waiting for wait_lock.                                      *)
NoUnlock == count < 0 \/ \E u \in Tasks : pc[u] = "unlock_slow"
FailedTrylock ==
  \A t \in Tasks :
    pc[t] = "try_failed" => fastpath \in {"null", "dec386"} /\ NoUnlock

ExclusionInv ==
  /\ TypeOK /\ MutualExclusion /\ FreeIffOne /\ RestoreNegative
  /\ WaitLockHeld /\ FailedTrylock
-------------------------------------------------------------------------------
(* Every variable keeps its type; that count stays below 2 rests on no task *)
(* unlocking a mutex that is not locked.                                    *)
LEMMA TypeStep == ExclusionInv /\ [Next]_vars => TypeOK'
<1> SUFFICES ASSUME TypeOK, FreeIffOne, [Next]_vars PROVE TypeOK'
  BY DEF ExclusionInv
<1> USE MutexAssumption
        DEF TypeOK, TaskTypeOK, taskVars, mutexVars, vars, TaskStates, PCs, Goto, Counts
<1>1. ASSUME NEW t \in Tasks, NEW st \in LockStates, mutex_lock(t, st)
      PROVE  TypeOK'
  <2>1. PICK ok \in BOOLEAN :
          __mutex_fastpath_lock(ok) /\ Goto(t, IF ok THEN "set_owner" ELSE LockCommon)
    BY <1>1 DEF mutex_lock
  <2>2. count' \in Counts
    BY <2>1 DEF __mutex_fastpath_lock, DecLock, LlscLock, XchgLock, NullLock
  <2>3. pc' \in [Tasks -> PCs]
    BY <2>1 DEF LockCommon
  <2>4. mstate' \in [Tasks -> SleepStates]
    BY <1>1 DEF mutex_lock
  <2>5. QED BY <1>1, <2>2, <2>3, <2>4 DEF mutex_lock
<1>2. ASSUME NEW t \in Tasks, mutex_trylock(t) PROVE TypeOK'
  <2>1. CASE TrylockCmpxchg(t) BY <2>1 DEF TrylockCmpxchg
  <2>2. CASE TrylockXchg(t) BY <2>2 DEF TrylockXchg
  <2>3. CASE TrylockSlowpath(t) BY <2>3 DEF TrylockSlowpath
  <2>4. QED BY <1>2, <2>1, <2>2, <2>3 DEF mutex_trylock
<1>3. ASSUME NEW t \in Tasks, Step(t) PROVE TypeOK'
  <2>1. CASE mutex_set_owner(t) BY <2>1 DEF mutex_set_owner
  <2>2. CASE SpinReadsOwner(t) BY <2>2 DEF SpinReadsOwner
  <2>3. CASE mutex_spin_on_owner(t) BY <2>3 DEF mutex_spin_on_owner
  <2>4. CASE SpinCmpxchg(t)
    <3>1. count' \in Counts BY <2>4 DEF SpinCmpxchg
    <3>2. pc' \in [Tasks -> PCs] BY <2>4 DEF SpinCmpxchg
    <3>3. QED BY <2>4, <3>1, <3>2 DEF SpinCmpxchg
  <2>5. CASE LockSlowpath(t)
    <3>1. Append(wait_list, t) \in Seq(Tasks) OBVIOUS
    <3>2. QED BY <2>5, <3>1 DEF LockSlowpath, list_add_tail
  <2>6. CASE LockRetry(t)
    <3>1. list_del(wait_list, t) \in Seq(Tasks) BY ListDelSeq
    <3>2. wait_list' \in Seq(Tasks) BY <2>6, <3>1 DEF LockRetry
    <3>3. state' \in [Tasks -> TaskStates] BY <2>6 DEF LockRetry, set_task_state
    <3>4. pc' \in [Tasks -> PCs] BY <2>6 DEF LockRetry
    <3>5. wait_lock' \in Tasks \cup {NULL} BY <2>6 DEF LockRetry
    <3>6. QED BY <2>6, <3>2, <3>3, <3>4, <3>5 DEF LockRetry
  <2>7. CASE LockWakes(t) BY <2>7 DEF LockWakes, wake_up_process
  <2>8. CASE LockDone(t)
    <3>1. list_del(wait_list, t) \in Seq(Tasks) BY ListDelSeq
    <3>2. QED BY <2>8, <3>1 DEF LockDone
  <2>9. CASE LockDoneCount(t) BY <2>9 DEF LockDoneCount
  <2>10. CASE mutex_unlock(t) BY <2>10 DEF mutex_unlock, mutex_clear_owner
  <2>11. CASE UnlockFastpath(t)
    <3>1. PICK ok \in BOOLEAN :
            __mutex_fastpath_unlock(ok) /\ Goto(t, IF ok THEN "idle" ELSE "unlock_slow")
      BY <2>11 DEF UnlockFastpath
    <3>2. Holds(t) BY <2>11 DEF UnlockFastpath, Holds, HolderPCs
    <3>3. count \in Int /\ count < 1 BY <3>2 DEF FreeIffOne
    <3>4. count' \in Counts
      BY <3>1, <3>3 DEF __mutex_fastpath_unlock, DecUnlock, LlscUnlock, XchgUnlock, NullLock
    <3>5. QED BY <2>11, <3>1, <3>4 DEF UnlockFastpath
  <2>12. CASE __mutex_unlock_slowpath(t)
    <3>1. ~list_empty(wait_list) => Head(wait_list) \in Tasks
      BY DEF list_empty
    <3>2. state' \in [Tasks -> TaskStates]
      BY <2>12, <3>1 DEF __mutex_unlock_slowpath, FirstWaiterWoken, wake_up_process,
         list_first_entry
    <3>3. count' \in Counts BY <2>12 DEF __mutex_unlock_slowpath
    <3>4. owner' \in Tasks \cup {NULL}
      BY <2>12 DEF __mutex_unlock_slowpath, debug_mutex_unlock, mutex_clear_owner
    <3>5. QED BY <2>12, <3>2, <3>3, <3>4 DEF __mutex_unlock_slowpath
  <2>13. CASE TrylockRestore(t) BY <2>13 DEF TrylockRestore
  <2>14. CASE TrylockOwner(t) BY <2>14 DEF TrylockOwner
  <2>15. CASE TrylockCount(t) BY <2>15 DEF TrylockCount
  <2>16. QED BY <1>3, <2>1, <2>2, <2>3, <2>4, <2>5, <2>6, <2>7, <2>8, <2>9, <2>10,
               <2>11, <2>12, <2>13, <2>14, <2>15 DEF Step
<1>4. ASSUME NEW t \in Tasks, NEW sig \in Sent, Signal(t, sig) PROVE TypeOK'
  BY <1>4 DEF Signal, signal_wake_up, Signals
<1>5. ASSUME NEW t \in Tasks, Stray(t) \/ Delivered(t) PROVE TypeOK'
  BY <1>5 DEF Stray, Delivered, StrayWakeup, SignalDelivered, wake_up_process, Signals
<1>6. CASE debug_locks_off BY <1>6 DEF debug_locks_off
<1>7. CASE UNCHANGED vars BY <1>7
<1>8. QED BY <1>1, <1>2, <1>3, <1>4, <1>5, <1>6, <1>7 DEF Next

(* A step that takes, keeps or drops wait_lock as the place it goes to     *)
(* says, and takes it only when it is free.                                *)
LockMove(t, q) ==
  /\ wait_lock' = IF q \in WaitLockPCs THEN t ELSE IF wait_lock = t THEN NULL ELSE wait_lock
  /\ q \in WaitLockPCs => wait_lock \in {NULL, t}

(* What every step of a task does that matters to exclusion: it moves the  *)
(* task to q, and it takes a free mutex, gives up a held one, or leaves    *)
(* both the holder and "is count 1?" alone; it goes to "try_restore" only  *)
(* with a negative count to put back; and while another task has wait_lock *)
(* it does not undo what that task's failed trylock relies on.             *)
SafeMove(t, q) ==
  /\ q \in PCs /\ Goto(t, q)
  /\ \/ (q \in HolderPCs <=> Holds(t)) /\ (count' = 1 <=> count = 1)
     \/ count = 1 /\ q \in HolderPCs /\ count' # 1
     \/ Holds(t) /\ q \notin HolderPCs /\ count' = 1
  /\ \/ UNCHANGED prev /\ q # "try_restore"
     \/ /\ prev' = [prev EXCEPT ![t] = count]
        /\ q = "try_restore" => count < 0 /\ fastpath = "xchg"
  /\ LockMove(t, q)
  /\ q = "try_failed" => count' < 0 /\ fastpath \in {"null", "dec386"}
  /\ /\ fastpath \in {"null", "dec386"} /\ wait_lock \notin {NULL, t}
     /\ count < 0 \/ pc[t] = "unlock_slow"
     => count' < 0 \/ q = "unlock_slow"

(* Such a step preserves exclusion. *)
LEMMA SafeMoveExclusive ==
  ASSUME ExclusionInv, NEW t \in Tasks, NEW q, SafeMove(t, q)
  PROVE  /\ MutualExclusion' /\ FreeIffOne' /\ RestoreNegative'
         /\ WaitLockHeld' /\ FailedTrylock'
<1>1. /\ pc'[t] = q /\ UNCHANGED fastpath
      /\ \A u \in Tasks : u # t => pc'[u] = pc[u]
  BY DEF SafeMove, Goto, ExclusionInv, TypeOK
<1>2. RestoreNegative'
  BY <1>1 DEF SafeMove, ExclusionInv, TypeOK, RestoreNegative
<1>w. WaitLockHeld'
  BY <1>1, MutexAssumption DEF SafeMove, LockMove, ExclusionInv, TypeOK, WaitLockHeld
<1>f. FailedTrylock'
  <2> SUFFICES ASSUME NEW u \in Tasks, pc'[u] = "try_failed"
               PROVE  fastpath \in {"null", "dec386"} /\ NoUnlock'
    BY <1>1 DEF FailedTrylock
  <2>1. CASE u = t BY <1>1, <2>1 DEF SafeMove, NoUnlock
  <2>2. CASE u # t
    <3>1. pc[u] = "try_failed" BY <1>1, <2>2
    <3>2. fastpath \in {"null", "dec386"} /\ NoUnlock
      BY <3>1 DEF ExclusionInv, FailedTrylock
    <3>3. wait_lock = u /\ u \notin {NULL, t}
      BY <2>2, <3>1, MutexAssumption DEF ExclusionInv, WaitLockHeld, WaitLockPCs
    <3>4. CASE count < 0 \/ pc[t] = "unlock_slow"
      BY <1>1, <3>2, <3>3, <3>4 DEF SafeMove, NoUnlock
    <3>5. ASSUME NEW v \in Tasks, pc[v] = "unlock_slow", v # t PROVE NoUnlock'
      BY <1>1, <3>5 DEF NoUnlock
    <3>6. QED BY <3>2, <3>4, <3>5 DEF NoUnlock
  <2>3. QED BY <2>1, <2>2
<1>3. CASE (q \in HolderPCs <=> Holds(t)) /\ (count' = 1 <=> count = 1)
  <2>1. \A u \in Tasks : Holds(u)' <=> Holds(u)
    BY <1>1, <1>3 DEF Holds, HolderPCs
  <2>2. QED BY <1>2, <1>w, <1>f, <1>3, <2>1 DEF ExclusionInv, MutualExclusion, FreeIffOne
<1>4. CASE count = 1 /\ q \in HolderPCs /\ count' # 1
  <2>1. \A u \in Tasks : Holds(u)' <=> u = t
    BY <1>1, <1>4 DEF Holds, HolderPCs, ExclusionInv, FreeIffOne
  <2>2. QED BY <1>2, <1>w, <1>f, <1>4, <2>1 DEF MutualExclusion, FreeIffOne
<1>5. CASE Holds(t) /\ q \notin HolderPCs /\ count' = 1
  <2>1. \A u \in Tasks : ~Holds(u)'
    BY <1>1, <1>5 DEF Holds, HolderPCs, ExclusionInv, MutualExclusion
  <2>2. QED BY <1>2, <1>w, <1>f, <1>5, <2>1 DEF MutualExclusion, FreeIffOne
<1>6. QED BY <1>3, <1>4, <1>5 DEF SafeMove

(* Every step of a task is of that kind. *)
LEMMA TaskStepSafe ==
  ASSUME ExclusionInv, NEW t \in Tasks,
         (\E st \in LockStates : mutex_lock(t, st)) \/ mutex_trylock(t) \/ Step(t)
  PROVE  \E q : SafeMove(t, q)
<1>0. /\ count \in Int /\ count <= 1
      /\ Holds(t) => count < 1
      /\ prev[t] \in Int
      /\ pc[t] = "try_restore" => prev[t] < 0 /\ fastpath = "xchg"
      /\ pc[t] = "try_failed" => count < 1
      /\ wait_lock = t <=> pc[t] \in WaitLockPCs
  <2>1. pc[t] = "try_failed" => count # 1
    BY DEF ExclusionInv, FailedTrylock, NoUnlock, FreeIffOne, Holds, HolderPCs
  <2>2. QED
    BY <2>1 DEF ExclusionInv, TypeOK, Counts, FreeIffOne, RestoreNegative, WaitLockHeld
<1> USE MutexAssumption, <1>0 DEF SafeMove, LockMove, WaitLockPCs, HolderPCs, Holds, PCs
<1>1. ASSUME NEW st \in LockStates, mutex_lock(t, st) PROVE \E q : SafeMove(t, q)
  <2>1. PICK ok \in BOOLEAN :
          __mutex_fastpath_lock(ok) /\ Goto(t, IF ok THEN "set_owner" ELSE LockCommon)
    BY <1>1 DEF mutex_lock
  <2>2. IF ok THEN count = 1 /\ count' # 1 ELSE count' = 1 <=> count = 1
    BY <1>0, <2>1 DEF __mutex_fastpath_lock, DecLock, LlscLock, XchgLock, NullLock
  <2>n. fastpath \in {"null", "dec386"} /\ count < 0 => count' < 0
    BY <1>0, <2>1 DEF __mutex_fastpath_lock, DecLock, NullLock
  <2>3. SafeMove(t, IF ok THEN "set_owner" ELSE LockCommon)
    BY <1>1, <2>1, <2>2, <2>n DEF mutex_lock, LockCommon
  <2>4. QED BY <2>3
<1>2. CASE mutex_trylock(t)
  <2>1. CASE TrylockCmpxchg(t)
    <3>1. SafeMove(t, "set_owner") BY <1>2, <2>1 DEF mutex_trylock, TrylockCmpxchg
    <3>2. QED BY <3>1
  <2>2. CASE TrylockXchg(t)
    <3>1. SafeMove(t, IF count = 1 THEN "set_owner"
                      ELSE IF count < 0 THEN "try_restore" ELSE "idle")
      BY <1>2, <2>2 DEF mutex_trylock, TrylockXchg
    <3>2. QED BY <3>1
  <2>3. CASE TrylockSlowpath(t)
    <3>1. SafeMove(t, IF count = 1 THEN "try_owner" ELSE "try_failed")
      BY <1>2, <2>3 DEF mutex_trylock, TrylockSlowpath
    <3>2. QED BY <3>1
  <2>4. QED BY <1>2, <2>1, <2>2, <2>3 DEF mutex_trylock
<1>3. CASE mutex_set_owner(t)
  <2>1. SafeMove(t, "held") BY <1>3 DEF mutex_set_owner
  <2>2. QED BY <2>1
<1>4. CASE SpinReadsOwner(t)
  <2>1. \E q \in {"spin_cmpxchg", "spin_on_owner", "slow"} : SafeMove(t, q)
    BY <1>4 DEF SpinReadsOwner
  <2>2. QED BY <2>1
<1>5. CASE mutex_spin_on_owner(t)
  <2>1. \E q \in {"spin_cmpxchg", "slow"} : SafeMove(t, q)
    BY <1>5 DEF mutex_spin_on_owner
  <2>2. QED BY <2>1
<1>6. CASE SpinCmpxchg(t)
  <2>1. \E q \in {"set_owner", "spin", "slow"} : SafeMove(t, q)
    BY <1>6 DEF SpinCmpxchg
  <2>2. QED BY <2>1
<1>7. CASE LockSlowpath(t)
  <2>1. SafeMove(t, IF count = 1 THEN "done" ELSE "retry") BY <1>7 DEF LockSlowpath
  <2>2. QED BY <2>1
<1>8. CASE LockRetry(t)
  <2>1. \E q \in {"done", "idle", "asleep"} : SafeMove(t, q) BY <1>8 DEF LockRetry
  <2>2. QED BY <2>1
<1>9. CASE LockWakes(t)
  <2>1. SafeMove(t, "retry") BY <1>9 DEF LockWakes
  <2>2. QED BY <2>1
<1>10. CASE LockDone(t)
  <2>1. SafeMove(t, "done_count") BY <1>10 DEF LockDone
  <2>2. QED BY <2>1
<1>11. CASE LockDoneCount(t)
  <2>1. SafeMove(t, "set_owner") BY <1>0, <1>11 DEF LockDoneCount
  <2>2. QED BY <2>1
<1>12. CASE mutex_unlock(t)
  <2>1. SafeMove(t, "unlock") BY <1>12 DEF mutex_unlock
  <2>2. QED BY <2>1
<1>13. CASE UnlockFastpath(t)
  <2>1. PICK ok \in BOOLEAN :
          __mutex_fastpath_unlock(ok) /\ Goto(t, IF ok THEN "idle" ELSE "unlock_slow")
    BY <1>13 DEF UnlockFastpath
  <2>2. Holds(t) /\ count < 1 /\ UNCHANGED prev
    BY <1>0, <1>13 DEF UnlockFastpath
  <2>3. IF ok \/ fastpath = "xchg" THEN count' = 1 ELSE count' # 1
    BY <1>0, <2>1, <2>2 DEF __mutex_fastpath_unlock, DecUnlock, LlscUnlock, XchgUnlock, NullLock
  <2>n. fastpath \in {"null", "dec386"} /\ count < 0 => ~ok
    BY <1>0, <2>1 DEF __mutex_fastpath_unlock, DecUnlock, NullLock
  <2>4. SafeMove(t, IF ok THEN "idle" ELSE "unlock_slow")
    BY <1>13, <2>1, <2>2, <2>3, <2>n DEF UnlockFastpath
  <2>5. QED BY <2>4
<1>14. CASE __mutex_unlock_slowpath(t)
  <2>1. SafeMove(t, "idle")
    BY <1>14 DEF __mutex_unlock_slowpath, __mutex_slowpath_needs_to_unlock
  <2>2. QED BY <2>1
<1>15. CASE TrylockRestore(t)
  <2>1. SafeMove(t, IF count = 1 THEN "set_owner" ELSE "idle")
    BY <1>0, <1>15 DEF TrylockRestore
  <2>2. QED BY <2>1
<1>16. CASE TrylockOwner(t)
  <2>1. SafeMove(t, "try_got") BY <1>16 DEF TrylockOwner
  <2>2. QED BY <2>1
<1>17. CASE TrylockCount(t)
  <2>1. SafeMove(t, IF pc[t] = "try_got" THEN "set_owner" ELSE "idle")
    BY <1>17 DEF TrylockCount
  <2>2. QED BY <2>1
<1>18. QED BY <1>1, <1>2, <1>3, <1>4, <1>5, <1>6, <1>7, <1>8, <1>9, <1>10, <1>11,
              <1>12, <1>13, <1>14, <1>15, <1>16, <1>17 DEF Step

LEMMA ExclusionStep == ExclusionInv /\ [Next]_vars => ExclusionInv'
<1> SUFFICES ASSUME ExclusionInv, [Next]_vars
             PROVE  /\ MutualExclusion' /\ FreeIffOne' /\ RestoreNegative'
                    /\ WaitLockHeld' /\ FailedTrylock'
  BY TypeStep DEF ExclusionInv
<1>1. ASSUME NEW t \in Tasks,
             (\E st \in LockStates : mutex_lock(t, st)) \/ mutex_trylock(t) \/ Step(t)
      PROVE  /\ MutualExclusion' /\ FreeIffOne' /\ RestoreNegative'
             /\ WaitLockHeld' /\ FailedTrylock'
  BY <1>1, TaskStepSafe, SafeMoveExclusive
<1>2. CASE UNCHANGED <<fastpath, count, wait_lock, pc, prev>>
  BY <1>2 DEF ExclusionInv, MutualExclusion, FreeIffOne, RestoreNegative,
     Holds, HolderPCs, WaitLockHeld, FailedTrylock, NoUnlock
<1>3. QED
  BY <1>1, <1>2 DEF Next, Signal, Stray, Delivered, debug_locks_off, vars, mutexVars

LEMMA ExclusionInit == Init => ExclusionInv
BY MutexAssumption DEF Init, __mutex_init, TaskInit, ExclusionInv, TypeOK, TaskTypeOK, TaskStates,
   SleepStates, Signals, Counts, PCs, MutualExclusion, FreeIffOne, RestoreNegative,
   Holds, HolderPCs, WaitLockHeld, WaitLockPCs, FailedTrylock

(* The variables keep their types; in particular no unlock lets count grow *)
(* past one (mutex.c:331, mutex-dec.h:61), whatever the fast path.         *)
THEOREM MutexTypeCorrect == Spec => []TypeOK
BY ExclusionInit, ExclusionStep, PTL DEF Spec, ExclusionInv

(* At most one task has the mutex, for any number of tasks and each of the *)
(* five fast paths: ExclusionInv is inductive.                             *)
THEOREM ExclusionCorrect == Spec => [](TypeOK /\ MutualExclusion)
BY ExclusionInit, ExclusionStep, PTL DEF Spec, ExclusionInv
-------------------------------------------------------------------------------
(* The tasks with a waiter on the list, and those of them not yet woken. *)
Waits(t)  == pc[t] \in {"retry", "asleep", "done"}
Asleep(t) == pc[t] = "asleep" /\ state[t] # "RUNNING"

(* A task at q will wake the first waiter, or make the count negative, *)
(* before it comes to rest.                                            *)
AgentPC(q) ==
  q = "unlock_slow" \/ (fastpath = "xchg" /\ q \in {"slow", "try_restore"})

Contended == count < 0 \/ \E t \in Tasks : AgentPC(pc[t])

(* While every waiter sleeps the next unlock takes the slow path, or some *)
(* task is about to see to it that it does.                               *)
SleepersContended ==
  (\E t \in Tasks : Waits(t)) /\ (\A t \in Tasks : Waits(t) => Asleep(t))
    => Contended

(* The same holds from the exchange that took the mutex in the slow path  *)
(* to the test of the list that may reset the count.                      *)
DoneContended ==
  \A t \in Tasks : pc[t] \in {"done", "done_count"} => Contended

WakeupInv ==
  /\ ExclusionInv
  /\ WaitListExact
  /\ SleepersContended
  /\ DoneContended

SlowPCs == {"retry", "asleep", "done", "done_count"}

(* A step outside the slow path that does not make the mutex look          *)
(* uncontended: whoever overwrites a negative count has to see to it.      *)
QuietMove(t, q) ==
  /\ q \in PCs \ SlowPCs /\ pc[t] \notin SlowPCs /\ Goto(t, q)
  /\ UNCHANGED <<wait_list, state>>
  /\ count < 0 \/ AgentPC(pc[t]) => count' < 0 \/ AgentPC(q)

LEMMA QuietStep ==
  ASSUME WakeupInv, NEW t \in Tasks, NEW q, QuietMove(t, q)
  PROVE  WaitListExact' /\ SleepersContended' /\ DoneContended'
<1>1. /\ pc'[t] = q /\ q \notin SlowPCs /\ UNCHANGED fastpath
      /\ \A u \in Tasks : u # t => pc'[u] = pc[u]
  BY DEF QuietMove, Goto, WakeupInv, ExclusionInv, TypeOK
<1>2. \A u \in Tasks : \A s \in SlowPCs : pc'[u] = s <=> pc[u] = s
  BY <1>1 DEF QuietMove
<1>4. WaitListExact'
  <2>1. \A u \in Tasks : pc'[u] \in {"retry", "asleep", "done"}
                           <=> pc[u] \in {"retry", "asleep", "done"}
    BY <1>2 DEF SlowPCs
  <2>2. QED BY <2>1 DEF WaitListExact, WakeupInv, QuietMove
<1>5. Contended => Contended'
  <2>1. CASE count < 0 \/ AgentPC(pc[t])
    BY <1>1, <2>1 DEF QuietMove, Contended, AgentPC
  <2>2. ASSUME NEW u \in Tasks, AgentPC(pc[u]), u # t PROVE Contended'
    BY <1>1, <2>2 DEF Contended, AgentPC
  <2>3. QED BY <2>1, <2>2 DEF Contended
<1>6. \A u \in Tasks : (Waits(u)' <=> Waits(u)) /\ (Asleep(u)' <=> Asleep(u))
  BY <1>2 DEF Waits, Asleep, SlowPCs, QuietMove
<1>7. SleepersContended'
  BY <1>5, <1>6 DEF SleepersContended, WakeupInv
<1>8. DoneContended'
  BY <1>2, <1>5 DEF DoneContended, WakeupInv, SlowPCs
<1>9. QED BY <1>4, <1>7, <1>8

(* The calls, the spinning and the fast paths are steps of that kind. *)
LEMMA FastStepQuiet ==
  ASSUME WakeupInv, NEW t \in Tasks,
         \/ \E st \in LockStates : mutex_lock(t, st)
         \/ pc[t] = "idle" /\ (TrylockCmpxchg(t) \/ TrylockXchg(t))
         \/ mutex_set_owner(t)
         \/ SpinReadsOwner(t) \/ mutex_spin_on_owner(t) \/ SpinCmpxchg(t)
         \/ mutex_unlock(t) \/ UnlockFastpath(t)
         \/ TrylockRestore(t) \/ TrylockOwner(t)
  PROVE  \E q : QuietMove(t, q)
<1>0. /\ count \in Int /\ count <= 1
      /\ Holds(t) => count < 1
      /\ prev[t] \in Int
      /\ pc[t] = "try_restore" => prev[t] < 0 /\ fastpath = "xchg"
  BY DEF WakeupInv, ExclusionInv, TypeOK, Counts, FreeIffOne, RestoreNegative
<1> USE MutexAssumption DEF QuietMove, AgentPC, SlowPCs, PCs, taskVars
<1>1. ASSUME NEW st \in LockStates, mutex_lock(t, st) PROVE \E q : QuietMove(t, q)
  <2>1. PICK ok \in BOOLEAN :
          __mutex_fastpath_lock(ok) /\ Goto(t, IF ok THEN "set_owner" ELSE LockCommon)
    BY <1>1 DEF mutex_lock
  <2>2. count < 0 => count' < 0 \/ (fastpath = "xchg" /\ ~ok)
    BY <1>0, <2>1 DEF __mutex_fastpath_lock, DecLock, LlscLock, XchgLock, NullLock
  <2>3. LockCommon \in {"spin", "slow"} /\ (fastpath = "xchg" => LockCommon = "slow")
    BY DEF LockCommon
  <2>4. QuietMove(t, IF ok THEN "set_owner" ELSE LockCommon)
    BY <1>1, <2>1, <2>2, <2>3 DEF mutex_lock
  <2>5. QED BY <2>4
<1>2. CASE pc[t] = "idle" /\ TrylockCmpxchg(t)
  <2>1. QuietMove(t, "set_owner") BY <1>2 DEF TrylockCmpxchg
  <2>2. QED BY <2>1
<1>3. CASE pc[t] = "idle" /\ TrylockXchg(t)
  <2>1. QuietMove(t, IF count = 1 THEN "set_owner"
                     ELSE IF count < 0 THEN "try_restore" ELSE "idle")
    BY <1>0, <1>3 DEF TrylockXchg
  <2>2. QED BY <2>1
<1>4. CASE mutex_set_owner(t)
  <2>1. QuietMove(t, "held") BY <1>4 DEF mutex_set_owner
  <2>2. QED BY <2>1
<1>5. CASE SpinReadsOwner(t)
  <2>1. \E q \in {"spin_cmpxchg", "spin_on_owner", "slow"} : QuietMove(t, q)
    BY <1>5 DEF SpinReadsOwner
  <2>2. QED BY <2>1
<1>6. CASE mutex_spin_on_owner(t)
  <2>1. \E q \in {"spin_cmpxchg", "slow"} : QuietMove(t, q)
    BY <1>6 DEF mutex_spin_on_owner
  <2>2. QED BY <2>1
<1>7. CASE SpinCmpxchg(t)
  <2>1. \E q \in {"set_owner", "spin", "slow"} : QuietMove(t, q)
    BY <1>7 DEF SpinCmpxchg
  <2>2. QED BY <2>1
<1>8. CASE mutex_unlock(t)
  <2>1. QuietMove(t, "unlock") BY <1>8 DEF mutex_unlock
  <2>2. QED BY <2>1
<1>9. CASE UnlockFastpath(t)
  <2>1. PICK ok \in BOOLEAN :
          __mutex_fastpath_unlock(ok) /\ Goto(t, IF ok THEN "idle" ELSE "unlock_slow")
    BY <1>9 DEF UnlockFastpath
  <2>2. IF ok THEN count = 0 \/ count = 1 ELSE TRUE
    BY <1>0, <2>1 DEF __mutex_fastpath_unlock, DecUnlock, LlscUnlock, XchgUnlock, NullLock
  <2>3. QuietMove(t, IF ok THEN "idle" ELSE "unlock_slow")
    BY <1>9, <2>1, <2>2 DEF UnlockFastpath
  <2>4. QED BY <2>3
<1>10. CASE TrylockRestore(t)
  <2>1. QuietMove(t, IF count = 1 THEN "set_owner" ELSE "idle")
    BY <1>0, <1>10 DEF TrylockRestore
  <2>2. QED BY <2>1
<1>11. CASE TrylockOwner(t)
  <2>1. QuietMove(t, "try_got") BY <1>11 DEF TrylockOwner
  <2>2. QED BY <2>1
<1>12. QED BY <1>1, <1>2, <1>3, <1>4, <1>5, <1>6, <1>7, <1>8, <1>9, <1>10, <1>11

(* The waiters on the list when wait_lock is free are all asleep or woken, *)
(* and nobody has the list to himself.                                     *)
LEMMA WaitLockFree ==
  ASSUME WakeupInv, wait_lock = NULL
  PROVE  \A u \in Tasks : pc[u] \notin {"retry", "done", "done_count"}
BY MutexAssumption DEF WakeupInv, ExclusionInv, WaitLockHeld, WaitLockPCs

LEMMA SlowStep ==
  ASSUME WakeupInv, NEW t \in Tasks,
         \/ (TrylockSlowpath(t) /\ pc[t] = "idle") \/ TrylockCount(t)
         \/ LockSlowpath(t) \/ LockRetry(t) \/ LockWakes(t)
         \/ LockDone(t) \/ LockDoneCount(t) \/ __mutex_unlock_slowpath(t)
  PROVE  WaitListExact' /\ SleepersContended' /\ DoneContended'
<1>0. /\ pc \in [Tasks -> PCs] /\ state \in [Tasks -> TaskStates]
      /\ wait_list \in Seq(Tasks)
      /\ NoDuplicates(wait_list)
      /\ Entries(wait_list) = {u \in Tasks : Waits(u)}
      /\ list_empty(wait_list) <=> Entries(wait_list) = {}
      /\ \A u \in Tasks : wait_lock = u <=> pc[u] \in WaitLockPCs
      /\ NULL \notin Tasks
  BY MutexAssumption, ListEmpty
     DEF WakeupInv, ExclusionInv, TypeOK, TaskTypeOK, WaitListExact, Waits, WaitLockHeld
<1>w. ASSUME NoDuplicates(wait_list'), Entries(wait_list') = {u \in Tasks : Waits(u)'}
      PROVE  WaitListExact'
  BY <1>w DEF WaitListExact, Waits
<1>1. CASE (TrylockSlowpath(t) /\ pc[t] = "idle") \/ TrylockCount(t)
  <2>1. /\ UNCHANGED <<wait_list, state>>
        /\ \A u \in Tasks : u # t => pc'[u] = pc[u]
        /\ pc'[t] \in {"try_owner", "try_failed", "set_owner", "idle"}
        /\ ~list_empty(wait_list) /\ count < 0 => count' < 0
        /\ pc[t] \in {"idle", "try_got", "try_failed"}
    BY <1>0, <1>1 DEF TrylockSlowpath, TrylockCount, Goto, taskVars
  <2>2. \A u \in Tasks : pc'[u] \notin {"retry", "done", "done_count"}
    <3>1. wait_lock \in {NULL, t}
      BY <1>0, <1>1 DEF TrylockSlowpath, TrylockCount, WaitLockPCs
    <3>2. \A u \in Tasks : u # t => pc[u] \notin WaitLockPCs BY <1>0, <3>1
    <3>3. QED BY <2>1, <3>2 DEF WaitLockPCs
  <2>3. \A u \in Tasks : (Waits(u)' <=> Waits(u)) /\ (Asleep(u)' <=> Asleep(u))
    BY <2>1 DEF Waits, Asleep
  <2>4. WaitListExact' BY <1>0, <1>w, <2>1, <2>3
  <2>5. SleepersContended'
    <3>1. CASE list_empty(wait_list)
      BY <1>0, <2>3, <3>1 DEF SleepersContended
    <3>2. CASE ~list_empty(wait_list)
      <4>1. Contended => Contended'
        <5>1. ~AgentPC(pc[t]) BY <2>1 DEF AgentPC
        <5>2. UNCHANGED fastpath BY <1>1 DEF TrylockSlowpath, TrylockCount, Goto
        <5>3. QED BY <2>1, <3>2, <5>1, <5>2 DEF Contended, AgentPC
      <4>2. QED BY <2>3, <4>1 DEF SleepersContended, WakeupInv
    <3>3. QED BY <3>1, <3>2
  <2>6. DoneContended' BY <2>2 DEF DoneContended
  <2>7. QED BY <2>4, <2>5, <2>6
<1>2. CASE LockSlowpath(t)
  <2>1. /\ wait_lock = NULL /\ wait_lock' = t /\ pc[t] = "slow"
        /\ wait_list' = list_add_tail(t, wait_list)
        /\ pc'[t] \in {"done", "retry"}
        /\ \A u \in Tasks : u # t => pc'[u] = pc[u]
        /\ count' < 0
    BY <1>0, <1>2 DEF LockSlowpath, Goto
  <2>3. \A u \in Tasks : Waits(u)' <=> Waits(u) \/ u = t
    BY <2>1 DEF Waits
  <2>4. t \notin Entries(wait_list)
    BY <1>0, <2>1 DEF Waits
  <2>5. WaitListExact'
    <3>1. /\ Entries(wait_list') = Entries(wait_list) \cup {t}
          /\ NoDuplicates(wait_list')
      BY <1>0, <2>1, <2>4, ListAddTail
    <3>2. QED BY <1>0, <1>w, <2>3, <3>1
  <2>6. QED BY <2>1, <2>5 DEF SleepersContended, DoneContended, Contended
<1>3. CASE LockRetry(t)
  <2>1. /\ pc[t] = "retry" /\ wait_lock = t /\ count' < 0
        /\ \A u \in Tasks : u # t => pc'[u] = pc[u]
        /\ \/ pc'[t] = "done" /\ UNCHANGED <<wait_lock, wait_list>>
           \/ /\ pc'[t] = "idle" /\ wait_lock' = NULL
              /\ wait_list' = list_del(wait_list, t)
           \/ pc'[t] = "asleep" /\ wait_lock' = NULL /\ UNCHANGED wait_list
    BY <1>0, <1>3 DEF LockRetry, Goto, WaitLockPCs
  <2>3. t \in Entries(wait_list) BY <1>0, <2>1 DEF Waits
  <2>4. CASE pc'[t] = "idle"
    <3>1. \A u \in Tasks : Waits(u)' <=> Waits(u) /\ u # t
      BY <2>1, <2>4 DEF Waits
    <3>2. /\ Entries(wait_list') = Entries(wait_list) \ {t}
          /\ NoDuplicates(wait_list')
      BY <1>0, <2>1, <2>3, <2>4, ListDel
    <3>3. QED BY <1>0, <1>w, <2>1, <3>1, <3>2
              DEF SleepersContended, DoneContended, Contended
  <2>5. CASE pc'[t] # "idle"
    <3>1. \A u \in Tasks : Waits(u)' <=> Waits(u)
      BY <2>1, <2>5 DEF Waits
    <3>2. UNCHANGED wait_list BY <2>1, <2>5
    <3>3. QED BY <1>0, <1>w, <2>1, <3>1, <3>2
              DEF SleepersContended, DoneContended, Contended
  <2>6. QED BY <2>4, <2>5
<1>4. CASE LockWakes(t)
  <2>1. /\ pc[t] = "asleep" /\ pc'[t] = "retry"
        /\ wait_lock = NULL /\ wait_lock' = t /\ UNCHANGED wait_list
        /\ \A u \in Tasks : u # t => pc'[u] = pc[u]
    BY <1>0, <1>4 DEF LockWakes, Goto
  <2>3. \A u \in Tasks : Waits(u)' <=> Waits(u) BY <2>1 DEF Waits
  <2>4. WaitListExact' BY <1>0, <1>w, <2>1, <2>3
  <2>5. Waits(t)' /\ ~Asleep(t)' BY <2>1 DEF Waits, Asleep
  <2>6. DoneContended' BY <2>1, WaitLockFree DEF DoneContended
  <2>7. QED BY <2>4, <2>5, <2>6 DEF SleepersContended
<1>5. CASE LockDone(t)
  <2>1. /\ pc[t] = "done" /\ pc'[t] = "done_count" /\ wait_lock = t
        /\ UNCHANGED <<wait_lock, count, fastpath>>
        /\ wait_list' = list_del(wait_list, t)
        /\ \A u \in Tasks : u # t => pc'[u] = pc[u]
    BY <1>0, <1>5 DEF LockDone, Goto, WaitLockPCs
  <2>3. \A u \in Tasks : Waits(u)' <=> Waits(u) /\ u # t BY <2>1 DEF Waits
  <2>4. WaitListExact'
    <3>1. t \in Entries(wait_list) BY <1>0, <2>1 DEF Waits
    <3>2. /\ Entries(wait_list') = Entries(wait_list) \ {t}
          /\ NoDuplicates(wait_list')
      BY <1>0, <2>1, <3>1, ListDel
    <3>3. QED BY <1>0, <1>w, <2>3, <3>2
  <2>5. Contended'
    <3>1. Contended BY <2>1 DEF WakeupInv, DoneContended
    <3>2. ~AgentPC(pc[t]) BY <2>1 DEF AgentPC
    <3>3. QED BY <2>1, <3>1, <3>2 DEF Contended, AgentPC
  <2>6. QED BY <2>4, <2>5 DEF SleepersContended, DoneContended
<1>6. CASE LockDoneCount(t)
  <2>1. /\ pc[t] = "done_count" /\ pc'[t] = "set_owner" /\ wait_lock = t
        /\ wait_lock' = NULL /\ UNCHANGED <<wait_list, fastpath>>
        /\ ~list_empty(wait_list) => count' = count
        /\ \A u \in Tasks : u # t => pc'[u] = pc[u]
    BY <1>0, <1>6 DEF LockDoneCount, Goto, WaitLockPCs
  <2>2. \A u \in Tasks : pc'[u] \notin {"retry", "done", "done_count"}
    BY <1>0, <2>1 DEF WaitLockPCs
  <2>4. \A u \in Tasks : Waits(u)' <=> Waits(u) BY <2>1 DEF Waits
  <2>5. WaitListExact' BY <1>0, <1>w, <2>1, <2>4
  <2>6. SleepersContended'
    <3>1. CASE list_empty(wait_list)
      BY <1>0, <2>4, <3>1 DEF SleepersContended
    <3>2. CASE ~list_empty(wait_list)
      <4>1. Contended BY <2>1 DEF WakeupInv, DoneContended
      <4>2. ~AgentPC(pc[t]) BY <2>1 DEF AgentPC
      <4>3. Contended' BY <2>1, <3>2, <4>1, <4>2 DEF Contended, AgentPC
      <4>4. QED BY <4>3 DEF SleepersContended
    <3>3. QED BY <3>1, <3>2
  <2>7. DoneContended' BY <2>2 DEF DoneContended
  <2>8. QED BY <2>5, <2>6, <2>7
<1>7. CASE __mutex_unlock_slowpath(t)
  <2>1. /\ pc[t] = "unlock_slow" /\ pc'[t] = "idle"
        /\ wait_lock = NULL /\ UNCHANGED <<wait_lock, wait_list>>
        /\ \A u \in Tasks : u # t => pc'[u] = pc[u]
    BY <1>0, <1>7 DEF __mutex_unlock_slowpath, Goto
  <2>2. \A u \in Tasks : pc'[u] \notin {"retry", "done", "done_count"}
    BY <2>1, WaitLockFree
  <2>4. \A u \in Tasks : Waits(u)' <=> Waits(u) BY <2>1 DEF Waits
  <2>5. WaitListExact' BY <1>0, <1>w, <2>1, <2>4
  <2>6. SleepersContended'
    <3>1. CASE list_empty(wait_list)
      BY <1>0, <2>4, <3>1 DEF SleepersContended
    <3>2. CASE ~list_empty(wait_list)
      <4>1. PICK u \in Tasks : u = list_first_entry(wait_list) /\ Waits(u)
        BY <1>0, <3>2, ListEmpty
      <4>2. state'[u] = "RUNNING"
        BY <1>0, <1>7, <3>2, <4>1 DEF __mutex_unlock_slowpath, FirstWaiterWoken, wake_up_process
      <4>3. Waits(u)' /\ ~Asleep(u)' BY <2>4, <4>1, <4>2 DEF Asleep
      <4>4. QED BY <4>1, <4>3 DEF SleepersContended
    <3>3. QED BY <3>1, <3>2
  <2>7. DoneContended' BY <2>2 DEF DoneContended
  <2>8. QED BY <2>5, <2>6, <2>7
<1>8. QED BY <1>1, <1>2, <1>3, <1>4, <1>5, <1>6, <1>7

(* Signals and stray wakeups only ever end a sleep. *)
LEMMA WakeupOnlyStep ==
  ASSUME WakeupInv, UNCHANGED <<fastpath, count, wait_list, pc>>,
         \A u \in Tasks : state[u] = "RUNNING" => state'[u] = "RUNNING"
  PROVE  WaitListExact' /\ SleepersContended' /\ DoneContended'
<1>1. /\ \A u \in Tasks : Waits(u)' <=> Waits(u)
      /\ \A u \in Tasks : Asleep(u)' => Asleep(u)
      /\ Contended' <=> Contended
  BY DEF Waits, Asleep, Contended, AgentPC
<1>2. SleepersContended' BY <1>1 DEF SleepersContended, WakeupInv
<1>3. DoneContended' BY <1>1 DEF DoneContended, WakeupInv
<1>4. WaitListExact'
  BY DEF WaitListExact, WakeupInv
<1>5. QED BY <1>2, <1>3, <1>4

LEMMA WakeupStep == WakeupInv /\ [Next]_vars => WakeupInv'
<1> SUFFICES ASSUME WakeupInv, [Next]_vars
             PROVE  WaitListExact' /\ SleepersContended' /\ DoneContended'
  BY ExclusionStep DEF WakeupInv
<1>1. ASSUME NEW t \in Tasks,
             (\E st \in LockStates : mutex_lock(t, st)) \/ mutex_trylock(t) \/ Step(t)
      PROVE  WaitListExact' /\ SleepersContended' /\ DoneContended'
  BY <1>1, FastStepQuiet, QuietStep, SlowStep DEF mutex_trylock, Step
<1>2. ASSUME NEW t \in Tasks, NEW sig \in Sent, Signal(t, sig)
      PROVE  WaitListExact' /\ SleepersContended' /\ DoneContended'
  <2>1. UNCHANGED <<fastpath, count, wait_list, pc>> BY <1>2 DEF Signal, mutexVars
  <2>2. \A u \in Tasks : state[u] = "RUNNING" => state'[u] = "RUNNING"
    BY <1>2 DEF Signal, signal_wake_up, WakeupInv, ExclusionInv, TypeOK, TaskTypeOK
  <2>3. QED BY <2>1, <2>2, WakeupOnlyStep
<1>3. ASSUME NEW t \in Tasks, Stray(t) \/ Delivered(t)
      PROVE  WaitListExact' /\ SleepersContended' /\ DoneContended'
  <2>1. UNCHANGED <<fastpath, count, wait_list, pc>>
    BY <1>3 DEF Stray, Delivered, mutexVars
  <2>2. \A u \in Tasks : state[u] = "RUNNING" => state'[u] = "RUNNING"
    BY <1>3 DEF Stray, Delivered, StrayWakeup, SignalDelivered, wake_up_process,
       WakeupInv, ExclusionInv, TypeOK, TaskTypeOK
  <2>3. QED BY <2>1, <2>2, WakeupOnlyStep
<1>4. CASE UNCHANGED vars \/ debug_locks_off
  BY <1>4, WakeupOnlyStep DEF vars, debug_locks_off, taskVars
<1>5. QED BY <1>1, <1>2, <1>3, <1>4 DEF Next

LEMMA WakeupInvariant == Spec => []WakeupInv
<1>1. Init => WakeupInv
  <2> SUFFICES ASSUME Init PROVE WakeupInv
    OBVIOUS
  <2>1. ExclusionInv BY ExclusionInit
  <2>3. WaitListExact
    BY DEF Init, __mutex_init, WaitListExact, NoDuplicates, Entries
  <2>4. SleepersContended /\ DoneContended
    BY DEF Init, SleepersContended, DoneContended, Waits
  <2>5. QED BY <2>1, <2>3, <2>4 DEF WakeupInv
<1>2. QED BY <1>1, WakeupStep, PTL DEF Spec

(* The wait list links exactly the waiters of the tasks in the slow path. *)
THEOREM WaitListCorrect == Spec => []WaitListExact
BY WakeupInvariant, PTL DEF WakeupInv

(* No wakeup is lost, for any number of tasks and each of the fast paths:  *)
(* if everybody rests and somebody sleeps, SleepersContended makes the     *)
(* count negative, so somebody has the mutex and does not rest.            *)
THEOREM WakeupCorrect == Spec => []NoLostWakeup
<1>1. WakeupInv => NoLostWakeup
  <2> SUFFICES ASSUME WakeupInv, \A t \in Tasks : pc[t] = "idle" \/ Unwoken(t),
                      NEW w \in Tasks, pc[w] # "idle"
               PROVE  FALSE
    BY DEF NoLostWakeup
  <2>1. \A t \in Tasks : pc[t] \in {"idle", "asleep"} /\ (pc[t] = "asleep" => Asleep(t))
    BY DEF Unwoken, schedule_returns, Asleep
  <2>2. Contended
    BY <2>1 DEF WakeupInv, SleepersContended, Waits
  <2>3. count < 0
    BY <2>1, <2>2 DEF Contended, AgentPC
  <2>4. count # 1
    BY <2>3
  <2>5. \E t \in Tasks : Holds(t)
    BY <2>4 DEF WakeupInv, ExclusionInv, FreeIffOne
  <2>6. QED BY <2>1, <2>5 DEF Holds, HolderPCs
<1>2. QED BY <1>1, WakeupInvariant, PTL
-------------------------------------------------------------------------------
(* mutex_unlock() has cleared the owner before it gives the mutex up. *)
OwnerCleared ==
  \A t \in Tasks :
    /\ pc[t] = "unlock" \/ (pc[t] = "unlock_slow" /\ fastpath # "xchg")
    /\ fastpath # "null"
    => owner = NULL

OwnerInv == OwnerIsHolder /\ OwnerCleared

(* A step that leaves owner alone, when the task that takes it is not the  *)
(* one owner names or keeps the mutex.                                     *)
LEMMA OwnerKeptStep ==
  ASSUME ExclusionInv, OwnerInv, NEW t \in Tasks, NEW q, Goto(t, q), UNCHANGED owner,
         q \notin {"held", "unlock"},
         q = "unlock_slow" => pc[t] = "unlock",
         debug_locks /\ owner = t => q \in HolderPCs
  PROVE  OwnerInv'
<1>1. /\ pc'[t] = q /\ UNCHANGED <<fastpath, debug_locks>>
      /\ \A u \in Tasks : u # t => pc'[u] = pc[u]
  BY DEF Goto, ExclusionInv, TypeOK
<1>2. OwnerIsHolder'
  <2>1. debug_locks /\ owner # NULL => Holds(owner) BY DEF OwnerInv, OwnerIsHolder
  <2>2. owner # NULL => owner \in Tasks BY DEF ExclusionInv, TypeOK
  <2>3. debug_locks' /\ owner' # NULL => Holds(owner)'
    BY <1>1, <2>1, <2>2 DEF Holds, HolderPCs
  <2>4. QED BY <1>1, <2>3 DEF OwnerInv, OwnerIsHolder
<1>3. OwnerCleared'
  BY <1>1 DEF OwnerInv, OwnerCleared
<1>4. QED BY <1>2, <1>3 DEF OwnerInv

(* A holder that names itself, or nobody: no other task has the mutex, so  *)
(* nobody else minds.                                                      *)
LEMMA OwnerSetStep ==
  ASSUME ExclusionInv, ExclusionInv', NEW t \in Tasks, NEW q, Goto(t, q),
         Holds(t) \/ q \in HolderPCs,
         \/ owner' = t /\ q \in HolderPCs /\ q \notin {"unlock", "unlock_slow"}
         \/ owner' = NULL /\ q # "held"
  PROVE  OwnerInv'
<1>1. /\ pc'[t] = q /\ UNCHANGED fastpath
      /\ \A u \in Tasks : u # t => pc'[u] = pc[u]
  BY DEF Goto, ExclusionInv, TypeOK
<1>2. \A u \in Tasks : u # t => ~Holds(u)'
  BY <1>1 DEF Holds, HolderPCs, ExclusionInv, MutualExclusion
<1>3. \A u \in Tasks : u # t => pc'[u] \notin {"held", "unlock"}
  BY <1>2 DEF Holds, HolderPCs
<1>4. \A u \in Tasks : u # t /\ fastpath # "xchg" => pc'[u] # "unlock_slow"
  BY <1>1, <1>2 DEF Holds, HolderPCs
<1>5. Holds(t)' <=> q \in HolderPCs
  BY <1>1 DEF Holds, HolderPCs
<1>6. t # NULL BY MutexAssumption
<1>7. QED BY <1>1, <1>3, <1>4, <1>5, <1>6 DEF OwnerInv, OwnerIsHolder, OwnerCleared

LEMMA OwnerStep == ExclusionInv /\ OwnerInv /\ [Next]_vars => OwnerInv'
<1> SUFFICES ASSUME ExclusionInv, OwnerInv, [Next]_vars, ExclusionInv' PROVE OwnerInv'
  BY ExclusionStep
<1>0. /\ \A t \in Tasks : debug_locks /\ owner = t => Holds(t)
      /\ \A t \in Tasks : Holds(t) => count # 1
  BY MutexAssumption DEF OwnerInv, OwnerIsHolder, ExclusionInv, FreeIffOne
<1>1. ASSUME NEW t \in Tasks, NEW st \in LockStates, mutex_lock(t, st) PROVE OwnerInv'
  <2>1. PICK q \in {"set_owner", "spin", "slow"} : Goto(t, q)
    BY <1>1 DEF mutex_lock, LockCommon
  <2>2. ~(debug_locks /\ owner = t) BY <1>0, <1>1 DEF mutex_lock, Holds, HolderPCs
  <2>3. QED BY <1>1, <2>1, <2>2, OwnerKeptStep DEF mutex_lock
<1>2. ASSUME NEW t \in Tasks, mutex_trylock(t) PROVE OwnerInv'
  <2>1. ~(debug_locks /\ owner = t) BY <1>0, <1>2 DEF mutex_trylock, Holds, HolderPCs
  <2>2. CASE TrylockCmpxchg(t) \/ TrylockXchg(t)
    <3>1. PICK q \in {"set_owner", "try_restore", "idle"} : Goto(t, q)
      BY <2>2 DEF TrylockCmpxchg, TrylockXchg
    <3>2. QED BY <2>1, <2>2, <3>1, OwnerKeptStep DEF TrylockCmpxchg, TrylockXchg
  <2>3. CASE TrylockSlowpath(t)
    <3>1. PICK q \in {"try_owner", "try_failed"} : Goto(t, q)
      BY <2>3 DEF TrylockSlowpath
    <3>2. QED BY <2>1, <2>3, <3>1, OwnerKeptStep DEF TrylockSlowpath
  <2>4. QED BY <1>2, <2>2, <2>3 DEF mutex_trylock
<1>3. ASSUME NEW t \in Tasks, Step(t) PROVE OwnerInv'
  <2>1. CASE mutex_set_owner(t)
    BY <2>1, OwnerSetStep DEF mutex_set_owner, HolderPCs
  <2>2. CASE SpinReadsOwner(t) \/ mutex_spin_on_owner(t) \/ SpinCmpxchg(t)
    <3>1. PICK q \in {"spin_cmpxchg", "spin_on_owner", "slow", "spin", "set_owner"} :
            Goto(t, q)
      BY <2>2 DEF SpinReadsOwner, mutex_spin_on_owner, SpinCmpxchg
    <3>2. ~(debug_locks /\ owner = t)
      BY <1>0, <2>2 DEF SpinReadsOwner, mutex_spin_on_owner, SpinCmpxchg, Holds, HolderPCs
    <3>3. QED BY <2>2, <3>1, <3>2, OwnerKeptStep
              DEF SpinReadsOwner, mutex_spin_on_owner, SpinCmpxchg
  <2>3. CASE LockSlowpath(t) \/ LockRetry(t) \/ LockWakes(t) \/ TrylockRestore(t)
    <3>1. PICK q \in {"done", "retry", "idle", "asleep", "set_owner"} : Goto(t, q)
      BY <2>3 DEF LockSlowpath, LockRetry, LockWakes, TrylockRestore
    <3>2. ~(debug_locks /\ owner = t)
      BY <1>0, <2>3 DEF LockSlowpath, LockRetry, LockWakes, TrylockRestore, Holds, HolderPCs
    <3>3. QED BY <2>3, <3>1, <3>2, OwnerKeptStep
              DEF LockSlowpath, LockRetry, LockWakes, TrylockRestore
  <2>4. CASE LockDone(t)
    BY <2>4, OwnerSetStep DEF LockDone, HolderPCs
  <2>5. CASE LockDoneCount(t)
    BY <2>5, OwnerKeptStep DEF LockDoneCount, HolderPCs
  <2>o. CASE TrylockOwner(t)
    BY <2>o, OwnerSetStep DEF TrylockOwner, HolderPCs
  <2>c. CASE TrylockCount(t)
    <3>1. Goto(t, IF pc[t] = "try_got" THEN "set_owner" ELSE "idle") /\ UNCHANGED owner
      BY <2>c DEF TrylockCount
    <3>2. CASE pc[t] = "try_got" BY <3>1, <3>2, OwnerKeptStep DEF HolderPCs
    <3>3. CASE pc[t] = "try_failed"
      <4>1. ~(debug_locks /\ owner = t) BY <1>0, <3>3 DEF Holds, HolderPCs
      <4>2. QED BY <3>1, <3>3, <4>1, OwnerKeptStep
    <3>4. QED BY <2>c, <3>2, <3>3 DEF TrylockCount
  <2>6. CASE mutex_unlock(t)
    <3>1. CASE fastpath = "null"
      <4>1. Goto(t, "unlock") /\ owner' = owner BY <2>6, <3>1 DEF mutex_unlock
      <4>2. owner = t BY <2>6 DEF mutex_unlock, OwnerInv, OwnerIsHolder
      <4>3. /\ pc'[t] = "unlock" /\ UNCHANGED <<fastpath, debug_locks>>
            /\ \A u \in Tasks : u # t => pc'[u] = pc[u]
        BY <4>1 DEF Goto, ExclusionInv, TypeOK
      <4>4. Holds(t)' BY <4>3 DEF Holds, HolderPCs
      <4>5. \A u \in Tasks : pc'[u] # "held"
        BY <4>3, <4>4 DEF ExclusionInv, MutualExclusion, Holds, HolderPCs
      <4>6. QED BY <3>1, <4>1, <4>2, <4>3, <4>4, <4>5 DEF OwnerInv, OwnerIsHolder, OwnerCleared
    <3>2. CASE fastpath # "null"
      <4>1. Goto(t, "unlock") /\ owner' = NULL
        BY <2>6, <3>2 DEF mutex_unlock, mutex_clear_owner
      <4>2. QED BY <4>1, OwnerSetStep DEF HolderPCs
    <3>3. QED BY <3>1, <3>2
  <2>7. CASE UnlockFastpath(t)
    <3>1. PICK ok \in BOOLEAN :
            __mutex_fastpath_unlock(ok) /\ Goto(t, IF ok THEN "idle" ELSE "unlock_slow")
      BY <2>7 DEF UnlockFastpath
    <3>2. pc[t] = "unlock" /\ UNCHANGED owner BY <2>7 DEF UnlockFastpath
    <3>3. CASE fastpath = "null"
      <4>1. Goto(t, "unlock_slow") BY <3>1, <3>3 DEF __mutex_fastpath_unlock, NullLock
      <4>2. QED BY <3>2, <3>3, <4>1, OwnerKeptStep DEF HolderPCs
    <3>4. CASE fastpath # "null"
      <4>1. owner # t BY <3>2, <3>4, MutexAssumption DEF OwnerInv, OwnerCleared
      <4>2. PICK q \in {"idle", "unlock_slow"} : Goto(t, q) BY <3>1
      <4>3. QED BY <3>2, <4>1, <4>2, OwnerKeptStep
    <3>5. QED BY <3>3, <3>4
  <2>8. CASE __mutex_unlock_slowpath(t)
    <3>1. pc[t] = "unlock_slow" /\ Goto(t, "idle") BY <2>8 DEF __mutex_unlock_slowpath
    <3>2. CASE fastpath = "null" /\ debug_locks
      <4>1. owner' = NULL /\ Holds(t)
        BY <2>8, <3>1, <3>2 DEF __mutex_unlock_slowpath, debug_mutex_unlock,
           mutex_clear_owner, Holds, HolderPCs
      <4>2. QED BY <3>1, <4>1, OwnerSetStep
    <3>o. CASE fastpath = "null" /\ ~debug_locks
      <4>1. UNCHANGED owner
        BY <2>8, <3>o DEF __mutex_unlock_slowpath, debug_mutex_unlock
      <4>2. QED BY <3>1, <3>o, <4>1, OwnerKeptStep
    <3>3. CASE fastpath # "null"
      <4>1. UNCHANGED owner BY <2>8, <3>3 DEF __mutex_unlock_slowpath
      <4>2. ~(debug_locks /\ owner = t)
        BY <1>0, <3>1, <3>3, MutexAssumption DEF OwnerInv, OwnerCleared, Holds, HolderPCs
      <4>3. QED BY <3>1, <4>1, <4>2, OwnerKeptStep
    <3>4. QED BY <3>2, <3>o, <3>3
  <2>9. QED BY <1>3, <2>1, <2>2, <2>3, <2>4, <2>5, <2>o, <2>c, <2>6, <2>7, <2>8 DEF Step
<1>4. CASE UNCHANGED mutexVars
  BY <1>4 DEF mutexVars, OwnerInv, OwnerIsHolder, OwnerCleared, Holds, HolderPCs
<1>d. CASE debug_locks_off
  BY <1>d DEF debug_locks_off, OwnerInv, OwnerIsHolder, OwnerCleared
<1>5. QED BY <1>1, <1>2, <1>3, <1>4, <1>d DEF Next, Signal, Stray, Delivered, vars, mutexVars

(* lock->owner names the task that has the mutex or nobody: a spinner      *)
(* never follows a task that has let go.  In the debugging build, where    *)
(* nobody spins, this holds until lock debugging is switched off; that a   *)
(* caller is named while it holds the mutex is true of every build.        *)
THEOREM OwnerCorrect == Spec => []OwnerIsHolder
<1>1. Init => OwnerInv
  BY DEF Init, __mutex_init, OwnerInv, OwnerIsHolder, OwnerCleared
<1>2. QED BY <1>1, ExclusionInit, ExclusionStep, OwnerStep, PTL DEF Spec, OwnerInv

===============================================================================
