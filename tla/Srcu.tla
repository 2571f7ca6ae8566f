---------------------------------- MODULE Srcu ----------------------------------
(***************************************************************************)
(* Sleepable RCU: kernel/srcu.c.                                           *)
(*                                                                         *)
(* Updaters replace a protected object, wait for a grace period with       *)
(* synchronize_srcu() and free what they replaced.  Readers use no atomic  *)
(* instruction and no memory barrier: what they do to their CPU's counters *)
(* reaches the other CPUs late, the accesses of a critical section may     *)
(* come before srcu_read_lock() or after srcu_read_unlock(), and only      *)
(* synchronize_sched() makes up for it.  So each CPU has a view of its     *)
(* counters ahead of memory, and a reader may fetch the object early and   *)
(* use it late, up to the next context switch of its CPU.                  *)
(*                                                                         *)
(* An object is named by its fate: "current", or the updater that will     *)
(* free it.  sp->completed matters by its lowest bit and by its distance   *)
(* from what an updater has read of it, so these are kept.                 *)
(***************************************************************************)
EXTENDS Integers, FiniteSetsExt

CONSTANTS
  Cpus, Readers, Updaters,
  Idx,         \* the two values of sp->completed & 1
  INT_RANGE,   \* the number of values of sp->completed, an int
  COUNT_RANGE, \* and of a counter: a reader that migrates counts up on one CPU
               \* and down on another, so they drift apart and wrap
  NULL

ASSUME SrcuAssumption ==
  /\ INT_RANGE \in Nat /\ INT_RANGE >= 6 /\ INT_RANGE % 2 = 0
  /\ \E i, j \in Idx : i # j /\ Idx = {i, j}
  /\ IsFiniteSet(Readers) /\ IsFiniteSet(Cpus)
  /\ COUNT_RANGE \in Nat /\ COUNT_RANGE > Cardinality(Readers)
  /\ NULL \notin Updaters \cup Cpus \cup Idx
  /\ "current" \notin Updaters \cup {NULL}

VARIABLES
  completed,   \* sp->completed & 1
  mutex,       \* who has sp->mutex
  c, own,      \* per_cpu_ref in memory, and as its own CPU sees it
  rstep, rcpu, ridx, \* readers: where they are, on which CPU, the index
  ref,         \* the object each reader has fetched for its critical section
  late,        \* the one it may still be using after srcu_read_unlock()
  upc,         \* updaters: where they are in synchronize_srcu()
  advances,    \* sp->completed - idx, before the mutex is taken
  need,        \* CPUs whose quiescent state synchronize_sched() waits for
  uidx, unread, sum   \* of whoever has the mutex: the local idx, and
                      \* srcu_readers_active_idx()'s CPUs to come and sum

counterVars == <<completed, c, own>>
readVars    == <<rstep, rcpu, ridx, ref, late>>
scanVars    == <<uidx, unread, sum>>
updaterVars == <<mutex, upc, advances, need, scanVars>>
srcuVars == <<completed, mutex, c, own, rstep, rcpu, ridx, ref, late, upc,
              advances, need, uidx, unread, sum>>

Objects == Updaters \cup {"current", NULL}
Counters == [Cpus -> [Idx -> 0 .. COUNT_RANGE - 1]]
UpdaterPcs == {"idle", "lock", "sched1", "sched2", "scan", "sched3"}

Count(n) == n % COUNT_RANGE

(* What the CPUs in S have, together, in the counters d with index i. *)
Total(d, i, S) == MapThenSumSet(LAMBDA p : d[p][i], S)

SrcuTypeOK ==
  /\ completed \in Idx
  /\ mutex \in Updaters \cup {NULL}
  /\ c \in Counters /\ own \in Counters
  /\ rstep \in [Readers -> {"idle", "lock", "in"}]
  /\ rcpu \in [Readers -> Cpus \cup {NULL}]
  /\ ridx \in [Readers -> Idx \cup {NULL}]
  /\ ref \in [Readers -> Objects] /\ late \in [Readers -> Objects]
  /\ upc \in [Updaters -> UpdaterPcs]
  /\ advances \in [Updaters -> 0 .. INT_RANGE - 1]
  /\ need \in [Updaters -> SUBSET Cpus]
  /\ uidx \in Idx \cup {NULL} /\ unread \subseteq Cpus /\ sum \in 0 .. COUNT_RANGE - 1

(* Either value may be the one that stands for 0. *)
init_srcu_struct ==
  /\ completed \in Idx
  /\ mutex = NULL
  /\ c = [p \in Cpus |-> [i \in Idx |-> 0]]

SrcuInit ==
  /\ init_srcu_struct
  /\ own = c
  /\ rstep = [r \in Readers |-> "idle"]
  /\ rcpu = [r \in Readers |-> NULL]
  /\ ridx = [r \in Readers |-> NULL]
  /\ ref = [r \in Readers |-> NULL] /\ late = [r \in Readers |-> NULL]
  /\ upc = [u \in Updaters |-> "idle"]
  /\ advances = [u \in Updaters |-> 0]
  /\ need = [u \in Updaters |-> {}]
  /\ uidx = NULL /\ unread = {} /\ sum = 0
-------------------------------------------------------------------------------
(* Reader r runs on CPU p, which nobody else does: it has been there since *)
(* the last context switch, or is scheduled there now.                     *)
RunsOn(r, p) ==
  /\ rcpu[r] \in {NULL, p}
  /\ \A s \in Readers \ {r} : rcpu[s] # p
  /\ rcpu' = [rcpu EXCEPT ![r] = p]

(* srcu_read_lock(): with preemption off, choose the counter ... *)
ReadLockIndex(r, p) ==
  /\ rstep[r] = "idle" /\ RunsOn(r, p)
  /\ rstep' = [rstep EXCEPT ![r] = "lock"]
  /\ ridx' = [ridx EXCEPT ![r] = completed]
  /\ UNCHANGED <<counterVars, ref, late, updaterVars>>

(* ... and count the reader there. *)
ReadLockCount(r, p) ==
  /\ rstep[r] = "lock" /\ RunsOn(r, p)
  /\ rstep' = [rstep EXCEPT ![r] = "in"]
  /\ own' = [own EXCEPT ![p][ridx[r]] = Count(@ + 1)]
  /\ UNCHANGED <<completed, c, ridx, ref, late, updaterVars>>

(* The object is fetched: the CPU may do it before the lock is taken. *)
Fetch(r, p) ==
  /\ ref[r] = NULL /\ RunsOn(r, p)
  /\ ref' = [ref EXCEPT ![r] = "current"]
  /\ UNCHANGED <<counterVars, rstep, ridx, late, updaterVars>>

(* srcu_read_unlock(): the last use of the object may come later. *)
srcu_read_unlock(r, p) ==
  /\ rstep[r] = "in" /\ RunsOn(r, p)
  /\ rstep' = [rstep EXCEPT ![r] = "idle"]
  /\ own' = [own EXCEPT ![p][ridx[r]] = Count(@ - 1)]
  /\ ridx' = [ridx EXCEPT ![r] = NULL]
  /\ ref' = [ref EXCEPT ![r] = NULL]
  /\ late' = [late EXCEPT ![r] = IF ref[r] = NULL THEN @ ELSE ref[r]]
  /\ UNCHANGED <<completed, c, updaterVars>>

(* CPU p's counter i reaches memory. *)
Drain(p, i) ==
  /\ c[p][i] # own[p][i]
  /\ c' = [c EXCEPT ![p][i] = own[p][i]]
  /\ UNCHANGED <<completed, own, readVars, updaterVars>>

(* A context switch on CPU p, which preemption that is off holds back: a   *)
(* memory barrier, and a quiescent state for everyone who is in            *)
(* synchronize_sched().  The reader that ran, if any, runs on later,       *)
(* perhaps elsewhere: it may sleep in its critical section.                *)
Switch(p) ==
  /\ \A r \in Readers : rcpu[r] = p => rstep[r] # "lock"
  /\ c' = [c EXCEPT ![p] = own[p]]
  /\ rcpu' = [r \in Readers |-> IF rcpu[r] = p THEN NULL ELSE rcpu[r]]
  /\ ref' = [r \in Readers |-> IF rcpu[r] = p /\ rstep[r] = "idle" THEN NULL ELSE ref[r]]
  /\ late' = [r \in Readers |-> IF rcpu[r] = p THEN NULL ELSE late[r]]
  /\ need' = [u \in Updaters |-> need[u] \ {p}]
  /\ UNCHANGED <<completed, own, rstep, ridx, mutex, upc, advances, scanVars>>
-------------------------------------------------------------------------------
Goto(u, pc) == upc' = [upc EXCEPT ![u] = pc]

(* u makes another object current, will free the old one, and reads        *)
(* sp->completed.  The object is replaced as late as can be: before that   *)
(* only fewer readers have it.                                             *)
Enter(u) ==
  /\ upc[u] = "idle"
  /\ Goto(u, "lock")
  /\ ref'  = [r \in Readers |-> IF ref[r]  = "current" THEN u ELSE ref[r]]
  /\ late' = [r \in Readers |-> IF late[r] = "current" THEN u ELSE late[r]]
  /\ UNCHANGED <<counterVars, rstep, rcpu, ridx, mutex, advances, need, scanVars>>

(* Mutant of HelpedOut(): one advance is enough. *)
HelpedOut_by_one(u) == advances[u] \in 1 .. INT_RANGE \div 2 - 1

(* (sp->completed - idx) >= 2, as an int: others did the work. *)
HelpedOut(u) == advances[u] \in 2 .. INT_RANGE \div 2 - 1

(* Mutant of FirstSched: there is no first synchronize_sched(). *)
FirstSched_none == {}

(* The first synchronize_sched() waits for all CPUs. *)
FirstSched == Cpus

TakeMutex(u) ==
  /\ upc[u] = "lock" /\ mutex = NULL
  /\ advances' = [advances EXCEPT ![u] = 0]
  /\ \/ /\ HelpedOut(u)
        /\ Goto(u, "idle")
        /\ UNCHANGED <<mutex, need>>
     \/ /\ ~HelpedOut(u)
        /\ mutex' = u
        /\ need' = [need EXCEPT ![u] = FirstSched]
        /\ Goto(u, "sched1")
  /\ UNCHANGED <<counterVars, readVars, scanVars>>

(* Mutant of SecondSched: there is no second synchronize_sched(). *)
SecondSched_none == {}

SecondSched == Cpus

(* synchronize_sched() has returned: flip the counter and call it again. *)
Flip(u) ==
  /\ upc[u] = "sched1" /\ need[u] = {}
  /\ uidx' = completed
  /\ completed' = CHOOSE i \in Idx : i # completed
  /\ advances' = [v \in Updaters |->
       IF upc[v] = "lock" THEN (advances[v] + 1) % INT_RANGE ELSE advances[v]]
  /\ need' = [need EXCEPT ![u] = SecondSched]
  /\ Goto(u, "sched2")
  /\ UNCHANGED <<c, own, readVars, mutex, unread, sum>>

(* srcu_readers_active_idx() starts to add up, at first and after every    *)
(* tick that it finds readers, ...                                         *)
ScanStart(u) ==
  /\ \/ upc[u] = "sched2" /\ need[u] = {}
     \/ upc[u] = "scan" /\ unread = {} /\ sum # 0
  /\ unread' = Cpus /\ sum' = 0
  /\ Goto(u, "scan")
  /\ UNCHANGED <<counterVars, readVars, mutex, advances, need, uidx>>

(* ... one CPU's counter after the other. *)
ScanCpu(u, p) ==
  /\ upc[u] = "scan" /\ p \in unread
  /\ sum' = Count(sum + c[p][uidx])
  /\ unread' = unread \ {p}
  /\ UNCHANGED <<counterVars, readVars, mutex, upc, advances, need, uidx>>

(* Mutant of ThirdSched: there is no third synchronize_sched(). *)
ThirdSched_none == {}

ThirdSched == Cpus

ScanDone(u) ==
  /\ upc[u] = "scan" /\ unread = {} /\ sum = 0
  /\ uidx' = NULL
  /\ need' = [need EXCEPT ![u] = ThirdSched]
  /\ Goto(u, "sched3")
  /\ UNCHANGED <<counterVars, readVars, mutex, advances, unread, sum>>

(* The last synchronize_sched() comes before the mutex is released. *)
Leave(u) ==
  /\ upc[u] = "sched3" /\ need[u] = {}
  /\ mutex' = NULL
  /\ Goto(u, "idle")
  /\ UNCHANGED <<counterVars, readVars, advances, need, scanVars>>

Reader(r, p) ==
  \/ ReadLockIndex(r, p) \/ ReadLockCount(r, p)
  \/ Fetch(r, p) \/ srcu_read_unlock(r, p)

Synchronize(u) ==
  \/ Flip(u) \/ ScanStart(u) \/ ScanDone(u) \/ Leave(u)
  \/ \E p \in Cpus : ScanCpu(u, p)

SrcuNext ==
  \/ \E r \in Readers, p \in Cpus : Reader(r, p)
  \/ \E p \in Cpus, i \in Idx : Drain(p, i)
  \/ \E p \in Cpus : Switch(p)
  \/ \E u \in Updaters : Enter(u) \/ TakeMutex(u) \/ Synchronize(u)

SrcuSpec == SrcuInit /\ [][SrcuNext]_srcuVars
-------------------------------------------------------------------------------
(* When synchronize_srcu() has returned no reader has, or still uses, the  *)
(* object that was replaced before the call, whichever of the three calls  *)
(* of synchronize_sched() and the early exit it went through               *)
(* (srcu.c:171, 176, 193, 206).                                            *)
GracePeriod ==
  \A u \in Updaters, r \in Readers : upc[u] = "idle" => ref[r] # u /\ late[r] # u

(* The sum that srcu_readers_active_idx() is adding up, without a lock,    *)
(* while readers come, go and migrate, never misses a reader that is in a  *)
(* critical section under the old index (srcu.c:58-67, 195-204).           *)
SumCovers ==
  \A u \in Updaters : upc[u] = "scan" =>
    Count(sum + Total(c, uidx, unread))
      >= Cardinality({r \in Readers : rstep[r] = "in" /\ ridx[r] = uidx})
===============================================================================
