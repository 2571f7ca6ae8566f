------------------------------ MODULE RwSemProofs ------------------------------
(***************************************************************************)
(* Theorems about RwSem for any finite set of tasks that the active part   *)
(* of count can count.                                                     *)
(***************************************************************************)
EXTENDS RwSem, KernelListProofs, FiniteSetTheorems, SequenceTheorems, TLAPS

B == RWSEM_ACTIVE_MASK + 1

(* A waker before its loop, and in it. *)
FirstPCs == {"try_again", "undo", "grant_writer", "readers_only"}
LoopPCs  == {"grant_reader", "wake_task"}

(* Whoever is in __rwsem_do_wake() has wait_lock. *)
OneWaker == \A t \in Tasks : pc[t] \in WakerPCs <=> wait_lock = t

(* What a waker's caller says of it. *)
CallerOK ==
  \A t \in Tasks :
    /\ pc[t] \in WakerPCs /\ caller = "read" =>
         pc[t] \in {"readers_only", "grant_reader", "wake_task"} /\ flags[t] = "READ"
    /\ pc[t] \in FirstPCs /\ caller = "wait" => t \in ungranted

(* A waker has found somebody to wake, of the kind it has looked for. *)
FrontOK ==
  \A t \in Tasks :
    /\ pc[t] \in FirstPCs => ~list_empty(wait_list)
    /\ pc[t] = "grant_writer" => FrontIs("WRITE")
    /\ pc[t] = "readers_only" => FrontIs("READ")

(* The loop's locals. *)
LoopOK ==
  /\ next >= 1
  /\ InLoop => next <= Len(wait_list) + 1
  /\ InLoop => \A i \in next .. next + loop - 1 : flags[wait_list[i]] = "READ"
  /\ \A t \in Tasks : pc[t] = "grant_reader" => loop > 0
  /\ \A t \in Tasks : pc[t] = "wake_task" => tsk \in Tasks /\ tsk \notin ungranted

(* The flags of a task that has returned from its down say what it holds. *)
HolderFlags ==
  \A t \in Tasks : /\ pc[t] \in {"read", "downgrade_wake"} => flags[t] = "READ"
                   /\ pc[t] = "write" => flags[t] = "WRITE"

(* A task that was let go is awake, or about to be woken. *)
Awake ==
  \A t \in Tasks : pc[t] = "schedule" /\ t \notin ungranted =>
    schedule_returns(t) \/ \E u \in Tasks : pc[u] = "wake_task" /\ tsk = t

(* What wait_lock protects. *)
QueueInv ==
  /\ TypeOK /\ OneWaker /\ CallerOK /\ FrontOK /\ LoopOK /\ NoDanglingWaiter
  /\ HolderFlags /\ Awake

(* The tasks counted in the active part of count, and in its waiting part. *)
Pending(x) == x \in ungranted /\ x \notin Promised
IsActive(x) ==
  \/ pc[x] \in {"read", "write", "downgrade_wake", "failed", "undo", "grant_writer", "readers_only"}
  \/ pc[x] \in {"wait", "schedule"} /\ ~Pending(x)
  \/ pc[x] \in LoopPCs /\ (caller = "read" \/ (caller = "wait" /\ ~Pending(x)))
IsWaiter(x) ==
  \/ Pending(x)
  \/ /\ x \notin ungranted /\ flags[x] = "WRITE"
     /\ pc[x] \in {"write", "failed"} \/ InWait(x)
Active  == {x \in Tasks : IsActive(x)}
Waiters == {x \in Tasks : IsWaiter(x)}

(* count in terms of the two. *)
Tally == count = Cardinality(Active) - B * Cardinality(Waiters)

Held(t) ==
  \/ pc[t] \in {"read", "write", "downgrade_wake"}
  \/ pc[t] \in WakerPCs /\ caller = "read"
  \/ Granted(t)

(* A writer is alone, and a grant under way will not change that. *)
Exclusive ==
  /\ \A w, h \in Tasks : Holds(w, "WRITE") /\ Held(h) => h = w
  /\ \A t, h \in Tasks : pc[t] = "grant_writer" => ~Held(h)
  /\ \A t, h \in Tasks : pc[t] = "readers_only" => ~Holds(h, "WRITE")
  /\ \A h \in Tasks : Promised # {} => ~Holds(h, "WRITE")

(* Somebody queued is waited for by a holder, or a wakeup is on its way. *)
WakeDue ==
  Queued # {} => \/ Active # {} \/ undone
                 \/ \E t \in Tasks : pc[t] \in {"wake", "try_again"}

(* The inductive invariant. *)
RwInv == QueueInv /\ Tally /\ Exclusive /\ WakeDue
-------------------------------------------------------------------------------
(* Facts about % and products. *)
LEMMA ModUnique ==
  ASSUME NEW m \in Nat \ {0}, NEW x \in Int, NEW q \in Int, NEW r \in 0 .. m - 1,
         x = m * q + r
  PROVE  x % m = r
OBVIOUS

LEMMA BFacts ==
  /\ B \in Nat \ {0} /\ Cardinality(Tasks) \in Nat /\ Cardinality(Tasks) + 1 < B
  /\ RWSEM_WAITING_BIAS = -B /\ RWSEM_ACTIVE_WRITE_BIAS = 1 - B
  /\ RWSEM_ACTIVE_BIAS = 1 /\ RWSEM_ACTIVE_READ_BIAS = 1 /\ RWSEM_UNLOCKED_VALUE = 0
<1>1. Cardinality(Tasks) \in Nat BY RwSemAssumption, FS_CardinalityType
<1>2. QED BY <1>1, RwSemAssumption
          DEF B, RWSEM_WAITING_BIAS, RWSEM_ACTIVE_WRITE_BIAS, RWSEM_ACTIVE_BIAS,
              RWSEM_ACTIVE_READ_BIAS, RWSEM_UNLOCKED_VALUE

LEMMA TallyFinite ==
  /\ IsFiniteSet(Active) /\ IsFiniteSet(Waiters)
  /\ Cardinality(Active) \in Nat /\ Cardinality(Waiters) \in Nat
  /\ Cardinality(Active) <= Cardinality(Tasks)
<1>1. Active \in SUBSET Tasks /\ Waiters \in SUBSET Tasks BY DEF Active, Waiters
<1>2. /\ IsFiniteSet(Active) /\ IsFiniteSet(Waiters)
      /\ Cardinality(Active) <= Cardinality(Tasks)
  BY <1>1, RwSemAssumption, FS_Subset
<1>3. QED BY <1>2, FS_CardinalityType

(* What the code reads off count. *)
LEMMA ReadCount ==
  ASSUME Tally
  PROVE  /\ count \in Int
         /\ count + 1 >= 0 <=> Waiters = {}
         /\ count >= 0 <=> Waiters = {}
         /\ count = 0 <=> Active = {} /\ Waiters = {}
         /\ ActivePart(count) = Cardinality(Active)
         /\ ActivePart(count) = 0 <=> Active = {}
         /\ Cardinality(Active) = 1 => count % (WAKE_MASK + 1) = 1
<1> DEFINE a == Cardinality(Active)
           w == Cardinality(Waiters)
<1>1. /\ a \in Nat /\ w \in Nat /\ B \in Nat \ {0} /\ a + 1 < B
  BY TallyFinite, BFacts
<1>2. count = a - B * w BY DEF Tally
<1>3. (a = 0 <=> Active = {}) /\ (w = 0 <=> Waiters = {}) BY TallyFinite, FS_EmptySet
<1> HIDE DEF a, w
<1>4. count \in Int BY <1>1, <1>2
<1>5. w > 0 => count + 1 < 0
  <2>1. w > 0 => B * w >= B BY <1>1
  <2>2. QED BY <1>1, <1>2, <2>1
<1>6. w = 0 => count = a BY <1>1, <1>2
<1>7. ActivePart(count) = a
  <2>1. count = B * (-w) + a BY <1>1, <1>2
  <2>2. a \in 0 .. B - 1 /\ -w \in Int BY <1>1
  <2>3. count % B = a BY <1>1, <1>4, <2>1, <2>2, ModUnique
  <2>4. QED BY <2>3 DEF ActivePart, B
<1>8. a = 1 => count % (WAKE_MASK + 1) = 1
  <2> DEFINE m == WAKE_MASK + 1
             k == B \div m
  <2>1. /\ WAKE_MASK \in Nat /\ WAKE_MASK >= 1 /\ m \in Nat \ {0} /\ 1 \in 0 .. m - 1 /\ B % m = 0
    BY RwSemAssumption DEF B
  <2> HIDE DEF m
  <2>2. k \in Int /\ B = m * k BY <1>1, <2>1
  <2> HIDE DEF k
  <2>3. a = 1 => count = m * (-(k * w)) + 1
    <3>1. B * w = m * (k * w) BY <1>1, <2>1, <2>2
    <3>2. QED BY <1>1, <1>2, <2>1, <2>2, <3>1
  <2>4. -(k * w) \in Int BY <1>1, <2>2
  <2>5. a = 1 => count % m = 1 BY <1>4, <2>1, <2>3, <2>4, ModUnique
  <2>6. QED BY <2>5 DEF m
<1>9. QED BY <1>1, <1>3, <1>4, <1>5, <1>6, <1>7, <1>8 DEF a
-------------------------------------------------------------------------------
(* Who is promised the semaphore is a reader that waits, in the loop. *)
LEMMA PromisedFacts ==
  ASSUME QueueInv
  PROVE  /\ Promised \subseteq ungranted /\ ungranted \subseteq Tasks
         /\ \A x \in Promised : flags[x] = "READ"
         /\ ~InLoop => Promised = {}
<1>1. /\ TypeOK /\ LoopOK /\ NoDanglingWaiter /\ next \in Nat /\ loop \in Nat
      /\ Len(wait_list) \in Nat /\ next >= 1
  BY DEF QueueInv, TypeOK, LoopOK
<1>2. ~InLoop => Promised = {}
  <2>1. ~(next <= 0) BY <1>1
  <2>2. next .. 0 = {} BY <1>1, <2>1
  <2>3. QED BY <2>2 DEF Promised
<1>3. CASE InLoop
  <2>1. Promised = {wait_list[i] : i \in next .. next + loop - 1} BY <1>3 DEF Promised
  <2>2. \A x \in Promised : flags[x] = "READ" BY <1>1, <1>3, <2>1 DEF LoopOK
  <2>3. loop > 0 => next + loop - 1 <= Len(wait_list) BY <1>1, <1>3 DEF NoDanglingWaiter
  <2>4. \A i \in next .. next + loop - 1 : i \in next .. Len(wait_list) BY <1>1, <2>3
  <2>5. {wait_list[i] : i \in next .. Len(wait_list)} = ungranted
    BY <1>1, <1>3 DEF NoDanglingWaiter
  <2>6. Promised \subseteq ungranted BY <2>1, <2>4, <2>5
  <2>7. QED BY <1>1, <1>3, <2>2, <2>6 DEF TypeOK
<1>4. QED BY <1>1, <1>2, <1>3 DEF TypeOK

(* A waker at work on its first steps is not in the loop, nor is anybody   *)
(* while wait_lock is free.                                                *)
LEMMA NotInLoop ==
  ASSUME QueueInv, wait_lock = NULL \/ \E t \in Tasks : pc[t] \in FirstPCs
  PROVE  /\ ~InLoop /\ Promised = {} /\ Entries(wait_list) = ungranted
         /\ \A x \in Tasks : Pending(x) <=> x \in ungranted
<1>1. OneWaker /\ NoDanglingWaiter BY DEF QueueInv
<1>2. ~InLoop
  <2> SUFFICES ASSUME NEW u \in Tasks, pc[u] \in LoopPCs PROVE FALSE
    BY DEF InLoop, LoopPCs
  <2>1. wait_lock = u BY <1>1 DEF OneWaker, WakerPCs, LoopPCs
  <2>2. CASE wait_lock = NULL BY <2>1, <2>2, RwSemAssumption
  <2>3. ASSUME NEW t \in Tasks, pc[t] \in FirstPCs PROVE FALSE
    <3>1. wait_lock = t BY <1>1, <2>3 DEF OneWaker, WakerPCs, FirstPCs
    <3>2. QED BY <2>1, <2>3, <3>1 DEF FirstPCs, LoopPCs
  <2>4. QED BY <2>2, <2>3
<1>3. Promised = {} BY <1>2, PromisedFacts
<1>4. Entries(wait_list) = ungranted BY <1>1, <1>2 DEF NoDanglingWaiter, Entries
<1>5. QED BY <1>2, <1>3, <1>4 DEF Pending

(* Holding, in terms of where a task is. *)
LEMMA HoldsHeld == \A t, mode : Holds(t, mode) <=> flags[t] = mode /\ Held(t)
BY DEF Holds, Held

(* The sets of CountExact. *)
FailedIn(mode) == {t \in Tasks : pc[t] = "failed" /\ flags[t] = mode}
InFlight == {t \in Tasks : \/ pc[t] \in {"undo", "grant_writer"}
                           \/ pc[t] = "readers_only" /\ caller # "read"}
ActiveReaders == Readers \cup FailedIn("READ") \cup Promised
ActiveWriters == Writers \cup FailedIn("WRITE")

LEMMA Parts ==
  ASSUME QueueInv
  PROVE  /\ Active = ActiveReaders \cup ActiveWriters \cup InFlight
         /\ Waiters = ActiveWriters \cup Queued
         /\ ActiveReaders \cap ActiveWriters = {}
         /\ (ActiveReaders \cup ActiveWriters) \cap InFlight = {}
         /\ ActiveWriters \cap Queued = {}
<1>1. /\ OneWaker /\ CallerOK /\ NoDanglingWaiter /\ HolderFlags /\ pc \in [Tasks -> PCs]
      /\ flags \in [Tasks -> Flags] /\ caller \in Callers
  BY DEF QueueInv, TypeOK
<1>2. /\ Promised \subseteq ungranted /\ ungranted \subseteq Tasks
      /\ \A x \in Promised : flags[x] = "READ"
  BY PromisedFacts
<1>3. \A t \in ungranted : InWait(t) BY <1>1 DEF NoDanglingWaiter
<1>4. ASSUME NEW x \in Tasks, pc[x] \in FirstPCs PROVE x \notin Promised
  BY <1>4, NotInLoop
<1>5. ASSUME NEW x \in Tasks
      PROVE  /\ x \in ActiveReaders <=>
                   \/ flags[x] = "READ" /\ (Held(x) \/ pc[x] = "failed")
                   \/ x \in Promised
             /\ x \in ActiveWriters <=> flags[x] = "WRITE" /\ (Held(x) \/ pc[x] = "failed")
             /\ x \in InFlight <=> \/ pc[x] \in {"undo", "grant_writer"}
                                   \/ pc[x] = "readers_only" /\ caller # "read"
             /\ x \in Queued <=> Pending(x)
             /\ x \in Active <=> IsActive(x)
             /\ x \in Waiters <=> IsWaiter(x)
  BY HoldsHeld DEF ActiveReaders, ActiveWriters, InFlight, FailedIn, Readers, Writers, Queued,
                   Pending, Active, Waiters
<1>6. ASSUME NEW x \in Tasks
      PROVE  /\ x \in Active <=> x \in ActiveReaders \/ x \in ActiveWriters \/ x \in InFlight
             /\ x \in Waiters <=> x \in ActiveWriters \/ x \in Queued
             /\ ~(x \in ActiveReaders /\ x \in ActiveWriters)
             /\ ~(x \in ActiveReaders /\ x \in InFlight)
             /\ ~(x \in ActiveWriters /\ x \in InFlight)
             /\ ~(x \in ActiveWriters /\ x \in Queued)
  <2>1. pc[x] \in PCs /\ flags[x] \in {"READ", "WRITE"} BY <1>1 DEF Flags
  <2>2. x \in ungranted => InWait(x) BY <1>3
  <2>3. x \in Promised => x \in ungranted /\ flags[x] = "READ" /\ pc[x] \notin FirstPCs
    BY <1>2, <1>4
  <2>4. /\ pc[x] \in WakerPCs /\ caller = "read" =>
             pc[x] \in {"readers_only", "grant_reader", "wake_task"} /\ flags[x] = "READ"
        /\ pc[x] \in FirstPCs /\ caller = "wait" => x \in ungranted
        /\ pc[x] \in {"read", "downgrade_wake"} => flags[x] = "READ"
    BY <1>1 DEF CallerOK, HolderFlags
  <2>5. QED BY <1>1, <1>5, <2>1, <2>2, <2>3, <2>4
            DEF IsActive, IsWaiter, Held, Granted, InWait, Pending, PCs, WakerPCs, FirstPCs, LoopPCs,
                Callers
<1>7. /\ ActiveReaders \subseteq Tasks /\ ActiveWriters \subseteq Tasks /\ InFlight \subseteq Tasks
      /\ Queued \subseteq Tasks /\ Active \subseteq Tasks /\ Waiters \subseteq Tasks
  BY <1>2 DEF ActiveReaders, ActiveWriters, InFlight, FailedIn, Readers, Writers, Queued, Active, Waiters
<1>8. QED BY <1>6, <1>7

(* The tally is the sum that CountExact spells out. *)
LEMMA TallyIsExact == ASSUME QueueInv, Tally PROVE CountExact
<1> DEFINE r == Cardinality(ActiveReaders)
           w == Cardinality(ActiveWriters)
           q == Cardinality(Queued)
           i == Cardinality(InFlight)
<1>1. /\ ActiveReaders \in SUBSET Tasks /\ ActiveWriters \in SUBSET Tasks
      /\ InFlight \in SUBSET Tasks /\ Queued \in SUBSET Tasks
  BY PromisedFacts DEF ActiveReaders, ActiveWriters, InFlight, FailedIn, Readers, Writers, Queued
<1>2. /\ IsFiniteSet(ActiveReaders) /\ IsFiniteSet(ActiveWriters)
      /\ IsFiniteSet(InFlight) /\ IsFiniteSet(Queued)
  BY <1>1, RwSemAssumption, FS_Subset
<1>3. r \in Nat /\ w \in Nat /\ q \in Nat /\ i \in Nat BY <1>2, FS_CardinalityType
<1>4. Cardinality(Active) = r + w + i
  <2>1. /\ IsFiniteSet(ActiveReaders \cup ActiveWriters)
        /\ Cardinality(ActiveReaders \cup ActiveWriters) = r + w
    <3>1. /\ IsFiniteSet(ActiveReaders \cup ActiveWriters)
          /\ Cardinality(ActiveReaders \cup ActiveWriters) = r + w - Cardinality({})
      BY <1>2, FS_Union, Parts
    <3>2. QED BY <1>3, <3>1, FS_EmptySet
  <2>2. Cardinality(Active) = (r + w) + i - Cardinality({})
    BY <1>2, <2>1, FS_Union, Parts
  <2>3. QED BY <1>3, <2>2, FS_EmptySet
<1>5. Cardinality(Waiters) = w + q
  <2>1. Cardinality(Waiters) = w + q - Cardinality({}) BY <1>2, FS_Union, Parts
  <2>2. QED BY <1>3, <2>1, FS_EmptySet
<1> HIDE DEF r, w, q, i
<1>6. count = 1 * r + (1 - B) * w + (-B) * q + 1 * i
  <2>1. count = (r + w + i) - B * (w + q) BY <1>4, <1>5 DEF Tally
  <2>2. B \in Int BY BFacts
  <2>3. B * (w + q) = B * w + B * q BY <1>3, <2>2
  <2>4. (1 - B) * w = w - B * w /\ (-B) * q = -(B * q) BY <1>3, <2>2
  <2>5. B * w \in Int /\ B * q \in Int BY <1>3, <2>2
  <2>6. QED BY <1>3, <2>1, <2>3, <2>4, <2>5
<1>7. QED BY <1>6, BFacts
          DEF CountExact, r, w, q, i, ActiveReaders, ActiveWriters, FailedIn, InFlight

LEMMA ExclusiveExcludes == ASSUME Exclusive PROVE ReadersExcludeWriter
<1>1. \A w, h \in Tasks : w \in Writers /\ h \in Writers \cup Readers => h = w
  BY HoldsHeld DEF Exclusive, Writers, Readers
<1>2. Cardinality(Writers) <= 1
  <2>1. CASE Writers = {} BY <2>1, FS_EmptySet
  <2>2. CASE Writers # {}
    <3>1. PICK w : w \in Writers BY <2>2
    <3>2. \A h \in Writers : h \in Tasks BY DEF Writers
    <3>3. Writers = {w} BY <1>1, <3>1, <3>2
    <3>4. Cardinality({w}) = 1 BY FS_Singleton, Zenon
    <3>5. QED BY <3>3, <3>4
  <2>3. QED BY <2>1, <2>2
<1>3. ASSUME NEW w \in Writers, NEW h \in Readers PROVE FALSE
  <2>1. h = w /\ w \in Tasks BY <1>1 DEF Writers, Readers
  <2>2. flags[w] = "READ" /\ flags[w] = "WRITE" BY <2>1, HoldsHeld DEF Writers, Readers
  <2>3. QED BY <2>2
<1>4. QED BY <1>2, <1>3 DEF ReadersExcludeWriter

LEMMA DueOnlyByUndo == ASSUME QueueInv, WakeDue PROVE LostOnlyByUndo
<1> SUFFICES ASSUME Stuck PROVE undone
  BY DEF LostOnlyByUndo
<1>1. \A t \in Tasks : pc[t] = "idle" \/ (pc[t] = "schedule" /\ ~schedule_returns(t))
  BY DEF Stuck
<1>2. PICK t \in Tasks : pc[t] = "schedule" /\ ~schedule_returns(t) BY DEF Stuck
<1>3. \A x \in Tasks : pc[x] = "schedule" => x \in ungranted
  BY <1>1 DEF QueueInv, Awake
<1>4. Promised = {} BY <1>1, PromisedFacts DEF InLoop
<1>5. t \in Queued BY <1>2, <1>3, <1>4 DEF Queued
<1>6. Active = {} BY <1>1, <1>3, <1>4 DEF Active, IsActive, Pending, LoopPCs
<1>7. QED BY <1>1, <1>5, <1>6 DEF WakeDue
-------------------------------------------------------------------------------
LEMMA CardAdd ==
  ASSUME NEW S \in SUBSET Tasks, NEW x \in Tasks, x \notin S
  PROVE  Cardinality(S \cup {x}) = Cardinality(S) + 1
BY RwSemAssumption, FS_Subset, FS_AddElement

LEMMA CardDel ==
  ASSUME NEW S \in SUBSET Tasks, NEW x \in S
  PROVE  Cardinality(S \ {x}) = Cardinality(S) - 1
BY RwSemAssumption, FS_Subset, FS_RemoveElement

LEMMA TallyStep ==
  ASSUME Tally, NEW da \in Int, NEW dw \in Int,
         Cardinality(Active') = Cardinality(Active) + da,
         Cardinality(Waiters') = Cardinality(Waiters) + dw,
         count' = count + da - B * dw
  PROVE  Tally'
<1> DEFINE a == Cardinality(Active)
           w == Cardinality(Waiters)
<1>1. a \in Int /\ w \in Int /\ B \in Int BY TallyFinite, BFacts
<1>2. count = a - B * w BY DEF Tally
<1>3. Cardinality(Active') = a + da /\ Cardinality(Waiters') = w + dw OBVIOUS
<1> HIDE DEF a, w
<1>4. B * (w + dw) = B * w + B * dw BY <1>1
<1>5. B * w \in Int /\ B * dw \in Int BY <1>1
<1>6. count' = (a + da) - B * (w + dw) BY <1>1, <1>2, <1>4, <1>5
<1>7. B' = B BY DEF B
<1>8. QED BY <1>3, <1>6, <1>7 DEF Tally

(* Who has the semaphore is counted; so is a writer on its way. *)
LEMMA Counted ==
  ASSUME QueueInv
  PROVE  /\ \A h \in Tasks : Held(h) => h \in Active
         /\ \A w \in Tasks : Holds(w, "WRITE") => w \in Waiters
         /\ \A t \in Tasks : pc[t] \in FirstPCs => Queued # {} /\ Waiters # {}
         /\ \A t \in Tasks : pc[t] \in {"grant_writer", "readers_only"} => t \in Active
         /\ Promised \subseteq Active
         /\ Queued \subseteq Waiters
<1>1. /\ Active = ActiveReaders \cup ActiveWriters \cup InFlight
      /\ Waiters = ActiveWriters \cup Queued
  BY Parts
<1>2. \A h \in Tasks : Held(h) => h \in Active
  <2>1. \A h \in Tasks : flags[h] \in Flags BY DEF QueueInv, TypeOK
  <2>2. QED BY <1>1, <2>1, HoldsHeld DEF ActiveReaders, ActiveWriters, Readers, Writers, Flags
<1>3. \A w \in Tasks : Holds(w, "WRITE") => w \in Waiters
  BY <1>1 DEF ActiveWriters, Writers
<1>4. ASSUME NEW t \in Tasks, pc[t] \in FirstPCs PROVE Queued # {}
  <2>1. ~list_empty(wait_list) /\ wait_list \in Seq(Tasks) BY <1>4 DEF QueueInv, FrontOK, TypeOK
  <2>2. Entries(wait_list) # {} BY <2>1, ListEmpty
  <2>3. Promised = {} /\ Entries(wait_list) = ungranted BY <1>4, NotInLoop
  <2>4. QED BY <2>2, <2>3 DEF Queued
<1>5. \A t \in Tasks : pc[t] \in {"grant_writer", "readers_only"} => t \in Active
  BY DEF Active, IsActive
<1>6. QED BY <1>1, <1>2, <1>3, <1>4, <1>5 DEF ActiveReaders
-------------------------------------------------------------------------------
(* A step of task t outside __rwsem_do_wake(). *)
Outer(t) ==
  /\ pc[t] \notin WakerPCs
  /\ pc' = [pc EXCEPT ![t] = pc'[t]] /\ pc'[t] \in PCs \ WakerPCs
  /\ UNCHANGED <<wait_list, ungranted, lockVars, wakeVars>>
  /\ flags' \in [Tasks -> Flags] /\ \A x \in Tasks : x # t => flags'[x] = flags[x]
  /\ t \in ungranted => pc'[t] \in {"wait", "schedule"} /\ flags'[t] = flags[t]

LEMMA OuterFrame ==
  ASSUME QueueInv, NEW t \in Tasks, Outer(t)
  PROVE  /\ \A x \in Tasks : x # t => pc'[x] = pc[x] /\ flags'[x] = flags[x]
         /\ \A x \in Tasks : pc'[x] \in WakerPCs <=> pc[x] \in WakerPCs
         /\ \A x \in Tasks : pc'[x] \in WakerPCs => x # t
         /\ pc' \in [Tasks -> PCs]
         /\ InLoop' = InLoop /\ Promised' = Promised /\ Queued' = Queued
         /\ \A x \in Tasks : x # t => /\ IsActive(x)' <=> IsActive(x)
                                      /\ IsWaiter(x)' <=> IsWaiter(x)
                                      /\ Held(x)' <=> Held(x)
<1>1. pc \in [Tasks -> PCs] BY DEF QueueInv, TypeOK
<1>2. \A x \in Tasks : x # t => pc'[x] = pc[x] /\ flags'[x] = flags[x]
  BY <1>1 DEF Outer
<1>3. pc' \in [Tasks -> PCs] BY <1>1 DEF Outer
<1>4. \A x \in Tasks : pc'[x] \in WakerPCs <=> pc[x] \in WakerPCs BY <1>2 DEF Outer
<1>5. \A x \in Tasks : pc'[x] \in WakerPCs => x # t BY DEF Outer
<1>6. \A x \in Tasks : pc'[x] \in LoopPCs <=> pc[x] \in LoopPCs
  BY <1>2, <1>5 DEF LoopPCs, WakerPCs, Outer
<1>7. InLoop' = InLoop BY <1>6 DEF InLoop, LoopPCs
<1>8. /\ wait_list' = wait_list /\ ungranted' = ungranted /\ caller' = caller
      /\ next' = next /\ loop' = loop
  BY DEF Outer, lockVars, wakeVars
<1>9. Promised' = Promised BY <1>7, <1>8 DEF Promised
<1>10. Queued' = Queued BY <1>8, <1>9 DEF Queued
<1>11. ASSUME NEW x \in Tasks, x # t
       PROVE  (IsActive(x)' <=> IsActive(x)) /\ (IsWaiter(x)' <=> IsWaiter(x)) /\ (Held(x)' <=> Held(x))
  <2>1. pc'[x] = pc[x] /\ flags'[x] = flags[x] BY <1>2, <1>11
  <2>2. (Pending(x)' <=> Pending(x)) /\ (InWait(x)' <=> InWait(x))
    BY <1>8, <1>9, <2>1 DEF Pending, InWait
  <2>3. Granted(x)' <=> Granted(x) BY <1>8, <2>2 DEF Granted
  <2>4. QED BY <1>8, <2>1, <2>2, <2>3 DEF IsActive, IsWaiter, Held
<1>12. QED BY <1>2, <1>3, <1>4, <1>5, <1>7, <1>9, <1>10, <1>11

LEMMA OuterQueue ==
  ASSUME QueueInv, NEW t \in Tasks, Outer(t), TaskTypeOK', count' \in Int, undone' \in BOOLEAN,
         /\ pc'[t] \in {"read", "downgrade_wake"} => flags'[t] = "READ"
         /\ pc'[t] = "write" => flags'[t] = "WRITE",
         \A x \in Tasks : x # t => state'[x] = state[x] /\ sigpend'[x] = sigpend[x],
         pc'[t] = "schedule" => t \in ungranted
  PROVE  QueueInv'
<1>1. /\ TypeOK /\ OneWaker /\ CallerOK /\ FrontOK /\ LoopOK /\ NoDanglingWaiter
      /\ HolderFlags /\ Awake
  BY DEF QueueInv
<1>2. /\ \A x \in Tasks : x # t => pc'[x] = pc[x] /\ flags'[x] = flags[x]
      /\ \A x \in Tasks : pc'[x] \in WakerPCs <=> pc[x] \in WakerPCs
      /\ \A x \in Tasks : pc'[x] \in WakerPCs => x # t
      /\ pc' \in [Tasks -> PCs] /\ InLoop' = InLoop
  BY OuterFrame
<1>3. /\ wait_list' = wait_list /\ ungranted' = ungranted /\ caller' = caller
      /\ next' = next /\ loop' = loop /\ tsk' = tsk /\ wait_lock' = wait_lock
      /\ flags' \in [Tasks -> Flags]
  BY DEF Outer, lockVars, wakeVars
<1>4. \A x \in Tasks : x \in ungranted => flags'[x] = flags[x]
  BY <1>2 DEF Outer
<1>5. TypeOK' BY <1>1, <1>2, <1>3 DEF TypeOK
<1>6. OneWaker' BY <1>1, <1>2, <1>3 DEF OneWaker
<1>7. CallerOK' BY <1>1, <1>2, <1>3 DEF CallerOK, WakerPCs, FirstPCs
<1>8. FrontOK'
  <2> SUFFICES ASSUME NEW u \in Tasks, pc'[u] \in FirstPCs
               PROVE  /\ ~list_empty(wait_list)
                      /\ pc'[u] = "grant_writer" => FrontIs("WRITE")'
                      /\ pc'[u] = "readers_only" => FrontIs("READ")'
    BY <1>3 DEF FrontOK, FirstPCs, list_empty
  <2>1. u # t /\ pc[u] = pc'[u] BY <1>2 DEF WakerPCs, FirstPCs
  <2>2. ~list_empty(wait_list) /\ wait_list \in Seq(Tasks) BY <1>1, <2>1 DEF FrontOK, TypeOK
  <2>3. list_first_entry(wait_list) \in ungranted BY <2>1, <2>2, ListEmpty, NotInLoop
  <2>4. flags'[list_first_entry(wait_list)] = flags[list_first_entry(wait_list)]
    BY <1>1, <1>4, <2>3 DEF TypeOK
  <2>5. \A f : FrontIs(f)' <=> FrontIs(f) BY <1>3, <2>4 DEF FrontIs, list_first_entry
  <2>6. QED BY <1>1, <2>1, <2>2, <2>5 DEF FrontOK
<1>9. LoopOK'
  <2>1. InLoop => \A i \in next .. next + loop - 1 : flags'[wait_list[i]] = "READ"
    <3> SUFFICES ASSUME InLoop, NEW i \in next .. next + loop - 1
                 PROVE  flags'[wait_list[i]] = "READ"
      OBVIOUS
    <3>1. wait_list[i] \in Promised BY DEF Promised
    <3>2. wait_list[i] \in ungranted /\ wait_list[i] \in Tasks BY <3>1, PromisedFacts
    <3>3. QED BY <1>1, <1>4, <3>2 DEF LoopOK
  <2>2. \A u \in Tasks : pc'[u] \in {"grant_reader", "wake_task"} => pc'[u] = pc[u]
    BY <1>2 DEF WakerPCs
  <2>3. QED BY <1>1, <1>2, <1>3, <2>1, <2>2 DEF LoopOK
<1>10. NoDanglingWaiter'
  <2>1. ASSUME NEW u \in ungranted PROVE InWait(u)'
    <3>1. InWait(u) /\ u \in Tasks BY <1>1 DEF NoDanglingWaiter, TypeOK
    <3>2. CASE u = t BY <3>2 DEF Outer, InWait
    <3>3. CASE u # t BY <1>2, <1>3, <3>1, <3>3 DEF InWait
    <3>4. QED BY <3>2, <3>3
  <2>2. QED BY <1>1, <1>2, <1>3, <2>1 DEF NoDanglingWaiter, NoDuplicates
<1>11. HolderFlags' BY <1>1, <1>2 DEF HolderFlags
<1>12. Awake'
  <2> SUFFICES ASSUME NEW x \in Tasks, pc'[x] = "schedule", x \notin ungranted
               PROVE  schedule_returns(x)' \/ \E u \in Tasks : pc'[u] = "wake_task" /\ tsk = x
    BY <1>3 DEF Awake
  <2>1. x # t OBVIOUS
  <2>2. schedule_returns(x)' <=> schedule_returns(x)
    BY <2>1 DEF schedule_returns, signal_pending_state
  <2>3. \A u \in Tasks : pc[u] = "wake_task" => pc'[u] = "wake_task" BY <1>2 DEF WakerPCs
  <2>4. QED BY <1>1, <1>2, <2>1, <2>2, <2>3 DEF Awake
<1>13. QED BY <1>5, <1>6, <1>7, <1>8, <1>9, <1>10, <1>11, <1>12 DEF QueueInv

(* A step that makes nobody a holder, nor a reader a writer. *)
LEMMA OuterExclusive ==
  ASSUME QueueInv, Exclusive, NEW t \in Tasks, Outer(t),
         Held(t)' => Held(t) /\ (flags'[t] = "WRITE" => flags[t] = "WRITE")
  PROVE  Exclusive'
<1>1. \A x \in Tasks : Held(x)' => Held(x) BY OuterFrame
<1>2. \A x \in Tasks : Holds(x, "WRITE")' => Holds(x, "WRITE")
  <2>1. \A x \in Tasks : Holds(x, "WRITE")' <=> flags'[x] = "WRITE" /\ Held(x)'
    BY DEF Holds, Held
  <2>2. \A x \in Tasks : Held(x)' => (flags'[x] = "WRITE" => flags[x] = "WRITE") BY OuterFrame
  <2>3. QED BY <1>1, <2>1, <2>2, HoldsHeld
<1>3. \A x \in Tasks : pc'[x] \in {"grant_writer", "readers_only"} => pc[x] = pc'[x]
  BY OuterFrame DEF WakerPCs
<1>4. Promised' = Promised BY OuterFrame
<1>5. QED BY <1>1, <1>2, <1>3, <1>4 DEF Exclusive

-------------------------------------------------------------------------------
(* The rest of the invariant for a step outside, from what the sets become. *)
LEMMA ActiveAfter ==
  ASSUME NEW t \in Tasks, \A x \in Tasks : x # t => (IsActive(x)' <=> IsActive(x)),
         \A x \in Tasks : x # t => (IsWaiter(x)' <=> IsWaiter(x))
  PROVE  /\ Active' = IF IsActive(t)' THEN Active \cup {t} ELSE Active \ {t}
         /\ Waiters' = IF IsWaiter(t)' THEN Waiters \cup {t} ELSE Waiters \ {t}
         /\ t \in Active <=> IsActive(t)
         /\ t \in Waiters <=> IsWaiter(t)
<1>1. \A x : (x \in Active' <=> x \in Tasks /\ IsActive(x)') BY DEF Active
<1>2. \A x : (x \in Active <=> x \in Tasks /\ IsActive(x)) BY DEF Active
<1>3. \A x : (x \in Waiters' <=> x \in Tasks /\ IsWaiter(x)') BY DEF Waiters
<1>4. \A x : (x \in Waiters <=> x \in Tasks /\ IsWaiter(x)) BY DEF Waiters
<1>5. QED BY <1>1, <1>2, <1>3, <1>4

LEMMA InTasks == Active \in SUBSET Tasks /\ Waiters \in SUBSET Tasks
BY DEF Active, Waiters

LEMMA DownRead ==
  ASSUME RwInv, NEW t \in Tasks, __down_read(t) \/ __down_read_trylock(t)
  PROVE  RwInv'
<1>1. QueueInv /\ Tally /\ Exclusive /\ WakeDue BY DEF RwInv
<1>2. /\ pc[t] = "idle" /\ flags' = [flags EXCEPT ![t] = "READ"] /\ count' = count + 1
      /\ pc' = [pc EXCEPT ![t] = pc'[t]] /\ pc'[t] \in {"read", "failed"}
      /\ pc'[t] = "read" => count + 1 >= 0
      /\ UNCHANGED slowVars
  <2>1. TypeOK /\ count \in Int BY <1>1 DEF QueueInv, TypeOK
  <2>2. CASE __down_read(t) BY <2>1, <2>2, BFacts DEF __down_read, Goto, Ask, TypeOK
  <2>3. CASE __down_read_trylock(t) BY <2>1, <2>3, BFacts DEF __down_read_trylock, Goto, Ask, TypeOK
  <2>4. QED BY <2>2, <2>3
<1>3. /\ flags \in [Tasks -> Flags] /\ flags' \in [Tasks -> Flags] /\ flags'[t] = "READ"
      /\ \A x \in Tasks : x # t => flags'[x] = flags[x]
      /\ TaskTypeOK' /\ count \in Int /\ count' \in Int /\ undone' \in BOOLEAN
      /\ state' = state /\ sigpend' = sigpend
      /\ UNCHANGED <<wait_list, ungranted, lockVars, wakeVars>>
  BY <1>1, <1>2 DEF QueueInv, TypeOK, TaskTypeOK, Flags, slowVars, taskVars
<1>4. t \notin ungranted
  BY <1>1, <1>2 DEF QueueInv, NoDanglingWaiter, InWait, WakerPCs
<1>5. Outer(t) BY <1>2, <1>3, <1>4 DEF Outer, PCs, WakerPCs
<1>6. QueueInv' BY <1>1, <1>2, <1>3, <1>5, OuterQueue
<1>7. IsActive(t)' /\ ~IsActive(t) BY <1>2 DEF IsActive, LoopPCs
<1>8. ~IsWaiter(t)' /\ ~IsWaiter(t)
  BY <1>2, <1>3, <1>4 DEF IsWaiter, Pending, InWait, WakerPCs
<1>9. Active' = Active \cup {t} /\ Waiters' = Waiters /\ t \notin Active
  BY <1>1, <1>5, <1>7, <1>8, OuterFrame, ActiveAfter
<1>10. Tally'
  <2>1. Cardinality(Active') = Cardinality(Active) + 1 BY <1>9, InTasks, CardAdd
  <2>2. Cardinality(Waiters') = Cardinality(Waiters) + 0 BY <1>9, TallyFinite
  <2>3. count' = count + 1 - B * 0 BY <1>2, <1>3, BFacts
  <2>4. QED BY <1>1, <2>1, <2>2, <2>3, TallyStep
<1>11. Exclusive'
  <2>1. CASE pc'[t] = "failed"
    <3>1. ~Held(t)' BY <2>1 DEF Held, Granted, InWait, WakerPCs
    <3>2. QED BY <1>1, <1>5, <3>1, OuterExclusive
  <2>2. CASE pc'[t] = "read"
    <3>1. Waiters = {} BY <1>1, <1>2, <2>2, ReadCount
    <3>2. \A x \in Tasks : pc[x] # "grant_writer" /\ ~Holds(x, "WRITE")
      BY <1>1, <3>1, Counted DEF FirstPCs
    <3>3. \A x \in Tasks : pc'[x] = "grant_writer" => pc[x] = "grant_writer"
      BY <1>1, <1>5, <2>2, OuterFrame
    <3>4. \A x \in Tasks : Holds(x, "WRITE")' <=> flags'[x] = "WRITE" /\ Held(x)'
      BY DEF Holds, Held
    <3>5. \A x \in Tasks : ~Holds(x, "WRITE")'
      BY <1>1, <1>3, <1>5, <3>2, <3>4, OuterFrame, HoldsHeld
    <3>6. QED BY <3>2, <3>3, <3>5 DEF Exclusive
  <2>3. QED BY <1>2, <2>1, <2>2
<1>12. WakeDue' BY <1>9 DEF WakeDue
<1>13. QED BY <1>6, <1>10, <1>11, <1>12 DEF RwInv

LEMMA DownWrite ==
  ASSUME RwInv, NEW t \in Tasks, __down_write(t) \/ __down_write_trylock(t)
  PROVE  RwInv'
<1>1. QueueInv /\ Tally /\ Exclusive /\ WakeDue BY DEF RwInv
<1>2. /\ pc[t] = "idle" /\ flags' = [flags EXCEPT ![t] = "WRITE"] /\ count' = count + (1 - B)
      /\ pc' = [pc EXCEPT ![t] = pc'[t]] /\ pc'[t] \in {"write", "failed"}
      /\ pc'[t] = "write" => count = 0
      /\ UNCHANGED slowVars
  <2>1. TypeOK /\ count \in Int BY <1>1 DEF QueueInv, TypeOK
  <2>2. CASE __down_write(t) BY <2>1, <2>2, BFacts DEF __down_write, Goto, Ask, TypeOK
  <2>3. CASE __down_write_trylock(t) BY <2>1, <2>3, BFacts DEF __down_write_trylock, Goto, Ask, TypeOK
  <2>4. QED BY <2>2, <2>3
<1>3. /\ flags \in [Tasks -> Flags] /\ flags' \in [Tasks -> Flags] /\ flags'[t] = "WRITE"
      /\ \A x \in Tasks : x # t => flags'[x] = flags[x]
      /\ TaskTypeOK' /\ count \in Int /\ count' \in Int /\ undone' \in BOOLEAN
      /\ state' = state /\ sigpend' = sigpend
      /\ UNCHANGED <<wait_list, ungranted, lockVars, wakeVars>>
  BY <1>1, <1>2, BFacts DEF QueueInv, TypeOK, TaskTypeOK, Flags, slowVars, taskVars
<1>4. t \notin ungranted
  BY <1>1, <1>2 DEF QueueInv, NoDanglingWaiter, InWait, WakerPCs
<1>5. Outer(t) BY <1>2, <1>3, <1>4 DEF Outer, PCs, WakerPCs
<1>6. QueueInv' BY <1>1, <1>2, <1>3, <1>5, OuterQueue
<1>7. IsActive(t)' /\ ~IsActive(t) BY <1>2 DEF IsActive, LoopPCs
<1>8. IsWaiter(t)' /\ ~IsWaiter(t)
  BY <1>2, <1>3, <1>4 DEF IsWaiter, Pending, InWait, WakerPCs
<1>9. /\ Active' = Active \cup {t} /\ Waiters' = Waiters \cup {t}
      /\ t \notin Active /\ t \notin Waiters
  BY <1>1, <1>5, <1>7, <1>8, OuterFrame, ActiveAfter
<1>10. Tally'
  <2>1. Cardinality(Active') = Cardinality(Active) + 1 BY <1>9, InTasks, CardAdd
  <2>2. Cardinality(Waiters') = Cardinality(Waiters) + 1 BY <1>9, InTasks, CardAdd
  <2>3. count' = count + 1 - B * 1 BY <1>2, <1>3, BFacts
  <2>4. QED BY <1>1, <2>1, <2>2, <2>3, TallyStep
<1>11. Exclusive'
  <2>1. CASE pc'[t] = "failed"
    <3>1. ~Held(t)' BY <2>1 DEF Held, Granted, InWait, WakerPCs
    <3>2. QED BY <1>1, <1>5, <3>1, OuterExclusive
  <2>2. CASE pc'[t] = "write"
    <3>1. Active = {} /\ Waiters = {} BY <1>1, <1>2, <2>2, ReadCount
    <3>2. /\ \A x \in Tasks : pc[x] \notin {"grant_writer", "readers_only"} /\ ~Held(x)
          /\ Promised = {}
      BY <1>1, <3>1, Counted
    <3>3. \A x \in Tasks : pc'[x] \notin {"grant_writer", "readers_only"}
      BY <1>1, <1>5, <2>2, <3>2, OuterFrame
    <3>4. \A x \in Tasks : Held(x)' => x = t
      BY <1>1, <1>5, <3>2, OuterFrame
    <3>5. \A x \in Tasks : Holds(x, "WRITE")' => Held(x)' BY DEF Holds, Held
    <3>6. Promised' = {} BY <1>1, <1>5, <3>2, OuterFrame
    <3>7. QED BY <3>3, <3>4, <3>5, <3>6 DEF Exclusive
  <2>3. QED BY <1>2, <2>1, <2>2
<1>12. WakeDue' BY <1>9 DEF WakeDue
<1>13. QED BY <1>6, <1>10, <1>11, <1>12 DEF RwInv

LEMMA UpRead ==
  ASSUME RwInv, NEW t \in Tasks, __up_read(t)
  PROVE  RwInv'
<1>1. QueueInv /\ Tally /\ Exclusive /\ WakeDue BY DEF RwInv
<1>2. /\ pc[t] = "read" /\ flags' = flags /\ count' = count - 1
      /\ pc' = [pc EXCEPT ![t] = pc'[t]] /\ pc'[t] \in {"idle", "wake"}
      /\ count' < 0 /\ count % (WAKE_MASK + 1) = 1 => pc'[t] = "wake"
      /\ UNCHANGED slowVars
  <2>1. TypeOK /\ count \in Int BY <1>1 DEF QueueInv, TypeOK
  <2>2. QED BY <2>1, BFacts DEF __up_read, call_rwsem_wake, Goto, TypeOK
<1>3. /\ flags \in [Tasks -> Flags] /\ flags[t] = "READ"
      /\ TaskTypeOK' /\ count \in Int /\ count' \in Int /\ undone' \in BOOLEAN
      /\ state' = state /\ sigpend' = sigpend /\ undone' = undone
      /\ UNCHANGED <<wait_list, ungranted, lockVars, wakeVars>>
  BY <1>1, <1>2 DEF QueueInv, TypeOK, TaskTypeOK, slowVars, taskVars, HolderFlags
<1>4. t \notin ungranted
  BY <1>1, <1>2 DEF QueueInv, NoDanglingWaiter, InWait, WakerPCs
<1>5. Outer(t) BY <1>2, <1>3, <1>4 DEF Outer, PCs, WakerPCs
<1>6. QueueInv' BY <1>1, <1>2, <1>3, <1>5, OuterQueue
<1>7. ~IsActive(t)' /\ IsActive(t) BY <1>2 DEF IsActive, LoopPCs
<1>8. ~IsWaiter(t)' /\ ~IsWaiter(t)
  BY <1>2, <1>3, <1>4 DEF IsWaiter, Pending, InWait, WakerPCs
<1>9. Active' = Active \ {t} /\ Waiters' = Waiters /\ t \in Active
  BY <1>1, <1>5, <1>7, <1>8, OuterFrame, ActiveAfter
<1>10. Cardinality(Active') = Cardinality(Active) - 1 BY <1>9, InTasks, CardDel
<1>11. Tally'
  <2>1. Cardinality(Active) \in Int /\ Cardinality(Active') = Cardinality(Active) + (-1)
    BY <1>10, TallyFinite
  <2>2. Cardinality(Waiters') = Cardinality(Waiters) + 0 BY <1>9, TallyFinite
  <2>3. count' = count + (-1) - B * 0 BY <1>2, <1>3, BFacts
  <2>4. QED BY <1>1, <2>1, <2>2, <2>3, TallyStep
<1>12. Exclusive'
  <2>1. ~Held(t)' BY <1>2, <1>4 DEF Held, Granted, InWait, WakerPCs
  <2>2. QED BY <1>1, <1>5, <2>1, OuterExclusive
<1>13. WakeDue'
  <2> SUFFICES ASSUME Queued' # {}, Active' = {} PROVE pc'[t] = "wake"
    BY DEF WakeDue
  <2>1. Waiters # {} BY <1>1, <1>5, OuterFrame, Counted
  <2>2. Cardinality(Active) = 1
    <3>1. Cardinality(Active') = 0 BY FS_EmptySet
    <3>2. QED BY <1>10, <3>1, TallyFinite
  <2>3. count % (WAKE_MASK + 1) = 1 /\ ~(count >= 0) BY <1>1, <2>1, <2>2, ReadCount
  <2>4. QED BY <1>2, <1>3, <2>3
<1>14. QED BY <1>6, <1>11, <1>12, <1>13 DEF RwInv

LEMMA UpWrite ==
  ASSUME RwInv, NEW t \in Tasks, __up_write(t)
  PROVE  RwInv'
<1>1. QueueInv /\ Tally /\ Exclusive /\ WakeDue BY DEF RwInv
<1>2. /\ pc[t] = "write" /\ flags' = flags /\ count' = count - (1 - B)
      /\ pc' = [pc EXCEPT ![t] = pc'[t]] /\ pc'[t] \in {"idle", "wake"}
      /\ count' # 0 /\ count % (WAKE_MASK + 1) = 1 => pc'[t] = "wake"
      /\ UNCHANGED slowVars
  <2>1. TypeOK /\ count \in Int BY <1>1 DEF QueueInv, TypeOK
  <2>2. QED BY <2>1, BFacts DEF __up_write, call_rwsem_wake, Goto, TypeOK
<1>3. /\ flags \in [Tasks -> Flags] /\ flags[t] = "WRITE"
      /\ TaskTypeOK' /\ count \in Int /\ count' \in Int /\ undone' \in BOOLEAN
      /\ state' = state /\ sigpend' = sigpend /\ undone' = undone
      /\ UNCHANGED <<wait_list, ungranted, lockVars, wakeVars>>
  BY <1>1, <1>2, BFacts DEF QueueInv, TypeOK, TaskTypeOK, slowVars, taskVars, HolderFlags
<1>4. t \notin ungranted
  BY <1>1, <1>2 DEF QueueInv, NoDanglingWaiter, InWait, WakerPCs
<1>5. Outer(t) BY <1>2, <1>3, <1>4 DEF Outer, PCs, WakerPCs
<1>6. QueueInv' BY <1>1, <1>2, <1>3, <1>5, OuterQueue
<1>7. ~IsActive(t)' /\ IsActive(t) BY <1>2 DEF IsActive, LoopPCs
<1>8. ~IsWaiter(t)' /\ IsWaiter(t)
  BY <1>2, <1>3, <1>4 DEF IsWaiter, Pending, InWait, WakerPCs
<1>9. Active' = Active \ {t} /\ Waiters' = Waiters \ {t} /\ t \in Active /\ t \in Waiters
  BY <1>1, <1>5, <1>7, <1>8, OuterFrame, ActiveAfter
<1>10. Cardinality(Active') = Cardinality(Active) - 1 BY <1>9, InTasks, CardDel
<1>11. Tally'
  <2>1. Cardinality(Active) \in Int /\ Cardinality(Active') = Cardinality(Active) + (-1)
    BY <1>10, TallyFinite
  <2>2. Cardinality(Waiters') = Cardinality(Waiters) + (-1)
    <3>1. Cardinality(Waiters') = Cardinality(Waiters) - 1 BY <1>9, InTasks, CardDel
    <3>2. QED BY <3>1, TallyFinite
  <2>3. count' = count + (-1) - B * (-1) BY <1>2, <1>3, BFacts
  <2>4. QED BY <1>1, <2>1, <2>2, <2>3, TallyStep
<1>12. Exclusive'
  <2>1. ~Held(t)' BY <1>2, <1>4 DEF Held, Granted, InWait, WakerPCs
  <2>2. QED BY <1>1, <1>5, <2>1, OuterExclusive
<1>13. WakeDue'
  <2> SUFFICES ASSUME Queued' # {}, Active' = {} PROVE pc'[t] = "wake"
    BY DEF WakeDue
  <2>1. Waiters' # {}
    <3>1. \A x \in Queued : x \in Waiters /\ x # t
      BY <1>1, <1>4, Counted DEF Queued
    <3>2. QED BY <1>1, <1>5, <1>9, <3>1, OuterFrame
  <2>2. Cardinality(Active) = 1
    <3>1. Cardinality(Active') = 0 BY FS_EmptySet
    <3>2. QED BY <1>10, <3>1, TallyFinite
  <2>3. count % (WAKE_MASK + 1) = 1 BY <1>1, <2>2, ReadCount
  <2>4. count' # 0
    <3>1. (count = 0 <=> Active = {} /\ Waiters = {})' BY <1>11, ReadCount, PTL
    <3>2. QED BY <2>1, <3>1
  <2>5. QED BY <1>2, <2>3, <2>4
<1>14. QED BY <1>6, <1>11, <1>12, <1>13 DEF RwInv

LEMMA DowngradeWrite ==
  ASSUME RwInv, NEW t \in Tasks, __downgrade_write(t)
  PROVE  RwInv'
<1>1. QueueInv /\ Tally /\ Exclusive /\ WakeDue BY DEF RwInv
<1>2. /\ pc[t] = "write" /\ flags' = [flags EXCEPT ![t] = "READ"] /\ count' = count + B
      /\ pc' = [pc EXCEPT ![t] = pc'[t]] /\ pc'[t] \in {"read", "downgrade_wake"}
      /\ UNCHANGED slowVars
  <2>1. TypeOK /\ count \in Int BY <1>1 DEF QueueInv, TypeOK
  <2>2. QED BY <2>1, BFacts DEF __downgrade_write, Ask, Goto, TypeOK
<1>3. /\ flags \in [Tasks -> Flags] /\ flags' \in [Tasks -> Flags]
      /\ flags[t] = "WRITE" /\ flags'[t] = "READ"
      /\ \A x \in Tasks : x # t => flags'[x] = flags[x]
      /\ TaskTypeOK' /\ count \in Int /\ count' \in Int /\ undone' \in BOOLEAN
      /\ state' = state /\ sigpend' = sigpend
      /\ UNCHANGED <<wait_list, ungranted, lockVars, wakeVars>>
  BY <1>1, <1>2, BFacts DEF QueueInv, TypeOK, TaskTypeOK, Flags, slowVars, taskVars, HolderFlags
<1>4. t \notin ungranted
  BY <1>1, <1>2 DEF QueueInv, NoDanglingWaiter, InWait, WakerPCs
<1>5. Outer(t) BY <1>2, <1>3, <1>4 DEF Outer, PCs, WakerPCs
<1>6. QueueInv' BY <1>1, <1>2, <1>3, <1>5, OuterQueue
<1>7. IsActive(t)' /\ IsActive(t) BY <1>2 DEF IsActive, LoopPCs
<1>8. ~IsWaiter(t)' /\ IsWaiter(t)
  BY <1>2, <1>3, <1>4 DEF IsWaiter, Pending, InWait, WakerPCs
<1>9. Active' = Active /\ Waiters' = Waiters \ {t} /\ t \in Active /\ t \in Waiters
  BY <1>1, <1>5, <1>7, <1>8, OuterFrame, ActiveAfter
<1>10. Tally'
  <2>1. Cardinality(Active') = Cardinality(Active) + 0 BY <1>9, TallyFinite
  <2>2. Cardinality(Waiters') = Cardinality(Waiters) + (-1)
    <3>1. Cardinality(Waiters') = Cardinality(Waiters) - 1 BY <1>9, InTasks, CardDel
    <3>2. QED BY <3>1, TallyFinite
  <2>3. count' = count + 0 - B * (-1) BY <1>2, <1>3, BFacts
  <2>4. QED BY <1>1, <2>1, <2>2, <2>3, TallyStep
<1>11. Exclusive'
  <2>1. Held(t) BY <1>2 DEF Held
  <2>2. QED BY <1>1, <1>3, <1>5, <2>1, OuterExclusive
<1>12. WakeDue' BY <1>9 DEF WakeDue
<1>13. QED BY <1>6, <1>10, <1>11, <1>12 DEF RwInv

(* A step that moves a task between two places that count the same. *)
LEMMA OuterKeeps ==
  ASSUME RwInv, NEW t \in Tasks, Outer(t), QueueInv', count' = count, undone' = undone,
         flags' = flags, Held(t)' => Held(t), IsActive(t)' <=> IsActive(t),
         IsWaiter(t)' <=> IsWaiter(t), pc[t] \notin {"wake", "try_again"}
  PROVE  RwInv'
<1>1. QueueInv /\ Tally /\ Exclusive /\ WakeDue BY DEF RwInv
<1>2. Active' = Active /\ Waiters' = Waiters BY <1>1, OuterFrame, ActiveAfter
<1>3. Tally' BY <1>1, <1>2 DEF Tally, B
<1>4. Exclusive' BY <1>1, OuterExclusive
<1>5. WakeDue'
  <2>1. \A u \in Tasks : pc[u] \in {"wake", "try_again"} => pc'[u] = pc[u] BY <1>1, OuterFrame
  <2>2. Queued' = Queued BY <1>1, OuterFrame
  <2>3. QED BY <1>1, <1>2, <2>1, <2>2 DEF WakeDue
<1>6. QED BY <1>3, <1>4, <1>5 DEF RwInv

LEMMA Waits ==
  ASSUME RwInv, NEW t \in Tasks, WaitTest(t) \/ WaitSchedule(t)
  PROVE  RwInv'
<1>1. QueueInv BY DEF RwInv
<1>2. /\ pc[t] \in {"wait", "schedule"} /\ pc' = [pc EXCEPT ![t] = pc'[t]]
      /\ t \in ungranted => pc'[t] \in {"wait", "schedule"}
      /\ t \notin ungranted => \/ pc'[t] = "read" /\ flags[t] = "READ"
                               \/ pc'[t] = "write" /\ flags[t] = "WRITE"
                               \/ pc'[t] = "wait"
      /\ \E st \in TaskStates : state' = [state EXCEPT ![t] = st]
      /\ UNCHANGED <<count, flags, wait_list, ungranted, undone, lockVars, wakeVars, sigpend>>
  <2>1. pc \in [Tasks -> PCs] /\ flags \in [Tasks -> Flags] /\ state \in [Tasks -> TaskStates]
    BY <1>1 DEF QueueInv, TypeOK, TaskTypeOK
  <2>2. CASE WaitTest(t)
    <3>1. state' = state \/ state' = [state EXCEPT ![t] = "RUNNING"]
      BY <2>2 DEF WaitTest, set_task_state
    <3>2. \E st \in TaskStates : state' = [state EXCEPT ![t] = st]
      <4>1. state = [state EXCEPT ![t] = state[t]] /\ state[t] \in TaskStates BY <2>1
      <4>2. "RUNNING" \in TaskStates BY DEF TaskStates
      <4>3. QED BY <3>1, <4>1, <4>2
    <3>3. QED BY <2>1, <2>2, <3>2 DEF WaitTest, Goto, Flags
  <2>3. CASE WaitSchedule(t)
    <3>1. "UNINTERRUPTIBLE" \in TaskStates BY DEF TaskStates, SleepStates
    <3>2. QED BY <2>1, <2>3, <3>1 DEF WaitSchedule, Goto, set_task_state
  <2>4. QED BY <2>2, <2>3
<1>3. /\ flags \in [Tasks -> Flags] /\ flags' = flags /\ count' \in Int /\ undone' \in BOOLEAN
      /\ TaskTypeOK' /\ \A x \in Tasks : x # t => state'[x] = state[x] /\ sigpend'[x] = sigpend[x]
  BY <1>1, <1>2 DEF QueueInv, TypeOK, TaskTypeOK
<1>4. Outer(t) BY <1>2, <1>3 DEF Outer, PCs, WakerPCs
<1>5. QueueInv' BY <1>1, <1>2, <1>3, <1>4, OuterQueue
<1>6. Pending(t)' <=> Pending(t) BY <1>1, <1>2, <1>4, OuterFrame DEF Pending
<1>7. IsActive(t)' <=> IsActive(t)
  <2>1. t \notin ungranted => ~Pending(t) BY DEF Pending
  <2>2. QED BY <1>2, <1>6, <2>1 DEF IsActive, LoopPCs
<1>8. IsWaiter(t)' <=> IsWaiter(t) BY <1>2, <1>6 DEF IsWaiter, InWait, WakerPCs
<1>9. Held(t)' => Held(t) BY <1>2 DEF Held, Granted, InWait, WakerPCs
<1>10. QED BY <1>2, <1>3, <1>4, <1>5, <1>7, <1>8, <1>9, OuterKeeps

(* Only the state of tasks changes, towards running. *)
LEMMA StateOnly ==
  ASSUME RwInv, UNCHANGED <<count, flags, wait_list, ungranted, pc, undone, lockVars, wakeVars>>,
         TaskTypeOK', \A x \in Tasks : schedule_returns(x) => schedule_returns(x)'
  PROVE  RwInv'
<1>1. /\ count' = count /\ flags' = flags /\ wait_list' = wait_list /\ ungranted' = ungranted
      /\ pc' = pc /\ undone' = undone /\ wait_lock' = wait_lock /\ caller' = caller
      /\ next' = next /\ loop' = loop /\ tsk' = tsk
  BY DEF lockVars, wakeVars
<1>2. InLoop' = InLoop BY <1>1 DEF InLoop
<1>3. Promised' = Promised BY <1>1, <1>2 DEF Promised
<1>4. \A x \in Tasks : /\ InWait(x)' <=> InWait(x)
                       /\ Pending(x)' <=> Pending(x)
  BY <1>1, <1>3 DEF InWait, Pending
<1>5. \A x \in Tasks : /\ IsActive(x)' <=> IsActive(x)
                       /\ IsWaiter(x)' <=> IsWaiter(x)
                       /\ Held(x)' <=> Held(x)
  BY <1>1, <1>4 DEF IsActive, IsWaiter, Held, Granted
<1>6. Active' = Active /\ Waiters' = Waiters /\ Queued' = Queued
  BY <1>1, <1>3, <1>5 DEF Active, Waiters, Queued
<1>7. TypeOK' /\ OneWaker' /\ CallerOK' /\ HolderFlags'
  BY <1>1 DEF RwInv, QueueInv, TypeOK, OneWaker, CallerOK, HolderFlags
<1>8. FrontOK' /\ LoopOK' /\ NoDanglingWaiter'
  <2>1. \A f : FrontIs(f)' <=> FrontIs(f) BY <1>1 DEF FrontIs
  <2>2. FrontOK' BY <1>1, <2>1 DEF RwInv, QueueInv, FrontOK
  <2>3. LoopOK' BY <1>1, <1>2 DEF RwInv, QueueInv, LoopOK
  <2>4. ungranted \subseteq Tasks BY DEF RwInv, QueueInv, TypeOK
  <2>5. NoDanglingWaiter' BY <1>1, <1>2, <1>4, <2>4 DEF RwInv, QueueInv, NoDanglingWaiter
  <2>6. QED BY <2>2, <2>3, <2>5
<1>9. Awake' BY <1>1 DEF RwInv, QueueInv, Awake
<1>10. Tally' BY <1>1, <1>6 DEF RwInv, Tally, B
<1>11. Exclusive'
  <2>1. \A x \in Tasks : Holds(x, "WRITE")' <=> Holds(x, "WRITE")
    BY <1>1, <1>5 DEF Holds, Held
  <2>2. QED BY <1>1, <1>3, <1>5, <2>1 DEF RwInv, Exclusive
<1>12. WakeDue' BY <1>1, <1>6 DEF RwInv, WakeDue
<1>13. QED BY <1>7, <1>8, <1>9, <1>10, <1>11, <1>12 DEF RwInv, QueueInv

LEMMA Strays ==
  ASSUME RwInv, NEW t \in Tasks, Stray(t)
  PROVE  RwInv'
<1>1. TaskTypeOK BY DEF RwInv, QueueInv, TypeOK
<1>2. state' = [state EXCEPT ![t] = "RUNNING"] /\ sigpend' = sigpend
  BY DEF Stray, StrayWakeup, wake_up_process
<1>3. TaskTypeOK' BY <1>1, <1>2 DEF TaskTypeOK, TaskStates
<1>4. \A x \in Tasks : schedule_returns(x) => schedule_returns(x)'
  BY <1>1, <1>2 DEF schedule_returns, signal_pending_state, TaskTypeOK
<1>5. QED BY <1>3, <1>4, StateOnly DEF Stray
-------------------------------------------------------------------------------
(* A step of task t that has, takes or drops wait_lock. *)
Inner(t) ==
  /\ wait_lock \in {NULL, t}
  /\ pc' = [pc EXCEPT ![t] = pc'[t]] /\ pc'[t] \in PCs /\ flags' = flags
  /\ wait_lock' = IF pc'[t] \in WakerPCs THEN t ELSE NULL

LEMMA InnerFrame ==
  ASSUME QueueInv, NEW t \in Tasks, Inner(t)
  PROVE  /\ pc' \in [Tasks -> PCs] /\ OneWaker'
         /\ \A x \in Tasks : x # t => pc'[x] = pc[x] /\ pc[x] \notin WakerPCs
         /\ InLoop' <=> pc'[t] \in LoopPCs
         /\ InLoop <=> pc[t] \in LoopPCs
         /\ \A x \in Tasks : x # t => (InWait(x)' <=> InWait(x))
         /\ \A x \in Tasks : x # t /\ (Pending(x)' <=> Pending(x)) => (IsActive(x)' <=> IsActive(x))
         /\ \A x \in Tasks : x # t /\ (Pending(x)' <=> Pending(x)) /\ (x \in ungranted' <=> x \in ungranted)
              => (IsWaiter(x)' <=> IsWaiter(x))
         /\ \A x \in Tasks : x # t /\ (x \in ungranted' <=> x \in ungranted) => (Held(x)' <=> Held(x))
<1>1. pc \in [Tasks -> PCs] /\ OneWaker /\ NULL \notin Tasks
  BY RwSemAssumption DEF QueueInv, TypeOK
<1>2. pc' \in [Tasks -> PCs] BY <1>1 DEF Inner
<1>3. \A x \in Tasks : x # t => pc'[x] = pc[x] /\ pc[x] \notin WakerPCs
  <2>1. \A x \in Tasks : x # t => pc'[x] = pc[x] BY <1>1 DEF Inner
  <2>2. \A x \in Tasks : x # t => wait_lock # x BY <1>1 DEF Inner
  <2>3. QED BY <1>1, <2>1, <2>2 DEF OneWaker
<1>4. OneWaker'
  <2> SUFFICES ASSUME NEW x \in Tasks PROVE pc'[x] \in WakerPCs <=> wait_lock' = x
    BY DEF OneWaker
  <2>1. CASE x = t BY <1>1, <2>1 DEF Inner
  <2>2. CASE x # t BY <1>1, <1>3, <2>2 DEF Inner
  <2>3. QED BY <2>1, <2>2
<1>5. (InLoop' <=> pc'[t] \in LoopPCs) /\ (InLoop <=> pc[t] \in LoopPCs)
  BY <1>3 DEF InLoop, LoopPCs, WakerPCs
<1>6. ASSUME NEW x \in Tasks, x # t
      PROVE  /\ InWait(x)' <=> InWait(x)
             /\ (Pending(x)' <=> Pending(x)) => (IsActive(x)' <=> IsActive(x))
             /\ (Pending(x)' <=> Pending(x)) /\ (x \in ungranted' <=> x \in ungranted)
                  => (IsWaiter(x)' <=> IsWaiter(x))
             /\ (x \in ungranted' <=> x \in ungranted) => (Held(x)' <=> Held(x))
  <2>1. pc'[x] = pc[x] /\ pc[x] \notin WakerPCs /\ pc[x] \notin LoopPCs /\ flags'[x] = flags[x]
    BY <1>3, <1>6 DEF Inner, WakerPCs, LoopPCs
  <2>2. InWait(x)' <=> InWait(x) BY <2>1 DEF InWait
  <2>3. QED BY <2>1, <2>2 DEF IsActive, IsWaiter, Held, Granted
<1>7. QED BY <1>2, <1>3, <1>4, <1>5, <1>6

LEMMA InnerQueue ==
  ASSUME QueueInv, NEW t \in Tasks, Inner(t),
         /\ pc'[t] \in WakerPCs /\ caller' = "read" =>
              pc'[t] \in {"readers_only", "grant_reader", "wake_task"} /\ flags[t] = "READ"
         /\ pc'[t] \in FirstPCs /\ caller' = "wait" => t \in ungranted'
         /\ pc'[t] \in {"read", "downgrade_wake"} => flags[t] = "READ"
         /\ pc'[t] = "write" => flags[t] = "WRITE"
  PROVE  OneWaker' /\ CallerOK' /\ HolderFlags'
<1>1. /\ \A x \in Tasks : x # t => pc'[x] = pc[x] /\ pc[x] \notin WakerPCs /\ pc[x] \notin FirstPCs
      /\ OneWaker' /\ flags' = flags
  BY InnerFrame DEF Inner, WakerPCs, FirstPCs
<1>2. CallerOK' BY <1>1 DEF CallerOK
<1>3. HolderFlags' BY <1>1 DEF HolderFlags, QueueInv
<1>4. QED BY <1>1, <1>2, <1>3

LEMMA InnerAwake ==
  ASSUME QueueInv, NEW t \in Tasks, Inner(t), pc[t] # "wake_task", pc'[t] # "schedule",
         \A x \in Tasks : x # t => state'[x] = state[x], sigpend' = sigpend,
         \A x \in Tasks : x \notin ungranted' =>
            x \notin ungranted \/ (tsk' = x /\ pc'[t] = "wake_task")
  PROVE  Awake'
<1> SUFFICES ASSUME NEW x \in Tasks, pc'[x] = "schedule", x \notin ungranted'
             PROVE  schedule_returns(x)' \/ \E u \in Tasks : pc'[u] = "wake_task" /\ tsk' = x
  BY DEF Awake
<1>1. x # t OBVIOUS
<1>2. schedule_returns(x)' <=> schedule_returns(x)
  BY <1>1 DEF schedule_returns, signal_pending_state
<1>3. \A u \in Tasks : pc[u] # "wake_task" BY InnerFrame DEF WakerPCs
<1>4. pc[x] = "schedule" BY <1>1, InnerFrame
<1>5. x \notin ungranted => schedule_returns(x) BY <1>3, <1>4 DEF QueueInv, Awake
<1>6. QED BY <1>2, <1>5

LEMMA FailedCommon ==
  ASSUME RwInv, NEW t \in Tasks, rwsem_down_failed_common(t)
  PROVE  RwInv'
<1>1. QueueInv /\ Tally /\ Exclusive /\ WakeDue BY DEF RwInv
<1>2. TypeOK /\ pc \in [Tasks -> PCs] /\ count \in Int /\ wait_list \in Seq(Tasks) /\ t \in Tasks
  BY <1>1 DEF QueueInv, TypeOK
<1>3. /\ pc[t] = "failed" /\ wait_lock = NULL /\ state' = [state EXCEPT ![t] = "UNINTERRUPTIBLE"]
      /\ ungranted' = ungranted \cup {t} /\ wait_list' = list_add_tail(t, wait_list)
      /\ count' = count + adjustment(t)
      /\ pc' = [pc EXCEPT ![t] = pc'[t]]
      /\ \/ pc'[t] = "try_again" /\ wait_lock' = t /\ caller' = "wait" /\ ActivePart(count') = 0
         \/ pc'[t] = "wait" /\ wait_lock' = NULL /\ caller' = caller /\ ActivePart(count') # 0
      /\ flags' = flags /\ undone' = undone /\ next' = next /\ loop' = loop /\ tsk' = tsk
      /\ sigpend' = sigpend
  BY <1>2 DEF rwsem_down_failed_common, DoWake, DontWake, Goto, set_task_state, lockVars, wakeVars
<1>4. Inner(t) BY <1>3 DEF Inner, PCs, WakerPCs
<1>5. ~InLoop /\ Promised = {} /\ Entries(wait_list) = ungranted /\ NoDuplicates(wait_list)
  BY <1>1, <1>3, NotInLoop DEF QueueInv, NoDanglingWaiter
<1>6. t \notin ungranted BY <1>1, <1>3 DEF QueueInv, NoDanglingWaiter, InWait, WakerPCs
<1>7. /\ wait_list' \in Seq(Tasks) /\ Entries(wait_list') = ungranted' /\ NoDuplicates(wait_list')
  BY <1>2, <1>3, <1>5, <1>6, ListAddTail
<1>8. adjustment(t) = IF flags[t] = "READ" THEN -1 - B ELSE -1
  BY BFacts DEF adjustment
<1>9. TypeOK'
  <2>1. count' \in Int BY <1>2, <1>3, <1>8, BFacts
  <2>2. TaskTypeOK' BY <1>2, <1>3 DEF TypeOK, TaskTypeOK, TaskStates, SleepStates
  <2>3. pc' \in [Tasks -> PCs] BY <1>1, <1>4, InnerFrame
  <2>4. QED BY <1>2, <1>3, <1>7, <2>1, <2>2, <2>3 DEF TypeOK, Callers
<1>10. ~InLoop' BY <1>1, <1>3, <1>4, InnerFrame DEF LoopPCs
<1>11. OneWaker' /\ CallerOK' /\ HolderFlags'
  BY <1>1, <1>3, <1>4, InnerQueue DEF WakerPCs
<1>12. NoDanglingWaiter'
  <2>1. ASSUME NEW x \in ungranted' PROVE InWait(x)'
    <3>1. CASE x = t BY <1>3, <3>1 DEF InWait, WakerPCs
    <3>2. CASE x # t
      <4>1. x \in Tasks /\ InWait(x) BY <1>1, <1>2, <1>3, <3>2 DEF QueueInv, NoDanglingWaiter, TypeOK
      <4>2. QED BY <1>1, <1>4, <3>2, <4>1, InnerFrame
    <3>3. QED BY <3>1, <3>2
  <2>2. QED BY <1>7, <1>10, <2>1 DEF NoDanglingWaiter, Entries
<1>13. FrontOK'
  <2>1. ~list_empty(wait_list')
    <3>1. Entries(wait_list') # {} BY <1>3, <1>7
    <3>2. QED BY <1>7, <3>1, ListEmpty
  <2>2. \A u \in Tasks : pc'[u] \notin {"grant_writer", "readers_only"}
    BY <1>1, <1>3, <1>4, InnerFrame DEF WakerPCs
  <2>3. (~list_empty(wait_list))' BY <2>1 DEF list_empty
  <2>4. QED BY <2>2, <2>3 DEF FrontOK
<1>14. LoopOK'
  <2>1. next >= 1 BY <1>1 DEF QueueInv, LoopOK
  <2>2. \A u \in Tasks : pc'[u] \notin LoopPCs BY <1>10 DEF InLoop, LoopPCs
  <2>3. QED BY <1>3, <1>10, <2>1, <2>2 DEF LoopOK, LoopPCs
<1>15. Awake' BY <1>1, <1>2, <1>3, <1>4, InnerAwake DEF TypeOK, TaskTypeOK
<1>16. QueueInv' BY <1>9, <1>11, <1>12, <1>13, <1>14, <1>15 DEF QueueInv
<1>17. Promised' = {}
  <2>1. (~InLoop => Promised = {})' BY <1>16, PromisedFacts, PTL
  <2>2. QED BY <1>10, <2>1
<1>18. Pending(t)' /\ \A x \in Tasks : x # t => (Pending(x)' <=> Pending(x))
  BY <1>3, <1>5, <1>17 DEF Pending
<1>19. ~IsActive(t)' /\ IsActive(t) /\ IsWaiter(t)' /\ (IsWaiter(t) <=> flags[t] = "WRITE")
  BY <1>3, <1>6, <1>18 DEF IsActive, IsWaiter, LoopPCs, Pending
<1>20. /\ Active' = Active \ {t} /\ Waiters' = Waiters \cup {t}
       /\ t \in Active /\ (t \in Waiters <=> flags[t] = "WRITE")
  BY <1>1, <1>3, <1>4, <1>18, <1>19, InnerFrame, ActiveAfter
<1>21. Tally'
  <2>1. Cardinality(Active') = Cardinality(Active) + (-1)
    <3>1. Cardinality(Active') = Cardinality(Active) - 1 BY <1>20, InTasks, CardDel
    <3>2. QED BY <3>1, TallyFinite
  <2>2. CASE flags[t] = "WRITE"
    <3>1. Waiters' = Waiters BY <1>20, <2>2
    <3>2. Cardinality(Waiters') = Cardinality(Waiters) + 0 BY <3>1, TallyFinite
    <3>3. count' = count + (-1) - B * 0 BY <1>2, <1>3, <1>8, <2>2, BFacts
    <3>4. QED BY <1>1, <2>1, <3>2, <3>3, TallyStep
  <2>3. CASE flags[t] # "WRITE"
    <3>1. flags[t] = "READ" BY <1>2, <2>3 DEF TypeOK, Flags
    <3>2. Cardinality(Waiters') = Cardinality(Waiters) + 1 BY <1>20, <2>3, InTasks, CardAdd
    <3>3. count' = count + (-1) - B * 1 BY <1>2, <1>3, <1>8, <3>1, BFacts
    <3>4. QED BY <1>1, <2>1, <3>2, <3>3, TallyStep
  <2>4. QED BY <2>2, <2>3
<1>22. Exclusive'
  <2>1. ~Held(t)'
    BY <1>3 DEF Held, Granted, InWait, WakerPCs
  <2>2. \A x \in Tasks : Held(x)' => Held(x) BY <1>1, <1>3, <1>4, <2>1, InnerFrame
  <2>3. \A x \in Tasks : Holds(x, "WRITE")' => Holds(x, "WRITE")
    BY <1>3, <2>2 DEF Holds, Held
  <2>4. \A u \in Tasks : pc'[u] \notin {"grant_writer", "readers_only"}
    BY <1>1, <1>3, <1>4, InnerFrame DEF WakerPCs
  <2>5. QED BY <1>1, <1>17, <2>2, <2>3, <2>4 DEF Exclusive
<1>23. WakeDue'
  <2>1. (ActivePart(count) = 0 <=> Active = {})' BY <1>21, ReadCount, PTL
  <2>2. ActivePart(count)' = ActivePart(count') BY DEF ActivePart
  <2>3. QED BY <1>3, <2>1, <2>2 DEF WakeDue
<1>24. QED BY <1>16, <1>21, <1>22, <1>23 DEF RwInv

(* A step that leaves the queue alone and is not in the loop. *)
Quiet(t) ==
  /\ Inner(t) /\ (wait_lock = NULL \/ pc[t] \in FirstPCs)
  /\ pc'[t] \notin LoopPCs /\ pc'[t] # "schedule"
  /\ UNCHANGED <<wait_list, ungranted, taskVars>>
  /\ count' \in Int /\ undone' \in BOOLEAN /\ caller' \in Callers
  /\ tsk' \in Tasks \cup {NULL} /\ next' \in Nat /\ next' >= 1 /\ loop' \in Nat
  /\ pc'[t] \in WakerPCs /\ caller' = "read" =>
       pc'[t] \in {"readers_only", "grant_reader", "wake_task"} /\ flags[t] = "READ"
  /\ pc'[t] \in FirstPCs /\ caller' = "wait" => t \in ungranted
  /\ pc'[t] \in {"read", "downgrade_wake"} => flags[t] = "READ"
  /\ pc'[t] # "write"
  /\ pc'[t] \in FirstPCs => ~list_empty(wait_list)
  /\ pc'[t] = "grant_writer" => FrontIs("WRITE")
  /\ pc'[t] = "readers_only" => FrontIs("READ")
  /\ t \in ungranted => InWait(t)'

LEMMA QuietQueue ==
  ASSUME QueueInv, NEW t \in Tasks, Quiet(t)
  PROVE  /\ QueueInv'
         /\ Promised' = {} /\ Queued' = Queued
         /\ \A x \in Tasks : Pending(x)' <=> Pending(x)
         /\ \A x \in Tasks : Pending(x) <=> x \in ungranted
         /\ \A x \in Tasks : x # t => /\ IsActive(x)' <=> IsActive(x)
                                      /\ IsWaiter(x)' <=> IsWaiter(x)
                                      /\ Held(x)' <=> Held(x)
<1>1. /\ Inner(t) /\ TypeOK /\ flags' = flags /\ wait_list' = wait_list /\ ungranted' = ungranted
      /\ state' = state /\ sigpend' = sigpend
  BY DEF Quiet, QueueInv, taskVars, Inner
<1>2. /\ ~InLoop /\ Promised = {} /\ Entries(wait_list) = ungranted /\ NoDuplicates(wait_list)
      /\ \A x \in Tasks : Pending(x) <=> x \in ungranted
  BY NotInLoop DEF QueueInv, NoDanglingWaiter, Quiet
<1>3. /\ \A x \in Tasks : x # t => /\ pc'[x] = pc[x] /\ pc[x] \notin WakerPCs
                                   /\ pc[x] \notin FirstPCs /\ pc[x] \notin LoopPCs
      /\ ~InLoop'
  BY <1>1, InnerFrame DEF Quiet, WakerPCs, FirstPCs, LoopPCs
<1>4. TypeOK'
  <2>1. pc' \in [Tasks -> PCs] BY <1>1, InnerFrame
  <2>2. wait_lock' \in Tasks \cup {NULL} BY <1>1 DEF Inner
  <2>3. QED BY <1>1, <2>1, <2>2 DEF TypeOK, TaskTypeOK, Quiet
<1>5. OneWaker' /\ CallerOK' /\ HolderFlags' BY <1>1, InnerQueue DEF Quiet
<1>6. FrontOK'
  <2>1. \A f : FrontIs(f)' <=> FrontIs(f) BY <1>1 DEF FrontIs
  <2>2. \A u \in Tasks : pc'[u] \in FirstPCs => u = t BY <1>3
  <2>3. list_empty(wait_list)' = list_empty(wait_list) BY <1>1
  <2>4. QED BY <2>1, <2>2, <2>3 DEF FrontOK, Quiet, FirstPCs
<1>7. LoopOK'
  <2>1. \A u \in Tasks : pc'[u] \notin LoopPCs BY <1>3 DEF InLoop, LoopPCs
  <2>2. QED BY <1>3, <2>1 DEF LoopOK, LoopPCs, Quiet
<1>8. NoDanglingWaiter'
  <2>1. ASSUME NEW x \in ungranted PROVE InWait(x)'
    <3>1. x \in Tasks /\ InWait(x) BY <1>1 DEF QueueInv, NoDanglingWaiter, TypeOK
    <3>2. CASE x = t BY <3>2 DEF Quiet
    <3>3. CASE x # t BY <1>1, <3>1, <3>3, InnerFrame
    <3>4. QED BY <3>2, <3>3
  <2>2. QED BY <1>1, <1>2, <1>3, <2>1 DEF NoDanglingWaiter, Entries, NoDuplicates
<1>9. Awake'
  <2>1. pc[t] # "wake_task"
    <3>1. pc[t] = "wake_task" => InLoop BY DEF InLoop
    <3>2. QED BY <1>2, <3>1
  <2>2. QED BY <1>1, <2>1, InnerAwake DEF Quiet
<1>10. QueueInv' BY <1>4, <1>5, <1>6, <1>7, <1>8, <1>9 DEF QueueInv
<1>11. Promised' = {}
  <2>1. (~InLoop => Promised = {})' BY <1>10, PromisedFacts, PTL
  <2>2. QED BY <1>3, <2>1
<1>12. Queued' = Queued /\ \A x \in Tasks : Pending(x)' <=> Pending(x)
  BY <1>1, <1>2, <1>11 DEF Queued, Pending
<1>13. QED BY <1>1, <1>2, <1>10, <1>11, <1>12, InnerFrame

LEMMA Wake ==
  ASSUME RwInv, NEW t \in Tasks, rwsem_wake(t)
  PROVE  RwInv'
<1>1. QueueInv /\ Tally /\ Exclusive /\ WakeDue BY DEF RwInv
<1>2. TypeOK /\ LoopOK BY <1>1 DEF QueueInv
<1>3. /\ pc[t] = "wake" /\ wait_lock = NULL /\ pc' = [pc EXCEPT ![t] = pc'[t]]
      /\ \/ pc'[t] = "idle" /\ wait_lock' = NULL /\ caller' = caller /\ list_empty(wait_list)
         \/ pc'[t] = "try_again" /\ wait_lock' = t /\ caller' = "idle" /\ ~list_empty(wait_list)
      /\ count' = count /\ flags' = flags /\ undone' = undone
      /\ UNCHANGED <<wait_list, ungranted, taskVars>>
      /\ next' = next /\ loop' = loop /\ tsk' = tsk
  BY <1>2 DEF rwsem_wake, DoWake, DontWake, Goto, lockVars, wakeVars, TypeOK
<1>4. t \notin ungranted BY <1>1, <1>3 DEF QueueInv, NoDanglingWaiter, InWait, WakerPCs
<1>5. Quiet(t)
  <2>1. Inner(t) BY <1>3 DEF Inner, PCs, WakerPCs
  <2>2. QED BY <1>2, <1>3, <1>4, <2>1 DEF Quiet, TypeOK, LoopOK, Callers, LoopPCs, FirstPCs, WakerPCs
<1>6. QueueInv' /\ Promised' = {} /\ Queued' = Queued BY <1>1, <1>5, QuietQueue
<1>7. ~IsActive(t)' /\ ~IsActive(t)
  BY <1>3 DEF IsActive, LoopPCs
<1>8. ~IsWaiter(t)' /\ ~IsWaiter(t)
  BY <1>3, <1>4 DEF IsWaiter, Pending, InWait, WakerPCs
<1>9. Active' = Active /\ Waiters' = Waiters
  BY <1>1, <1>5, <1>7, <1>8, QuietQueue, ActiveAfter
<1>10. Tally' BY <1>1, <1>3, <1>9 DEF Tally, B
<1>11. Exclusive'
  <2>1. ~Held(t)' BY <1>3, <1>4 DEF Held, Granted, InWait, WakerPCs
  <2>2. \A x \in Tasks : Held(x)' => Held(x) BY <1>1, <1>5, <2>1, QuietQueue
  <2>3. \A x \in Tasks : Holds(x, "WRITE")' => Holds(x, "WRITE")
    BY <1>3, <2>2 DEF Holds, Held
  <2>4. \A u \in Tasks : pc'[u] \notin {"grant_writer", "readers_only"}
    BY <1>1, <1>3, <1>5, InnerFrame DEF WakerPCs, Quiet
  <2>5. QED BY <1>1, <1>6, <2>2, <2>3, <2>4 DEF Exclusive
<1>12. WakeDue'
  <2>1. CASE pc'[t] = "try_again" BY <2>1 DEF WakeDue
  <2>2. CASE list_empty(wait_list)
    <3>1. Entries(wait_list) = {} BY <1>2, <2>2, ListEmpty DEF TypeOK
    <3>2. Queued = {} BY <1>1, <1>3, <3>1, NotInLoop DEF Queued
    <3>3. QED BY <1>6, <3>2 DEF WakeDue
  <2>3. QED BY <1>3, <2>1, <2>2
<1>13. QED BY <1>6, <1>10, <1>11, <1>12 DEF RwInv

LEMMA DowngradeWake ==
  ASSUME RwInv, NEW t \in Tasks, rwsem_downgrade_wake(t)
  PROVE  RwInv'
<1>1. QueueInv /\ Tally /\ Exclusive /\ WakeDue BY DEF RwInv
<1>2. TypeOK /\ LoopOK BY <1>1 DEF QueueInv
<1>3. /\ pc[t] = "downgrade_wake" /\ wait_lock = NULL /\ pc' = [pc EXCEPT ![t] = pc'[t]]
      /\ \/ pc'[t] = "read" /\ wait_lock' = NULL /\ caller' = caller
         \/ /\ pc'[t] = "readers_only" /\ wait_lock' = t /\ caller' = "read"
            /\ ~list_empty(wait_list) /\ ~FrontIs("WRITE")
      /\ count' = count /\ flags' = flags /\ undone' = undone
      /\ UNCHANGED <<wait_list, ungranted, taskVars>>
      /\ next' = next /\ loop' = loop /\ tsk' = tsk
  BY <1>2 DEF rwsem_downgrade_wake, DoWake, DontWake, Goto, lockVars, wakeVars, TypeOK
<1>4. t \notin ungranted BY <1>1, <1>3 DEF QueueInv, NoDanglingWaiter, InWait, WakerPCs
<1>5. flags[t] = "READ" BY <1>1, <1>3 DEF QueueInv, HolderFlags
<1>6. ~list_empty(wait_list) /\ ~FrontIs("WRITE") => FrontIs("READ")
  <2>1. ~list_empty(wait_list) => list_first_entry(wait_list) \in Tasks
    BY <1>2, ListEmpty DEF TypeOK
  <2>2. QED BY <1>2, <2>1 DEF TypeOK, FrontIs, Flags
<1>7. Quiet(t)
  <2>1. Inner(t) BY <1>3 DEF Inner, PCs, WakerPCs
  <2>2. QED BY <1>2, <1>3, <1>4, <1>5, <1>6, <2>1
        DEF Quiet, TypeOK, LoopOK, Callers, LoopPCs, FirstPCs, WakerPCs
<1>8. QueueInv' /\ Promised' = {} /\ Queued' = Queued BY <1>1, <1>7, QuietQueue
<1>9. IsActive(t)' /\ IsActive(t) BY <1>3 DEF IsActive
<1>10. ~IsWaiter(t)' /\ ~IsWaiter(t)
  BY <1>3, <1>4, <1>5 DEF IsWaiter, Pending
<1>11. Active' = Active /\ Waiters' = Waiters /\ t \in Active
  BY <1>1, <1>7, <1>9, <1>10, QuietQueue, ActiveAfter
<1>12. Tally' BY <1>1, <1>3, <1>11 DEF Tally, B
<1>13. Exclusive'
  <2>1. Held(t) BY <1>3 DEF Held
  <2>2. \A x \in Tasks : Held(x)' => Held(x) BY <1>1, <1>7, <2>1, QuietQueue
  <2>3. \A x \in Tasks : Holds(x, "WRITE")' => Holds(x, "WRITE")
    BY <1>3, <2>2 DEF Holds, Held
  <2>4. \A u \in Tasks : pc'[u] # "grant_writer"
    BY <1>1, <1>3, <1>7, InnerFrame DEF WakerPCs, Quiet
  <2>5. \A x \in Tasks : ~Holds(x, "WRITE")
    BY <1>1, <1>5, <2>1, HoldsHeld DEF Exclusive
  <2>6. QED BY <2>3, <2>4, <2>5 DEF Exclusive
<1>14. WakeDue' BY <1>11 DEF WakeDue
<1>15. QED BY <1>8, <1>12, <1>13, <1>14 DEF RwInv

LEMMA TryAgain ==
  ASSUME RwInv, NEW t \in Tasks, try_again(t)
  PROVE  RwInv'
<1>1. QueueInv /\ Tally /\ Exclusive /\ WakeDue BY DEF RwInv
<1>2. TypeOK /\ LoopOK /\ OneWaker /\ FrontOK /\ CallerOK BY <1>1 DEF QueueInv
<1>3. /\ pc[t] = "try_again" /\ pc' = [pc EXCEPT ![t] = pc'[t]]
      /\ \/ pc'[t] = "undo"
         \/ pc'[t] = "grant_writer" /\ ActivePart(count) = 0 /\ FrontIs("WRITE")
         \/ pc'[t] = "readers_only" /\ ActivePart(count) = 0 /\ ~FrontIs("WRITE")
      /\ count' = count + 1 /\ flags' = flags /\ undone' = undone
      /\ UNCHANGED <<wait_list, ungranted, taskVars>>
      /\ next' = next /\ loop' = loop /\ tsk' = tsk /\ wait_lock' = wait_lock /\ caller' = caller
  <2>1. /\ pc[t] = "try_again" /\ pc' = [pc EXCEPT ![t] = pc'[t]]
        /\ \/ pc'[t] = "undo"
           \/ pc'[t] = "grant_writer" /\ ActivePart(count) = 0 /\ FrontIs("WRITE")
           \/ pc'[t] = "readers_only" /\ ActivePart(count) = 0 /\ ~FrontIs("WRITE")
        /\ count' = count + RWSEM_ACTIVE_BIAS /\ UNCHANGED <<flags, slowVars>>
    BY <1>2 DEF try_again, Goto, TypeOK
  <2>2. QED BY <2>1, BFacts DEF slowVars, lockVars, wakeVars
<1>4. /\ wait_lock = t /\ ~list_empty(wait_list) /\ caller # "read"
      /\ caller = "wait" => t \in ungranted
  BY <1>2, <1>3 DEF OneWaker, WakerPCs, FrontOK, FirstPCs, CallerOK
<1>5. ~FrontIs("WRITE") => FrontIs("READ")
  <2>1. list_first_entry(wait_list) \in Tasks BY <1>2, <1>4, ListEmpty DEF TypeOK
  <2>2. QED BY <1>2, <2>1 DEF TypeOK, FrontIs, Flags
<1>6. t \in ungranted => caller = "wait"
  BY <1>1, <1>3 DEF QueueInv, NoDanglingWaiter, InWait
<1>7. Quiet(t)
  <2>1. Inner(t) BY <1>3, <1>4 DEF Inner, PCs, WakerPCs
  <2>2. t \in ungranted => InWait(t)' BY <1>3, <1>6 DEF InWait, WakerPCs
  <2>3. QED BY <1>2, <1>3, <1>4, <1>5, <2>1, <2>2
        DEF Quiet, TypeOK, LoopOK, Callers, LoopPCs, FirstPCs, WakerPCs
<1>8. QueueInv' /\ Promised' = {} /\ Queued' = Queued BY <1>1, <1>7, QuietQueue
<1>9. IsActive(t)' /\ ~IsActive(t) BY <1>3 DEF IsActive, LoopPCs
<1>10. IsWaiter(t)' <=> IsWaiter(t)
  <2>1. Pending(t)' <=> Pending(t) BY <1>1, <1>7, QuietQueue
  <2>2. QED BY <1>3, <2>1 DEF IsWaiter, InWait, WakerPCs
<1>11. Active' = Active \cup {t} /\ Waiters' = Waiters /\ t \notin Active
  BY <1>1, <1>7, <1>9, <1>10, QuietQueue, ActiveAfter
<1>12. Tally'
  <2>1. Cardinality(Active') = Cardinality(Active) + 1 BY <1>11, InTasks, CardAdd
  <2>2. Cardinality(Waiters') = Cardinality(Waiters) + 0 BY <1>11, TallyFinite
  <2>3. count' = count + 1 - B * 0 BY <1>2, <1>3, BFacts DEF TypeOK
  <2>4. QED BY <1>1, <2>1, <2>2, <2>3, TallyStep
<1>13. Exclusive'
  <2>1. ~Held(t)' BY <1>3, <1>4 DEF Held, Granted, InWait, WakerPCs
  <2>2. \A x \in Tasks : Held(x)' => Held(x) BY <1>1, <1>7, <2>1, QuietQueue
  <2>3. \A x \in Tasks : Holds(x, "WRITE")' => Holds(x, "WRITE")
    BY <1>3, <2>2 DEF Holds, Held
  <2>4. \A u \in Tasks : pc'[u] \in {"grant_writer", "readers_only"} => ActivePart(count) = 0
    BY <1>1, <1>3, <1>7, InnerFrame DEF WakerPCs, Quiet
  <2>5. ActivePart(count) = 0 => \A x \in Tasks : ~Held(x) /\ ~Holds(x, "WRITE")
    <3>1. ActivePart(count) = 0 => Active = {} BY <1>1, ReadCount
    <3>2. QED BY <1>1, <3>1, Counted, HoldsHeld
  <2>6. QED BY <1>1, <1>8, <2>2, <2>3, <2>4, <2>5 DEF Exclusive
<1>14. WakeDue' BY <1>11 DEF WakeDue
<1>15. QED BY <1>8, <1>12, <1>13, <1>14 DEF RwInv

LEMMA Undo ==
  ASSUME RwInv, NEW t \in Tasks, undo(t)
  PROVE  RwInv'
<1>1. QueueInv /\ Tally /\ Exclusive /\ WakeDue BY DEF RwInv
<1>2. TypeOK /\ LoopOK /\ OneWaker /\ FrontOK /\ CallerOK BY <1>1 DEF QueueInv
<1>3. /\ pc[t] = "undo" /\ pc' = [pc EXCEPT ![t] = pc'[t]]
      /\ count' = count - 1 /\ flags' = flags /\ undone' = (undone \/ ActivePart(count') = 0)
      /\ \/ /\ pc'[t] = caller /\ wait_lock' = NULL /\ caller' = "idle"
            /\ next' = 1 /\ loop' = 0 /\ tsk' = NULL
         \/ /\ pc'[t] = "try_again" /\ count' = 0 /\ wait_lock' = wait_lock /\ caller' = caller
            /\ next' = next /\ loop' = loop /\ tsk' = tsk
      /\ UNCHANGED <<wait_list, ungranted, taskVars>>
  BY <1>2, BFacts DEF undo, Out, Goto, lockVars, wakeVars, TypeOK
<1>4. /\ wait_lock = t /\ ~list_empty(wait_list) /\ caller \in {"idle", "wait"}
      /\ caller = "wait" => t \in ungranted
  BY <1>2, <1>3 DEF OneWaker, WakerPCs, FrontOK, FirstPCs, CallerOK, TypeOK, Callers
<1>5. t \in ungranted => caller = "wait"
  BY <1>1, <1>3 DEF QueueInv, NoDanglingWaiter, InWait
<1>6. Quiet(t)
  <2>1. Inner(t) BY <1>3, <1>4 DEF Inner, PCs, WakerPCs
  <2>2. t \in ungranted => InWait(t)' BY <1>3, <1>5 DEF InWait, WakerPCs
  <2>3. QED BY <1>2, <1>3, <1>4, <2>1, <2>2
        DEF Quiet, TypeOK, LoopOK, Callers, LoopPCs, FirstPCs, WakerPCs
<1>7. QueueInv' /\ Promised' = {} /\ Queued' = Queued BY <1>1, <1>6, QuietQueue
<1>8. ~IsActive(t)' /\ IsActive(t)
  <2>1. pc'[t] = "wait" => Pending(t)'
    BY <1>1, <1>3, <1>4, <1>6, QuietQueue
  <2>2. QED BY <1>3, <1>4, <2>1 DEF IsActive, LoopPCs
<1>9. IsWaiter(t)' <=> IsWaiter(t)
  <2>1. (Pending(t)' <=> Pending(t)) /\ (Pending(t) <=> t \in ungranted) BY <1>1, <1>6, QuietQueue
  <2>2. QED BY <1>3, <1>4, <2>1 DEF IsWaiter, InWait, WakerPCs
<1>10. Active' = Active \ {t} /\ Waiters' = Waiters /\ t \in Active
  BY <1>1, <1>6, <1>8, <1>9, QuietQueue, ActiveAfter
<1>11. Tally'
  <2>1. Cardinality(Active') = Cardinality(Active) + (-1)
    <3>1. Cardinality(Active') = Cardinality(Active) - 1 BY <1>10, InTasks, CardDel
    <3>2. QED BY <3>1, TallyFinite
  <2>2. Cardinality(Waiters') = Cardinality(Waiters) + 0 BY <1>10, TallyFinite
  <2>3. count' = count + (-1) - B * 0 BY <1>2, <1>3, BFacts DEF TypeOK
  <2>4. QED BY <1>1, <2>1, <2>2, <2>3, TallyStep
<1>12. Exclusive'
  <2>1. ~Held(t)' BY <1>3, <1>4 DEF Held, Granted, InWait, WakerPCs
  <2>2. \A x \in Tasks : Held(x)' => Held(x) BY <1>1, <1>6, <2>1, QuietQueue
  <2>3. \A x \in Tasks : Holds(x, "WRITE")' => Holds(x, "WRITE")
    BY <1>3, <2>2 DEF Holds, Held
  <2>4. \A u \in Tasks : pc'[u] \notin {"grant_writer", "readers_only"}
    BY <1>1, <1>3, <1>4, <1>6, InnerFrame DEF WakerPCs, Quiet
  <2>5. QED BY <1>1, <1>7, <2>2, <2>3, <2>4 DEF Exclusive
<1>13. WakeDue'
  <2>1. (ActivePart(count) = 0 <=> Active = {})' BY <1>11, ReadCount, PTL
  <2>2. ActivePart(count)' = ActivePart(count') BY DEF ActivePart
  <2>3. QED BY <1>3, <2>1, <2>2 DEF WakeDue
<1>14. QED BY <1>7, <1>11, <1>12, <1>13 DEF RwInv

LEMMA GrantsWriter ==
  ASSUME RwInv, NEW t \in Tasks, GrantWriter(t)
  PROVE  RwInv'
<1>1. QueueInv /\ Tally /\ Exclusive /\ WakeDue BY DEF RwInv
<1> PICK w : w = list_first_entry(wait_list) OBVIOUS
<1>2. TypeOK /\ LoopOK /\ OneWaker /\ FrontOK /\ CallerOK BY <1>1 DEF QueueInv
<1>3. /\ pc[t] = "grant_writer" /\ pc' = [pc EXCEPT ![t] = "wake_task"] /\ pc'[t] = "wake_task"
      /\ tsk' = w /\ wait_list' = Tail(wait_list) /\ ungranted' = ungranted \ {w}
      /\ count' = count /\ flags' = flags /\ undone' = undone
      /\ next' = 1 /\ loop' = 0 /\ wait_lock' = wait_lock /\ caller' = caller
      /\ state' = state /\ sigpend' = sigpend
  BY <1>2 DEF GrantWriter, Goto, lockVars, taskVars, TypeOK
<1>4. /\ wait_lock = t /\ ~list_empty(wait_list) /\ FrontIs("WRITE") /\ caller \in {"idle", "wait"}
      /\ caller = "wait" => t \in ungranted
      /\ wait_list \in Seq(Tasks)
  BY <1>2, <1>3 DEF OneWaker, WakerPCs, FrontOK, FirstPCs, CallerOK, TypeOK, Callers
<1>5. /\ ~InLoop /\ Promised = {} /\ Entries(wait_list) = ungranted /\ NoDuplicates(wait_list)
      /\ \A x \in Tasks : Pending(x) <=> x \in ungranted
  BY <1>1, <1>3, NotInLoop DEF QueueInv, NoDanglingWaiter, FirstPCs
<1>6. w \in ungranted /\ w \in Tasks /\ flags[w] = "WRITE" /\ ungranted \subseteq Tasks
  BY <1>2, <1>4, <1>5, ListEmpty DEF FrontIs, TypeOK
<1>7. /\ Tail(wait_list) \in Seq(Tasks) /\ Entries(Tail(wait_list)) = ungranted \ {w}
      /\ NoDuplicates(Tail(wait_list))
  BY <1>4, <1>5, ListTail
<1>8. Inner(t) BY <1>2, <1>3, <1>4 DEF Inner, PCs, WakerPCs, TypeOK
<1>9. InLoop' /\ \A x \in Tasks : x # t => pc'[x] = pc[x] /\ pc[x] \notin WakerPCs
  BY <1>1, <1>3, <1>8, InnerFrame DEF LoopPCs
<1>10. Promised' = {}
  <2>1. 1 .. (1 + 0 - 1) = {} OBVIOUS
  <2>2. Promised' = {wait_list'[i] : i \in 1 .. (1 + 0 - 1)} BY <1>3, <1>9 DEF Promised
  <2>3. QED BY <2>1, <2>2
<1>11. \A x \in Tasks : x \in ungranted => InWait(x)
  BY <1>1 DEF QueueInv, NoDanglingWaiter
<1>12. \A x \in ungranted : InWait(x)'
  <2>1. t \in ungranted => InWait(t)' BY <1>3, <1>11 DEF InWait, WakerPCs
  <2>2. QED BY <1>1, <1>6, <1>8, <1>11, <2>1, InnerFrame
<1>13. QueueInv'
  <2>1. TypeOK'
    <3>1. pc' \in [Tasks -> PCs] BY <1>1, <1>8, InnerFrame
    <3>2. QED BY <1>2, <1>3, <1>6, <1>7, <3>1 DEF TypeOK, TaskTypeOK
  <2>2. OneWaker' /\ CallerOK' /\ HolderFlags'
    BY <1>1, <1>3, <1>4, <1>8, InnerQueue DEF FirstPCs
  <2>3. FrontOK'
    <3>1. \A u \in Tasks : pc'[u] \notin FirstPCs BY <1>3, <1>9 DEF FirstPCs, WakerPCs
    <3>2. QED BY <3>1 DEF FrontOK, FirstPCs
  <2>4. LoopOK'
    <3>1. Len(wait_list') \in Nat BY <1>3, <1>7
    <3>2. \A i \in 1 .. (1 + 0 - 1) : FALSE OBVIOUS
    <3>3. \A u \in Tasks : pc'[u] # "grant_reader" BY <1>3, <1>9 DEF WakerPCs
    <3>4. QED BY <1>3, <1>6, <3>1, <3>2, <3>3 DEF LoopOK
  <2>5. NoDanglingWaiter'
    <3>1. {wait_list'[i] : i \in 1 .. Len(wait_list')} = ungranted' BY <1>3, <1>7 DEF Entries
    <3>2. NoDuplicates(wait_list') BY <1>3, <1>7
    <3>3. \A x \in ungranted' : InWait(x)' BY <1>3, <1>12
    <3>4. QED BY <1>3, <1>9, <3>1, <3>2, <3>3 DEF NoDanglingWaiter
  <2>6. Awake' BY <1>1, <1>3, <1>8, InnerAwake
  <2>7. QED BY <2>1, <2>2, <2>3, <2>4, <2>5, <2>6 DEF QueueInv
<1>14. \A x \in Tasks : Pending(x)' <=> x \in ungranted /\ x # w BY <1>3, <1>10 DEF Pending
<1>15. \A x \in Tasks : IsActive(x)' <=> IF x = w THEN TRUE ELSE IF x = t THEN FALSE ELSE IsActive(x)
  <2>1. IsActive(w)'
    <3>1. InWait(w)' /\ ~Pending(w)' BY <1>6, <1>12, <1>14
    <3>2. CASE w = t BY <1>3, <3>1, <3>2 DEF IsActive, InWait, LoopPCs
    <3>3. CASE w # t BY <1>6, <1>9, <3>1, <3>3 DEF IsActive, InWait
    <3>4. QED BY <3>2, <3>3
  <2>2. t # w => ~IsActive(t)'
    BY <1>3, <1>4, <1>14 DEF IsActive, LoopPCs
  <2>3. \A x \in Tasks : x # w /\ x # t => (IsActive(x)' <=> IsActive(x))
    BY <1>1, <1>5, <1>8, <1>14, InnerFrame
  <2>4. QED BY <2>1, <2>2, <2>3
<1>16. Active' = (Active \ {t}) \cup {w}
  <2>1. \A x : (x \in Active' <=> x \in Tasks /\ IsActive(x)') BY DEF Active
  <2>2. \A x : (x \in Active <=> x \in Tasks /\ IsActive(x)) BY DEF Active
  <2>3. QED BY <1>6, <1>15, <2>1, <2>2
<1>17. t \in Active /\ (w # t => w \notin Active)
  <2>1. IsActive(t) BY <1>3 DEF IsActive
  <2>2. w # t => ~IsActive(w)
    <3>1. InWait(w) /\ Pending(w) BY <1>5, <1>6, <1>11
    <3>2. QED BY <1>6, <1>9, <3>1 DEF IsActive, InWait, WakerPCs, LoopPCs
  <2>3. QED BY <2>1, <2>2 DEF Active
<1>18. Waiters' = Waiters
  <2>1. IsWaiter(w)' /\ IsWaiter(w)
    BY <1>3, <1>5, <1>6, <1>12, <1>14 DEF IsWaiter
  <2>2. t # w => (IsWaiter(t)' <=> IsWaiter(t))
    <3>1. t # w => (Pending(t)' <=> Pending(t)) BY <1>5, <1>14
    <3>2. QED BY <1>3, <3>1 DEF IsWaiter, InWait, WakerPCs
  <2>3. \A x \in Tasks : x # w /\ x # t => (IsWaiter(x)' <=> IsWaiter(x))
    BY <1>1, <1>3, <1>5, <1>8, <1>14, InnerFrame
  <2>4. QED BY <2>1, <2>2, <2>3 DEF Waiters
<1>19. Tally'
  <2>1. Cardinality(Active') = Cardinality(Active)
    <3>1. CASE w = t
      <4>1. Active' = Active BY <1>16, <1>17, <3>1
      <4>2. QED BY <4>1
    <3>2. CASE w # t
      <4>1. Cardinality(Active \ {t}) = Cardinality(Active) - 1 BY <1>17, InTasks, CardDel
      <4>2. /\ Active \ {t} \in SUBSET Tasks /\ w \notin Active \ {t} BY <1>17, <3>2, InTasks
      <4>3. Cardinality(Active') = Cardinality(Active \ {t}) + 1 BY <1>6, <1>16, <4>2, CardAdd
      <4>4. QED BY <4>1, <4>3, TallyFinite
    <3>3. QED BY <3>1, <3>2
  <2>2. QED BY <1>1, <1>3, <1>18, <2>1 DEF Tally, B
<1>20. Exclusive'
  <2>1. \A x \in Tasks : ~Held(x) BY <1>1, <1>3 DEF Exclusive
  <2>2. t # w => ~Held(t)'
    BY <1>3, <1>4 DEF Held, Granted, InWait, WakerPCs
  <2>3. \A x \in Tasks : Held(x)' => x = w
    BY <1>1, <1>3, <1>8, <2>1, <2>2, InnerFrame
  <2>4. \A x \in Tasks : Holds(x, "WRITE")' => Held(x)' BY DEF Holds, Held
  <2>5. \A u \in Tasks : pc'[u] \notin {"grant_writer", "readers_only"}
    BY <1>3, <1>9 DEF WakerPCs
  <2>6. QED BY <1>10, <2>3, <2>4, <2>5 DEF Exclusive
<1>21. WakeDue' BY <1>16 DEF WakeDue
<1>22. QED BY <1>13, <1>19, <1>20, <1>21 DEF RwInv

LEMMA FrontReadersFacts ==
  ASSUME TypeOK, ~list_empty(wait_list), FrontIs("READ")
  PROVE  /\ FrontReaders \in 1 .. Len(wait_list)
         /\ \A i \in 1 .. FrontReaders : flags[wait_list[i]] = "READ"
<1> DEFINE P == {x \in Tasks : flags[x] = "READ"}
           Good(n) == /\ \A i \in 1 .. n : flags[wait_list[i]] = "READ"
                      /\ n < Len(wait_list) => flags[wait_list[n + 1]] = "WRITE"
<1>1. /\ wait_list \in Seq(Tasks) /\ flags \in [Tasks -> Flags] /\ Len(wait_list) \in Nat
      /\ \A i \in 1 .. Len(wait_list) : wait_list[i] \in Tasks
  BY DEF TypeOK
<1>2. \A i \in 1 .. Len(wait_list) : /\ wait_list[i] \in P <=> flags[wait_list[i]] = "READ"
                                     /\ wait_list[i] \notin P <=> flags[wait_list[i]] = "WRITE"
  BY <1>1 DEF Flags
<1> HIDE DEF P
<1>3. \E n \in 0 .. Len(wait_list) : Good(n)
  <2>1. PICK n : Leading(wait_list, P, n) BY <1>1, LeadingFacts
  <2>2. n \in 0 .. Len(wait_list) BY <2>1 DEF Leading
  <2>3. /\ \A i \in 1 .. n : i \in 1 .. Len(wait_list)
        /\ n < Len(wait_list) => n + 1 \in 1 .. Len(wait_list)
    BY <1>1, <2>2
  <2>4. QED BY <1>2, <2>1, <2>2, <2>3 DEF Leading
<1>4. FrontReaders = CHOOSE n \in 0 .. Len(wait_list) : Good(n) BY DEF FrontReaders
<1> HIDE DEF Good
<1>5. FrontReaders \in 0 .. Len(wait_list) /\ Good(FrontReaders) BY <1>3, <1>4
<1>6. Len(wait_list) > 0 /\ flags[wait_list[1]] = "READ"
  BY <1>1 DEF list_empty, list_first_entry, FrontIs
<1>7. FrontReaders # 0
  <2>1. Good(0) => flags[wait_list[1]] = "WRITE" BY <1>6 DEF Good
  <2>2. QED BY <1>5, <1>6, <2>1
<1>8. QED BY <1>1, <1>5, <1>7 DEF Good

LEMMA ReadersOnly ==
  ASSUME RwInv, NEW t \in Tasks, readers_only(t)
  PROVE  RwInv'
<1>1. QueueInv /\ Tally /\ Exclusive /\ WakeDue BY DEF RwInv
<1>2. TypeOK /\ LoopOK /\ OneWaker /\ FrontOK /\ CallerOK BY <1>1 DEF QueueInv
<1> PICK n : n = FrontReaders OBVIOUS
<1> PICK P : P = First(wait_list, n) OBVIOUS
<1> PICK d : d = IF caller = "read" THEN 0 ELSE 1 OBVIOUS
<1>3. /\ pc[t] = "readers_only" /\ pc' = [pc EXCEPT ![t] = "grant_reader"] /\ pc'[t] = "grant_reader"
      /\ wait_list' = wait_list /\ ungranted' = ungranted /\ tsk' = tsk
      /\ count' = count + n * (1 + B) - d /\ flags' = flags /\ undone' = undone
      /\ next' = 1 /\ loop' = n /\ wait_lock' = wait_lock /\ caller' = caller
      /\ state' = state /\ sigpend' = sigpend
  <2>1. RWSEM_ACTIVE_BIAS - RWSEM_WAITING_BIAS = 1 + B /\ RWSEM_ACTIVE_BIAS = 1 BY BFacts
  <2>2. QED BY <1>2, <2>1 DEF readers_only, Goto, lockVars, taskVars, TypeOK
<1>4. /\ wait_lock = t /\ ~list_empty(wait_list) /\ FrontIs("READ") /\ caller \in Callers
      /\ caller = "wait" => t \in ungranted
      /\ caller = "read" => flags[t] = "READ"
      /\ wait_list \in Seq(Tasks) /\ Len(wait_list) \in Nat
  BY <1>2, <1>3 DEF OneWaker, WakerPCs, FrontOK, FirstPCs, CallerOK, TypeOK
<1>5. /\ ~InLoop /\ Promised = {} /\ Entries(wait_list) = ungranted /\ NoDuplicates(wait_list)
      /\ \A x \in Tasks : Pending(x) <=> x \in ungranted
  BY <1>1, <1>3, NotInLoop DEF QueueInv, NoDanglingWaiter, FirstPCs
<1>6. n \in 1 .. Len(wait_list) /\ \A i \in 1 .. n : flags[wait_list[i]] = "READ"
  BY <1>2, <1>4, FrontReadersFacts
<1>7. /\ P \subseteq ungranted /\ ungranted \subseteq Tasks /\ P # {}
      /\ \A x \in P : flags[x] = "READ"
      /\ IsFiniteSet(P) /\ Cardinality(P) = n
  <2>1. n \in 0 .. Len(wait_list) /\ 1 \in 1 .. n BY <1>4, <1>6
  <2>2. P \subseteq ungranted BY <1>4, <1>5, <2>1, DropEntries
  <2>3. P # {} /\ \A x \in P : flags[x] = "READ" BY <1>6, <2>1 DEF First
  <2>4. IsFiniteSet(P) /\ Cardinality(P) = n BY <1>4, <1>5, <2>1, FirstCount
  <2>5. QED BY <1>2, <2>2, <2>3, <2>4 DEF TypeOK
<1>8. Inner(t) BY <1>2, <1>3, <1>4 DEF Inner, PCs, WakerPCs, TypeOK
<1>9. InLoop' /\ \A x \in Tasks : x # t => pc'[x] = pc[x] /\ pc[x] \notin WakerPCs
  BY <1>1, <1>3, <1>8, InnerFrame DEF LoopPCs
<1>10. Promised' = P
  <2>1. 1 + n - 1 = n BY <1>6
  <2>2. QED BY <1>3, <1>9, <2>1 DEF Promised, First
<1>11. \A x \in Tasks : x \in ungranted => InWait(x)
  BY <1>1 DEF QueueInv, NoDanglingWaiter
<1>12. \A x \in ungranted : InWait(x)'
  <2>1. t \in ungranted => InWait(t)' BY <1>3, <1>11 DEF InWait, WakerPCs
  <2>2. QED BY <1>1, <1>7, <1>8, <1>11, <2>1, InnerFrame
<1>13. QueueInv'
  <2>1. TypeOK'
    <3>1. pc' \in [Tasks -> PCs] BY <1>1, <1>8, InnerFrame
    <3>2. count' \in Int
      <4>1. count \in Int /\ n \in Int /\ B \in Int /\ d \in Int BY <1>2, <1>6, BFacts DEF TypeOK
      <4>2. n * (1 + B) \in Int BY <4>1
      <4>3. QED BY <1>3, <4>1, <4>2
    <3>3. QED BY <1>2, <1>3, <1>6, <3>1, <3>2 DEF TypeOK, TaskTypeOK
  <2>2. OneWaker' /\ CallerOK' /\ HolderFlags'
    BY <1>1, <1>3, <1>4, <1>8, InnerQueue DEF FirstPCs
  <2>3. FrontOK'
    <3>1. \A u \in Tasks : pc'[u] \notin FirstPCs BY <1>3, <1>9 DEF FirstPCs, WakerPCs
    <3>2. QED BY <3>1 DEF FrontOK, FirstPCs
  <2>4. LoopOK'
    <3>1. n > 0 /\ 1 + n - 1 = n /\ 1 <= Len(wait_list) + 1 BY <1>4, <1>6
    <3>2. \A u \in Tasks : pc'[u] # "wake_task" BY <1>3, <1>9 DEF WakerPCs
    <3>3. QED BY <1>3, <1>6, <3>1, <3>2 DEF LoopOK
  <2>5. NoDanglingWaiter'
    <3>1. {wait_list[i] : i \in 1 .. Len(wait_list)} = ungranted BY <1>5 DEF Entries
    <3>2. 1 + n - 1 <= Len(wait_list) BY <1>6
    <3>3. QED BY <1>3, <1>5, <1>9, <1>12, <3>1, <3>2 DEF NoDanglingWaiter
  <2>6. Awake' BY <1>1, <1>3, <1>8, InnerAwake
  <2>7. QED BY <2>1, <2>2, <2>3, <2>4, <2>5, <2>6 DEF QueueInv
<1>14. \A x \in Tasks : Pending(x)' <=> x \in ungranted /\ x \notin P BY <1>3, <1>10 DEF Pending
<1>15. \A x \in Tasks : x \in P => IsActive(x)' /\ IsWaiter(x) /\ ~IsWaiter(x)' /\ (x # t => ~IsActive(x))
  <2> SUFFICES ASSUME NEW x \in P
               PROVE  IsActive(x)' /\ IsWaiter(x) /\ ~IsWaiter(x)' /\ (x # t => ~IsActive(x))
    OBVIOUS
  <2>1. /\ x \in Tasks /\ x \in ungranted /\ InWait(x) /\ InWait(x)' /\ Pending(x) /\ ~Pending(x)'
        /\ flags[x] = "READ"
    BY <1>5, <1>7, <1>11, <1>12, <1>14
  <2>2. IsWaiter(x) /\ ~IsWaiter(x)' BY <1>3, <2>1 DEF IsWaiter
  <2>3. CASE x = t BY <1>3, <2>1, <2>2, <2>3 DEF IsActive, InWait, LoopPCs
  <2>4. CASE x # t BY <1>9, <2>1, <2>2, <2>4 DEF IsActive, InWait, WakerPCs, LoopPCs
  <2>5. QED BY <2>3, <2>4
<1>16. \A x \in Tasks : x \notin P /\ x # t =>
         (IsActive(x)' <=> IsActive(x)) /\ (IsWaiter(x)' <=> IsWaiter(x))
  <2>1. \A x \in Tasks : x \notin P => (Pending(x)' <=> Pending(x)) BY <1>5, <1>14
  <2>2. QED BY <1>1, <1>3, <1>8, <2>1, InnerFrame
<1>17. /\ IsActive(t)
       /\ t \notin P => (IsActive(t)' <=> caller = "read") /\ (IsWaiter(t)' <=> IsWaiter(t))
       /\ caller = "read" => t \notin P
  <2>1. IsActive(t) BY <1>3 DEF IsActive
  <2>2. t \notin P => (Pending(t)' <=> Pending(t)) BY <1>5, <1>14
  <2>3. t \notin P => (IsActive(t)' <=> caller = "read")
    <3>1. t \notin P /\ caller = "wait" => Pending(t)' BY <1>4, <1>14
    <3>2. QED BY <1>3, <1>4, <3>1 DEF IsActive, LoopPCs
  <2>4. t \notin P => (IsWaiter(t)' <=> IsWaiter(t))
    BY <1>3, <2>2 DEF IsWaiter, InWait, WakerPCs
  <2>5. caller = "read" => t \notin P
    <3>1. t \in P => InWait(t) BY <1>7, <1>11
    <3>2. QED BY <1>3, <3>1 DEF InWait
  <2>6. QED BY <2>1, <2>3, <2>4, <2>5
<1> PICK A0 : A0 = IF caller = "read" THEN Active ELSE Active \ {t} OBVIOUS
<1>18. /\ Active' = A0 \cup P /\ A0 \cap P = {} /\ Waiters' = Waiters \ P /\ P \subseteq Waiters
       /\ t \in Active
  <2>1. \A x : (x \in Active' <=> x \in Tasks /\ IsActive(x)') BY DEF Active
  <2>2. \A x : (x \in Active <=> x \in Tasks /\ IsActive(x)) BY DEF Active
  <2>3. \A x : (x \in Waiters' <=> x \in Tasks /\ IsWaiter(x)') BY DEF Waiters
  <2>4. \A x : (x \in Waiters <=> x \in Tasks /\ IsWaiter(x)) BY DEF Waiters
  <2>5. \A x : x \in P => x \in Tasks BY <1>7
  <2>6. CASE caller = "read"
    <3>1. A0 = Active BY <2>6
    <3>2. QED BY <1>15, <1>16, <1>17, <2>1, <2>2, <2>3, <2>4, <2>5, <2>6, <3>1
  <2>7. CASE caller # "read"
    <3>1. A0 = Active \ {t} BY <2>7
    <3>2. QED BY <1>15, <1>16, <1>17, <2>1, <2>2, <2>3, <2>4, <2>5, <2>7, <3>1
  <2>8. QED BY <2>6, <2>7
<1>19. Tally'
  <2>1. n \in Nat /\ d \in {0, 1} /\ B \in Nat BY <1>6, BFacts
  <2>2. IsFiniteSet(A0) /\ Cardinality(A0) = Cardinality(Active) - d /\ Cardinality(A0) \in Nat
    <3>1. A0 \in SUBSET Tasks BY InTasks
    <3>2. IsFiniteSet(A0) BY <3>1, RwSemAssumption, FS_Subset
    <3>3. CASE caller = "read" BY <3>2, <3>3, TallyFinite, FS_CardinalityType
    <3>4. CASE caller # "read"
      <4>1. A0 = Active \ {t} /\ d = 1 BY <3>4
      <4>2. QED BY <1>18, <3>2, <4>1, InTasks, CardDel, FS_CardinalityType
    <3>5. QED BY <3>3, <3>4
  <2>3. Cardinality(Active') = Cardinality(Active) + (n - d)
    <3>1. Cardinality(A0 \cup P) = Cardinality(A0) + Cardinality(P) - Cardinality(A0 \cap P)
      BY <1>7, <2>2, FS_Union
    <3>2. Cardinality(A0 \cap P) = 0 BY <1>18, FS_EmptySet
    <3>3. QED BY <1>7, <1>18, <2>1, <2>2, <3>1, <3>2, TallyFinite
  <2>4. Cardinality(Waiters') = Cardinality(Waiters) + (-n)
    <3>1. Waiters \cap P = P BY <1>18
    <3>2. Cardinality(Waiters \ P) = Cardinality(Waiters) - Cardinality(Waiters \cap P)
      BY TallyFinite, FS_Difference
    <3>3. QED BY <1>7, <1>18, <2>1, <3>1, <3>2, TallyFinite
  <2>5. count' = count + (n - d) - B * (-n)
    <3>1. n * (1 + B) = n - B * (-n) BY <2>1
    <3>2. B * (-n) \in Int BY <2>1
    <3>3. count \in Int BY <1>2 DEF TypeOK
    <3>4. QED BY <1>3, <2>1, <3>1, <3>2, <3>3
  <2>6. PICK da, dw : da = n - d /\ dw = -n OBVIOUS
  <2>7. da \in Int /\ dw \in Int BY <2>1, <2>6
  <2>8. QED BY <1>1, <2>3, <2>4, <2>5, <2>6, <2>7, TallyStep
<1>20. Exclusive'
  <2>1. t \in ungranted => caller # "read"
    BY <1>3, <1>11 DEF InWait
  <2>2. Held(t)' => Held(t)
    BY <1>3, <1>4, <2>1 DEF Held, Granted, InWait, WakerPCs
  <2>3. \A x \in Tasks : Held(x)' => Held(x) BY <1>1, <1>3, <1>8, <2>2, InnerFrame
  <2>4. \A x \in Tasks : Holds(x, "WRITE")' => Holds(x, "WRITE")
    BY <1>3, <2>3 DEF Holds, Held
  <2>5. \A u \in Tasks : pc'[u] \notin {"grant_writer", "readers_only"}
    BY <1>3, <1>9 DEF WakerPCs
  <2>6. \A x \in Tasks : ~Holds(x, "WRITE") BY <1>1, <1>3 DEF Exclusive
  <2>7. QED BY <2>4, <2>5, <2>6 DEF Exclusive
<1>21. WakeDue' BY <1>7, <1>18 DEF WakeDue
<1>22. QED BY <1>13, <1>19, <1>20, <1>21 DEF RwInv

LEMMA GrantsReader ==
  ASSUME RwInv, NEW t \in Tasks, GrantReader(t)
  PROVE  RwInv'
<1>1. QueueInv /\ Tally /\ Exclusive /\ WakeDue BY DEF RwInv
<1>2. TypeOK /\ LoopOK /\ OneWaker /\ NoDanglingWaiter /\ CallerOK BY <1>1 DEF QueueInv
<1> PICK r : r = wait_list[next] OBVIOUS
<1>3. /\ pc[t] = "grant_reader" /\ pc' = [pc EXCEPT ![t] = "wake_task"] /\ pc'[t] = "wake_task"
      /\ wait_list' = wait_list /\ ungranted' = ungranted \ {r} /\ tsk' = r
      /\ count' = count /\ flags' = flags /\ undone' = undone
      /\ next' = next + 1 /\ loop' = loop - 1 /\ wait_lock' = wait_lock /\ caller' = caller
      /\ state' = state /\ sigpend' = sigpend
  BY <1>2 DEF GrantReader, Goto, lockVars, taskVars, TypeOK
<1>4. /\ wait_lock = t /\ InLoop /\ loop > 0 /\ next \in Nat /\ loop \in Nat /\ next >= 1
      /\ caller = "read" => flags[t] = "READ"
      /\ wait_list \in Seq(Tasks) /\ Len(wait_list) \in Nat /\ ungranted \subseteq Tasks
  BY <1>2, <1>3 DEF OneWaker, WakerPCs, LoopOK, CallerOK, TypeOK, InLoop
<1>5. /\ {wait_list[i] : i \in next .. Len(wait_list)} = ungranted /\ NoDuplicates(wait_list)
      /\ \A x \in ungranted : InWait(x)
      /\ next + loop - 1 <= Len(wait_list)
      /\ \A i \in next .. next + loop - 1 : flags[wait_list[i]] = "READ"
  BY <1>2, <1>4 DEF NoDanglingWaiter, LoopOK
<1>6. /\ next \in next .. next + loop - 1 /\ next \in next .. Len(wait_list)
      /\ next \in 1 .. Len(wait_list)
  BY <1>4, <1>5
<1>7. r \in Promised /\ r \in ungranted /\ r \in Tasks /\ flags[r] = "READ"
  BY <1>4, <1>5, <1>6 DEF Promised
<1>8. /\ \A i \in 1 .. Len(wait_list) : wait_list[i] = r => i = next
      /\ \A i \in next .. Len(wait_list) : i \in 1 .. Len(wait_list)
      /\ \A i : i \in next + 1 .. Len(wait_list) <=> i \in next .. Len(wait_list) /\ i # next
      /\ \A i : i \in next + 1 .. next + loop - 1 <=> i \in next .. next + loop - 1 /\ i # next
      /\ \A i \in next .. next + loop - 1 : i \in 1 .. Len(wait_list)
  BY <1>4, <1>5, <1>6 DEF NoDuplicates
<1>9. Inner(t) BY <1>2, <1>3, <1>4 DEF Inner, PCs, WakerPCs, TypeOK
<1>10. InLoop' /\ \A x \in Tasks : x # t => pc'[x] = pc[x] /\ pc[x] \notin WakerPCs
  BY <1>1, <1>3, <1>9, InnerFrame DEF LoopPCs
<1>11. (next + 1) + (loop - 1) - 1 = next + loop - 1 BY <1>4
<1>12. Promised' = Promised \ {r}
  <2>1. Promised' = {wait_list[i] : i \in next + 1 .. next + loop - 1}
    BY <1>3, <1>10, <1>11 DEF Promised
  <2>2. Promised = {wait_list[i] : i \in next .. next + loop - 1} BY <1>4 DEF Promised
  <2>3. QED BY <1>8, <2>1, <2>2
<1>13. {wait_list[i] : i \in next + 1 .. Len(wait_list)} = ungranted \ {r} BY <1>5, <1>8
<1>14. \A x \in ungranted : InWait(x)'
  <2>1. t \in ungranted => InWait(t)' BY <1>3, <1>5 DEF InWait, WakerPCs
  <2>2. QED BY <1>1, <1>4, <1>5, <1>9, <2>1, InnerFrame
<1>15. QueueInv'
  <2>1. TypeOK'
    <3>1. pc' \in [Tasks -> PCs] BY <1>1, <1>9, InnerFrame
    <3>2. next + 1 \in Nat /\ loop - 1 \in Nat BY <1>4
    <3>3. QED BY <1>2, <1>3, <1>7, <3>1, <3>2 DEF TypeOK, TaskTypeOK
  <2>2. OneWaker' /\ CallerOK' /\ HolderFlags'
    BY <1>1, <1>3, <1>4, <1>9, InnerQueue DEF FirstPCs
  <2>3. FrontOK'
    <3>1. \A u \in Tasks : pc'[u] \notin FirstPCs BY <1>3, <1>10 DEF FirstPCs, WakerPCs
    <3>2. QED BY <3>1 DEF FrontOK, FirstPCs
  <2>4. LoopOK'
    <3>1. next + 1 >= 1 /\ next + 1 <= Len(wait_list) + 1 BY <1>4, <1>6
    <3>2. \A i \in next + 1 .. next + loop - 1 : flags[wait_list[i]] = "READ" BY <1>5, <1>8
    <3>3. \A u \in Tasks : pc'[u] # "grant_reader" BY <1>3, <1>10 DEF WakerPCs
    <3>4. QED BY <1>3, <1>7, <1>11, <3>1, <3>2, <3>3 DEF LoopOK
  <2>5. NoDanglingWaiter' BY <1>3, <1>5, <1>10, <1>11, <1>13, <1>14 DEF NoDanglingWaiter
  <2>6. Awake' BY <1>1, <1>3, <1>9, InnerAwake
  <2>7. QED BY <2>1, <2>2, <2>3, <2>4, <2>5, <2>6 DEF QueueInv
<1>16. \A x \in Tasks : Pending(x)' <=> Pending(x) BY <1>3, <1>7, <1>12 DEF Pending
<1>17. ~Pending(r) BY <1>7 DEF Pending
<1>18. \A x \in Tasks : IsActive(x)' <=> IsActive(x)
  <2>1. IsActive(t)' <=> IsActive(t) BY <1>3, <1>16 DEF IsActive, LoopPCs
  <2>2. QED BY <1>1, <1>9, <1>16, <2>1, InnerFrame
<1>19. \A x \in Tasks : IsWaiter(x)' <=> IsWaiter(x)
  <2>1. ~IsWaiter(r)' /\ ~IsWaiter(r) BY <1>3, <1>7, <1>16, <1>17 DEF IsWaiter
  <2>2. t # r => (IsWaiter(t)' <=> IsWaiter(t))
    BY <1>3, <1>16 DEF IsWaiter, InWait, WakerPCs
  <2>3. \A x \in Tasks : x # r /\ x # t => (IsWaiter(x)' <=> IsWaiter(x))
    BY <1>1, <1>3, <1>9, <1>16, InnerFrame
  <2>4. QED BY <2>1, <2>2, <2>3
<1>20. Active' = Active /\ Waiters' = Waiters BY <1>18, <1>19 DEF Active, Waiters
<1>21. Tally' BY <1>1, <1>3, <1>20 DEF Tally, B
<1>22. Exclusive'
  <2>1. \A x \in Tasks : ~Holds(x, "WRITE") BY <1>1, <1>7 DEF Exclusive
  <2>2. t # r => (Held(t)' => Held(t))
    BY <1>3 DEF Held, Granted, InWait, WakerPCs
  <2>3. \A x \in Tasks : x # r => (Held(x)' => Held(x))
    BY <1>1, <1>3, <1>9, <2>2, InnerFrame
  <2>4. \A x \in Tasks : Holds(x, "WRITE")' <=> flags[x] = "WRITE" /\ Held(x)'
    BY <1>3 DEF Holds, Held
  <2>5. \A x \in Tasks : ~Holds(x, "WRITE")' BY <1>7, <2>1, <2>3, <2>4, HoldsHeld
  <2>6. \A u \in Tasks : pc'[u] \notin {"grant_writer", "readers_only"}
    BY <1>3, <1>10 DEF WakerPCs
  <2>7. QED BY <2>5, <2>6 DEF Exclusive
<1>23. WakeDue'
  <2>1. r \in Active BY <1>1, <1>7, Counted
  <2>2. QED BY <1>20, <2>1 DEF WakeDue
<1>24. QED BY <1>15, <1>21, <1>22, <1>23 DEF RwInv

LEMMA WakesTask ==
  ASSUME RwInv, NEW t \in Tasks, WakeTask(t)
  PROVE  RwInv'
<1>1. QueueInv /\ Tally /\ Exclusive /\ WakeDue BY DEF RwInv
<1>2. TypeOK /\ LoopOK /\ OneWaker /\ NoDanglingWaiter /\ CallerOK BY <1>1 DEF QueueInv
<1>3. /\ pc[t] = "wake_task" /\ pc' = [pc EXCEPT ![t] = pc'[t]]
      /\ state' = [state EXCEPT ![tsk] = "RUNNING"] /\ sigpend' = sigpend
      /\ ungranted' = ungranted /\ count' = count /\ flags' = flags /\ undone' = undone
      /\ \/ /\ loop > 0 /\ pc'[t] = "grant_reader" /\ wait_list' = wait_list
            /\ next' = next /\ loop' = loop /\ tsk' = tsk /\ wait_lock' = wait_lock /\ caller' = caller
         \/ /\ ~(loop > 0) /\ pc'[t] = caller /\ wait_list' = SubSeq(wait_list, next, Len(wait_list))
            /\ next' = 1 /\ loop' = 0 /\ tsk' = NULL /\ wait_lock' = NULL /\ caller' = "idle"
  BY <1>2 DEF WakeTask, wake_up_process, Out, Goto, lockVars, wakeVars, TypeOK
<1>4. /\ wait_lock = t /\ InLoop /\ next \in Nat /\ loop \in Nat /\ next >= 1
      /\ caller \in Callers /\ (caller = "read" => flags[t] = "READ")
      /\ wait_list \in Seq(Tasks) /\ Len(wait_list) \in Nat /\ ungranted \subseteq Tasks
      /\ tsk \in Tasks /\ next <= Len(wait_list) + 1
  BY <1>2, <1>3 DEF OneWaker, WakerPCs, LoopOK, CallerOK, TypeOK, InLoop
<1>5. /\ {wait_list[i] : i \in next .. Len(wait_list)} = ungranted /\ NoDuplicates(wait_list)
      /\ \A x \in ungranted : InWait(x)
  BY <1>2, <1>4 DEF NoDanglingWaiter
<1>6. Inner(t) BY <1>2, <1>3, <1>4 DEF Inner, PCs, WakerPCs, TypeOK, Callers
<1>7. /\ \A x \in Tasks : x # t => pc'[x] = pc[x] /\ pc[x] \notin WakerPCs
      /\ InLoop' <=> pc'[t] \in LoopPCs
  BY <1>1, <1>6, InnerFrame
<1>8. InLoop' <=> loop > 0 BY <1>3, <1>4, <1>7 DEF LoopPCs, Callers
<1>9. \A x \in ungranted : InWait(x)'
  <2>1. t \in ungranted => InWait(t)' BY <1>3, <1>5 DEF InWait, WakerPCs
  <2>2. QED BY <1>1, <1>4, <1>5, <1>6, <2>1, InnerFrame
<1>10. ~(loop > 0) => /\ wait_list' \in Seq(Tasks) /\ NoDuplicates(wait_list')
                      /\ Entries(wait_list') = ungranted
  <2> DEFINE n == next - 1
  <2>1. n \in 0 .. Len(wait_list) /\ n + 1 = next BY <1>4
  <2> HIDE DEF n
  <2>2. /\ Drop(wait_list, n) \in Seq(Tasks) /\ NoDuplicates(Drop(wait_list, n))
        /\ Entries(Drop(wait_list, n)) = Entries(wait_list) \ First(wait_list, n)
    BY <1>4, <1>5, <2>1, DropSeq, DropEntries
  <2>3. Entries(wait_list) \ First(wait_list, n) = {wait_list[i] : i \in next .. Len(wait_list)}
    <3>1. \A i \in 1 .. Len(wait_list) : i \in 1 .. n \/ i \in next .. Len(wait_list)
      BY <1>4, <2>1
    <3>2. \A i \in next .. Len(wait_list) : i \in 1 .. Len(wait_list) /\ i \notin 1 .. n
      BY <1>4, <2>1
    <3>3. \A i \in 1 .. n : i \in 1 .. Len(wait_list) BY <1>4, <2>1
    <3>4. QED BY <1>5, <3>1, <3>2, <3>3 DEF Entries, First, NoDuplicates
  <2>4. Drop(wait_list, n) = SubSeq(wait_list, next, Len(wait_list)) BY <2>1 DEF Drop
  <2>5. QED BY <1>3, <1>5, <2>2, <2>3, <2>4
<1>11. QueueInv'
  <2>1. TypeOK'
    <3>1. pc' \in [Tasks -> PCs] BY <1>1, <1>6, InnerFrame
    <3>2. TaskTypeOK' BY <1>2, <1>3, <1>4 DEF TypeOK, TaskTypeOK, TaskStates
    <3>3. QED BY <1>2, <1>3, <1>4, <1>10, <3>1, <3>2 DEF TypeOK, Callers
  <2>2. OneWaker' /\ CallerOK' /\ HolderFlags'
    BY <1>1, <1>3, <1>4, <1>6, InnerQueue DEF FirstPCs, WakerPCs, Callers
  <2>3. FrontOK'
    <3>1. \A u \in Tasks : pc'[u] \notin FirstPCs
      BY <1>3, <1>4, <1>7 DEF FirstPCs, WakerPCs, Callers
    <3>2. QED BY <3>1 DEF FrontOK, FirstPCs
  <2>4. LoopOK'
    <3>1. \A u \in Tasks : pc'[u] # "wake_task" BY <1>3, <1>4, <1>7 DEF WakerPCs, Callers
    <3>2. CASE loop > 0 BY <1>2, <1>3, <1>4, <3>1, <3>2 DEF LoopOK
    <3>3. CASE ~(loop > 0)
      <4>1. ~InLoop' BY <1>8, <3>3
      <4>2. \A u \in Tasks : pc'[u] # "grant_reader" BY <4>1 DEF InLoop
      <4>3. next' >= 1 BY <1>3, <3>3
      <4>4. QED BY <3>1, <4>1, <4>2, <4>3 DEF LoopOK
    <3>4. QED BY <3>2, <3>3
  <2>5. NoDanglingWaiter'
    <3>1. CASE loop > 0
      BY <1>2, <1>3, <1>4, <1>5, <1>8, <1>9, <3>1 DEF NoDanglingWaiter
    <3>2. CASE ~(loop > 0)
      BY <1>3, <1>8, <1>9, <1>10, <3>2 DEF NoDanglingWaiter, Entries
    <3>3. QED BY <3>1, <3>2
  <2>6. Awake'
    <3> SUFFICES ASSUME NEW x \in Tasks, pc'[x] = "schedule", x \notin ungranted
                 PROVE  schedule_returns(x)'
      BY <1>3 DEF Awake
    <3>1. x # t BY <1>3, <1>4 DEF Callers
    <3>2. pc[x] = "schedule" BY <1>7, <3>1
    <3>3. state \in [Tasks -> TaskStates] BY <1>2 DEF TypeOK, TaskTypeOK
    <3>4. CASE x = tsk BY <1>3, <3>3, <3>4 DEF schedule_returns
    <3>5. CASE x # tsk
      <4>1. schedule_returns(x) BY <1>1, <3>2, <3>5 DEF QueueInv, Awake
      <4>2. state'[x] = state[x] BY <1>3, <3>3, <3>5
      <4>3. QED BY <1>3, <4>1, <4>2 DEF schedule_returns, signal_pending_state
    <3>6. QED BY <3>4, <3>5
  <2>7. QED BY <2>1, <2>2, <2>3, <2>4, <2>5, <2>6 DEF QueueInv
<1>12. Promised' = Promised
  <2>1. CASE loop > 0 BY <1>3, <1>4, <1>8, <2>1 DEF Promised
  <2>2. CASE ~(loop > 0)
    <3>1. next .. next + loop - 1 = {} BY <1>4, <2>2
    <3>2. Promised = {} BY <1>4, <3>1 DEF Promised
    <3>3. (~InLoop => Promised = {})' BY <1>11, PromisedFacts, PTL
    <3>4. QED BY <1>8, <2>2, <3>2, <3>3
  <2>3. QED BY <2>1, <2>2
<1>13. Queued' = Queued /\ \A x \in Tasks : Pending(x)' <=> Pending(x)
  BY <1>3, <1>12 DEF Pending, Queued
<1>14. (IsActive(t)' <=> IsActive(t)) /\ (IsWaiter(t)' <=> IsWaiter(t)) /\ (Held(t)' <=> Held(t))
  BY <1>3, <1>4, <1>13 DEF IsActive, IsWaiter, Held, Granted, InWait, WakerPCs, LoopPCs, Callers
<1>15. \A x \in Tasks : /\ IsActive(x)' <=> IsActive(x)
                        /\ IsWaiter(x)' <=> IsWaiter(x)
                        /\ Held(x)' <=> Held(x)
  BY <1>1, <1>3, <1>6, <1>13, <1>14, InnerFrame
<1>16. Active' = Active /\ Waiters' = Waiters BY <1>15 DEF Active, Waiters
<1>17. Tally' BY <1>1, <1>3, <1>16 DEF Tally, B
<1>18. Exclusive'
  <2>1. \A x \in Tasks : Holds(x, "WRITE")' <=> Holds(x, "WRITE")
    BY <1>3, <1>15 DEF Holds, Held
  <2>2. \A u \in Tasks : pc'[u] \notin {"grant_writer", "readers_only"}
    BY <1>3, <1>4, <1>7 DEF WakerPCs, Callers
  <2>3. QED BY <1>1, <1>12, <1>15, <2>1, <2>2 DEF Exclusive
<1>19. WakeDue'
  <2>1. \A u \in Tasks : pc[u] \in {"wake", "try_again"} => pc'[u] = pc[u] BY <1>3, <1>7
  <2>2. QED BY <1>1, <1>3, <1>13, <1>16, <2>1 DEF WakeDue
<1>20. QED BY <1>11, <1>17, <1>18, <1>19 DEF RwInv
-------------------------------------------------------------------------------
LEMMA RwInit == ASSUME Init PROVE RwInv
<1>1. /\ count = 0 /\ wait_lock = NULL /\ wait_list = << >> /\ flags = [t \in Tasks |-> "READ"]
      /\ ungranted = {} /\ pc = [t \in Tasks |-> "idle"] /\ caller = "idle"
      /\ next = 1 /\ loop = 0 /\ tsk = NULL /\ undone = FALSE
      /\ state = [t \in Tasks |-> "RUNNING"] /\ sigpend = [t \in Tasks |-> "none"]
  BY DEF Init, __init_rwsem, RWSEM_UNLOCKED_VALUE, TaskInit
<1>2. \A t \in Tasks : pc[t] = "idle" BY <1>1
<1>3. ~InLoop BY <1>2 DEF InLoop
<1>4. wait_list \in Seq(Tasks) /\ Len(wait_list) = 0 /\ 1 .. 0 = {} BY <1>1
<1>5. Promised = {} BY <1>1, <1>3, <1>4 DEF Promised
<1>6. TypeOK
  <2>1. TaskTypeOK BY <1>1 DEF TaskTypeOK, TaskStates, Signals
  <2>2. flags \in [Tasks -> Flags] /\ pc \in [Tasks -> PCs] BY <1>1 DEF Flags, PCs
  <2>3. next \in Nat /\ loop \in Nat /\ count \in Int BY <1>1
  <2>4. caller \in Callers /\ undone \in BOOLEAN BY <1>1 DEF Callers
  <2>5. ungranted \in SUBSET Tasks /\ wait_lock \in Tasks \cup {NULL} /\ tsk \in Tasks \cup {NULL}
    BY <1>1
  <2>6. QED BY <1>4, <2>1, <2>2, <2>3, <2>4, <2>5 DEF TypeOK
<1>7. OneWaker BY <1>1, <1>2, RwSemAssumption DEF OneWaker, WakerPCs
<1>8. CallerOK /\ FrontOK /\ HolderFlags /\ Awake
  BY <1>2 DEF CallerOK, FrontOK, HolderFlags, Awake, WakerPCs, FirstPCs
<1>9. LoopOK BY <1>1, <1>2, <1>3 DEF LoopOK
<1>10. NoDanglingWaiter BY <1>1, <1>3, <1>4 DEF NoDanglingWaiter, NoDuplicates
<1>11. \A x \in Tasks : ~IsActive(x) /\ ~IsWaiter(x) /\ ~Held(x)
  BY <1>1, <1>2 DEF IsActive, IsWaiter, Held, Granted, InWait, Pending, WakerPCs, LoopPCs
<1>12. Active = {} /\ Waiters = {} BY <1>11 DEF Active, Waiters
<1>13. Tally
  <2>1. Cardinality(Active) = 0 /\ Cardinality(Waiters) = 0 BY <1>12, FS_EmptySet
  <2>2. QED BY <1>1, <2>1, BFacts DEF Tally
<1>14. Exclusive BY <1>11, <1>2, HoldsHeld DEF Exclusive
<1>15. WakeDue BY <1>1 DEF WakeDue, Queued
<1>16. QED BY <1>6, <1>7, <1>8, <1>9, <1>10, <1>13, <1>14, <1>15 DEF RwInv, QueueInv

LEMMA RwStep == ASSUME RwInv, [Next]_vars PROVE RwInv'
<1>1. ASSUME NEW t \in Tasks, Call(t) PROVE RwInv'
  BY <1>1, DownRead, DownWrite DEF Call
<1>2. ASSUME NEW t \in Tasks, Step(t) PROVE RwInv'
  BY <1>2, UpRead, UpWrite, FailedCommon, Wake, DowngradeWake, TryAgain, Undo, GrantsWriter,
     ReadersOnly, GrantsReader, WakesTask, Waits DEF Step
<1>3. CASE UNCHANGED vars
  <2>1. /\ UNCHANGED <<count, flags, wait_list, ungranted, pc, undone, lockVars, wakeVars>>
        /\ state' = state /\ sigpend' = sigpend
    BY <1>3 DEF vars, taskVars
  <2>2. TaskTypeOK' BY <2>1 DEF RwInv, QueueInv, TypeOK, TaskTypeOK
  <2>3. \A x \in Tasks : schedule_returns(x) => schedule_returns(x)'
    BY <2>1 DEF schedule_returns, signal_pending_state
  <2>4. QED BY <2>1, <2>2, <2>3, StateOnly
<1>4. QED BY <1>1, <1>2, <1>3, DowngradeWrite, Strays DEF Next

(* What holds in every state of the semaphore; the theorems below follow   *)
(* from it.                                                                *)
THEOREM RwSemInvariant == Spec => []RwInv
<1>1. Init => RwInv BY RwInit
<1>2. RwInv /\ [Next]_vars => RwInv' BY RwStep
<1>3. QED BY <1>1, <1>2, PTL DEF Spec

(* A writer has the semaphore to itself.                                   *)
THEOREM RwSemExclusion == Spec => []ReadersExcludeWriter
<1>1. RwInv => ReadersExcludeWriter BY ExclusiveExcludes DEF RwInv
<1>2. QED BY <1>1, RwSemInvariant, PTL

(* count is always what the positions of the tasks add up to, and its      *)
(* parts never run into each other.                                        *)
THEOREM RwSemCount == Spec => []CountExact
<1>1. RwInv => CountExact BY TallyIsExact DEF RwInv
<1>2. QED BY <1>1, RwSemInvariant, PTL

(* Nobody reaches the waiter of a task that has been let go. *)
THEOREM RwSemWaiters == Spec => []NoDanglingWaiter
<1>1. RwInv => NoDanglingWaiter BY DEF RwInv, QueueInv
<1>2. QED BY <1>1, RwSemInvariant, PTL

(* Only an undo that let the active part drop to 0 can lose a wakeup. *)
THEOREM RwSemLostOnlyByUndo == Spec => []LostOnlyByUndo
<1>1. RwInv => LostOnlyByUndo BY DueOnlyByUndo DEF RwInv
<1>2. QED BY <1>1, RwSemInvariant, PTL

(* The fast paths and the trylocks fail while somebody is queued. *)
LEMMA FastPath ==
  ASSUME RwInv, [Next]_vars, NEW t \in Tasks, pc[t] = "idle", pc'[t] \in {"read", "write"}
  PROVE  Queued = {}
<1>1. QueueInv /\ Tally /\ pc \in [Tasks -> PCs] /\ count \in Int BY DEF RwInv, QueueInv, TypeOK
<1>2. PICK u \in Tasks : Call(u) \/ Step(u) \/ __downgrade_write(u) \/ Stray(u)
  <2>1. ~UNCHANGED vars BY DEF vars
  <2>2. QED BY <2>1 DEF Next
<1>3. pc' # pc OBVIOUS
<1>4. \E to : pc' = [pc EXCEPT ![u] = to]
  <2>1. CASE Call(u)
    BY <2>1 DEF Call, __down_read, __down_read_trylock, __down_write, __down_write_trylock, Goto
  <2>2. CASE __up_read(u) \/ __up_write(u) \/ __downgrade_write(u)
    BY <2>2 DEF __up_read, __up_write, __downgrade_write, call_rwsem_wake, Goto
  <2>3. CASE rwsem_down_failed_common(u) \/ rwsem_wake(u) \/ rwsem_downgrade_wake(u)
    BY <2>3 DEF rwsem_down_failed_common, rwsem_wake, rwsem_downgrade_wake, DoWake, DontWake, Goto
  <2>4. CASE try_again(u) \/ undo(u) \/ GrantWriter(u) \/ readers_only(u) \/ GrantReader(u)
    BY <2>4 DEF try_again, undo, GrantWriter, readers_only, GrantReader, Out, Goto
  <2>5. CASE WakeTask(u) \/ WaitTest(u) \/ WaitSchedule(u)
    BY <2>5 DEF WakeTask, WaitTest, WaitSchedule, Out, Goto
  <2>6. CASE Stray(u) BY <1>3, <2>6 DEF Stray
  <2>7. QED BY <1>2, <2>1, <2>2, <2>3, <2>4, <2>5, <2>6 DEF Step
<1>5. u = t BY <1>1, <1>3, <1>4
<1>6. Call(t)
  BY <1>2, <1>3, <1>5 DEF Step, Stray, __up_read, __up_write, __downgrade_write,
     rwsem_down_failed_common, rwsem_wake, rwsem_downgrade_wake, try_again, undo, GrantWriter,
     readers_only, GrantReader, WakeTask, WaitTest, WaitSchedule
<1>7. count + 1 >= 0 \/ count = 0
  BY <1>1, <1>6, BFacts DEF Call, __down_read, __down_read_trylock, __down_write,
     __down_write_trylock, Goto
<1>8. Waiters = {} BY <1>1, <1>7, ReadCount
<1>9. QED BY <1>1, <1>8, Counted

(* "and will still be so" (rwsem.c:43): nobody overtakes the queue, not    *)
(* even in the windows in which a waker has count incremented.             *)
THEOREM RwSemNoOvertaking == Spec => NoOvertaking
<1>1. RwInv /\ [Next]_vars =>
        [\A t \in Tasks : pc[t] = "idle" /\ pc'[t] \in {"read", "write"} => Queued = {}]_vars
  BY FastPath
<1>2. QED BY <1>1, RwSemInvariant, PTL DEF Spec, NoOvertaking
-------------------------------------------------------------------------------
(* What ServedInOrder says of a step. *)
InOrder ==
  /\ \A s, t \in ungranted :
       Precedes(wait_list, s, t) /\ t \notin ungranted' => s \notin ungranted'
  /\ \A s \in ungranted \cap ungranted', t \in ungranted' :
       s # t /\ (Precedes(wait_list, s, t) \/ t \notin ungranted)
         => Precedes(wait_list', s, t)

(* The waiters not yet let go are the list, from next on in the loop. *)
LEMMA OnList ==
  ASSUME QueueInv
  PROVE  /\ wait_list \in Seq(Tasks) /\ NoDuplicates(wait_list)
         /\ ungranted \subseteq Entries(wait_list)
         /\ InLoop => /\ next \in Nat \ {0} /\ next <= Len(wait_list) + 1
                      /\ \A i \in 1 .. Len(wait_list) : wait_list[i] \in ungranted => i >= next
<1>1. wait_list \in Seq(Tasks) /\ next \in Nat /\ NoDuplicates(wait_list)
  BY DEF QueueInv, TypeOK, NoDanglingWaiter
<1>2. next >= 1 /\ (InLoop => next <= Len(wait_list) + 1) BY DEF QueueInv, LoopOK
<1>3. ungranted = {wait_list[i] : i \in (IF InLoop THEN next ELSE 1) .. Len(wait_list)}
  BY DEF QueueInv, NoDanglingWaiter
<1>4. ungranted \subseteq Entries(wait_list)
  <2>1. (IF InLoop THEN next ELSE 1) .. Len(wait_list) \subseteq 1 .. Len(wait_list)
    BY <1>1, <1>2
  <2>2. QED BY <1>3, <2>1 DEF Entries
<1>5. ASSUME InLoop, NEW i \in 1 .. Len(wait_list), wait_list[i] \in ungranted PROVE i >= next
  <2>1. PICK j \in next .. Len(wait_list) : wait_list[i] = wait_list[j] BY <1>3, <1>5
  <2>2. j \in 1 .. Len(wait_list) BY <1>1, <1>2
  <2>3. i = j BY <1>1, <2>1, <2>2 DEF NoDuplicates
  <2>4. QED BY <1>1, <2>1, <2>3
<1>6. QED BY <1>1, <1>2, <1>4, <1>5

LEMMA QueueStays ==
  ASSUME wait_list' = wait_list, ungranted' = ungranted PROVE InOrder
BY DEF InOrder

LEMMA QueuesInOrder ==
  ASSUME QueueInv, NEW t \in Tasks, rwsem_down_failed_common(t) PROVE InOrder
<1>1. wait_list' = list_add_tail(t, wait_list) /\ ungranted' = ungranted \cup {t}
  BY DEF rwsem_down_failed_common
<1>2. wait_list \in Seq(Tasks) /\ ungranted \subseteq Entries(wait_list) BY OnList
<1>3. \A s, u : Precedes(wait_list, s, u) => Precedes(wait_list', s, u)
  BY <1>1, <1>2, PrecedesAddTail
<1>4. \A s \in ungranted : Precedes(wait_list', s, t) BY <1>1, <1>2, PrecedesAddTail
<1>5. QED BY <1>1, <1>3, <1>4 DEF InOrder

LEMMA WritersInOrder ==
  ASSUME QueueInv, NEW t \in Tasks, GrantWriter(t) PROVE InOrder
<1>1. wait_list' = Tail(wait_list) /\ ungranted' = ungranted \ {list_first_entry(wait_list)}
  BY DEF GrantWriter
<1>2. ~list_empty(wait_list) BY DEF GrantWriter, QueueInv, FrontOK, FirstPCs
<1>3. wait_list \in Seq(Tasks) /\ NoDuplicates(wait_list) BY OnList
<1>4. ASSUME NEW s, NEW u, Precedes(wait_list, s, u)
      PROVE  /\ u # list_first_entry(wait_list)
             /\ s # list_first_entry(wait_list) => Precedes(wait_list', s, u)
  BY <1>1, <1>2, <1>3, <1>4, PrecedesTail
<1>5. QED BY <1>1, <1>4 DEF InOrder

LEMMA ReadersInOrder ==
  ASSUME QueueInv, NEW t \in Tasks, GrantReader(t) PROVE InOrder
<1>1. wait_list' = wait_list /\ ungranted' = ungranted \ {wait_list[next]} /\ InLoop
  BY DEF GrantReader, InLoop
<1>2. /\ next \in Nat \ {0} /\ NoDuplicates(wait_list)
      /\ \A i \in 1 .. Len(wait_list) : wait_list[i] \in ungranted => i >= next
  BY <1>1, OnList
<1>3. ASSUME NEW s \in ungranted, NEW u \in ungranted, Precedes(wait_list, s, u)
      PROVE  u # wait_list[next]
  <2>1. PICK i, j \in 1 .. Len(wait_list) : i < j /\ wait_list[i] = s /\ wait_list[j] = u
    BY <1>3 DEF Precedes
  <2>2. i >= next BY <1>2, <2>1
  <2>3. next \in 1 .. Len(wait_list) /\ j # next BY <1>2, <2>1, <2>2
  <2>4. QED BY <1>2, <2>1, <2>3 DEF NoDuplicates
<1>4. QED BY <1>1, <1>3 DEF InOrder

LEMMA CutInOrder ==
  ASSUME QueueInv, NEW t \in Tasks, WakeTask(t) PROVE InOrder
<1>1. CASE wait_list' = wait_list /\ ungranted' = ungranted BY <1>1, QueueStays
<1>2. CASE wait_list' = SubSeq(wait_list, next, Len(wait_list)) /\ ungranted' = ungranted
  <2>1. InLoop BY DEF WakeTask, InLoop
  <2>2. /\ wait_list \in Seq(Tasks) /\ next \in Nat \ {0} /\ next <= Len(wait_list) + 1
        /\ \A i \in 1 .. Len(wait_list) : wait_list[i] \in ungranted => i >= next
    BY <2>1, OnList
  <2> DEFINE n == Len(wait_list)
  <2>3. n \in Nat BY <2>2
  <2>4. Len(wait_list') = n - next + 1 BY <1>2, <2>2, <2>3
  <2>5. \A k \in 1 .. n - next + 1 : wait_list'[k] = wait_list[next + k - 1]
    BY <1>2, <2>2, <2>3
  <2>6. ASSUME NEW s \in ungranted, NEW u \in ungranted, Precedes(wait_list, s, u)
        PROVE  Precedes(wait_list', s, u)
    <3>1. PICK i, j \in 1 .. n : i < j /\ wait_list[i] = s /\ wait_list[j] = u
      BY <2>6 DEF Precedes
    <3>2. i >= next BY <2>2, <3>1
    <3> DEFINE a == i - next + 1
               b == j - next + 1
    <3>3. /\ a \in 1 .. n - next + 1 /\ b \in 1 .. n - next + 1 /\ a < b
          /\ next + a - 1 = i /\ next + b - 1 = j
      BY <2>2, <2>3, <3>1, <3>2
    <3>4. wait_list'[a] = s /\ wait_list'[b] = u BY <2>5, <3>1, <3>3
    <3>5. QED
      <4> HIDE DEF a, b
      <4>1. QED BY <2>4, <3>3, <3>4 DEF Precedes
  <2>7. QED BY <1>2, <2>6 DEF InOrder
<1>3. QED BY <1>1, <1>2 DEF WakeTask

LEMMA StepInOrder == ASSUME RwInv, [Next]_vars PROVE InOrder
<1>1. QueueInv BY DEF RwInv
<1>2. CASE UNCHANGED vars BY <1>2, QueueStays DEF vars
<1>3. ASSUME NEW t \in Tasks, Call(t) PROVE InOrder
  BY <1>3, QueueStays DEF Call, __down_read, __down_read_trylock, __down_write,
     __down_write_trylock, slowVars
<1>4. ASSUME NEW t \in Tasks, __downgrade_write(t) \/ Stray(t) PROVE InOrder
  BY <1>4, QueueStays DEF __downgrade_write, Stray, slowVars
<1>5. ASSUME NEW t \in Tasks, Step(t) PROVE InOrder
  <2>1. CASE rwsem_down_failed_common(t) BY <1>1, <2>1, QueuesInOrder
  <2>2. CASE GrantWriter(t) BY <1>1, <2>2, WritersInOrder
  <2>3. CASE GrantReader(t) BY <1>1, <2>3, ReadersInOrder
  <2>4. CASE WakeTask(t) BY <1>1, <2>4, CutInOrder
  <2>5. CASE __up_read(t) \/ __up_write(t) \/ try_again(t)
    BY <2>5, QueueStays DEF __up_read, __up_write, try_again, slowVars
  <2>6. CASE rwsem_wake(t) \/ rwsem_downgrade_wake(t) \/ undo(t) \/ readers_only(t)
    BY <2>6, QueueStays DEF rwsem_wake, rwsem_downgrade_wake, undo, readers_only
  <2>7. CASE WaitTest(t) \/ WaitSchedule(t)
    BY <2>7, QueueStays DEF WaitTest, WaitSchedule
  <2>8. QED BY <1>5, <2>1, <2>2, <2>3, <2>4, <2>5, <2>6, <2>7 DEF Step
<1>6. QED BY <1>2, <1>3, <1>4, <1>5 DEF Next

(* The queue is served first come, first served (rwsem.c:63-131, 163), and *)
(* with RwSemNoOvertaking nobody takes the semaphore past it: what "fair"  *)
(* means where the grants of one wakeup are many steps.                    *)
THEOREM RwSemServedInOrder == Spec => ServedInOrder
<1> DEFINE Served ==
  /\ \A s, t \in ungranted :
       Before(s, t) /\ t \notin ungranted' => s \notin ungranted'
  /\ \A s \in ungranted \cap ungranted', t \in ungranted' :
       s # t /\ (Before(s, t) \/ t \notin ungranted) => Before(s, t)'
<1>1. ASSUME RwInv, [Next]_vars PROVE Served
  <2>1. InOrder BY <1>1, StepInOrder
  <2>2. \A s, t : /\ Before(s, t) <=> Precedes(wait_list, s, t)
                  /\ Before(s, t)' <=> Precedes(wait_list', s, t)
    BY DEF Before, Precedes
  <2>3. QED BY <2>1, <2>2 DEF InOrder
<1>2. RwInv /\ [Next]_vars => [Served]_vars BY <1>1
<1>3. QED BY <1>2, RwSemInvariant, PTL DEF Spec, ServedInOrder
===============================================================================
