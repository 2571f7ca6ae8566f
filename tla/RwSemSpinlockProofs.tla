-------------------------- MODULE RwSemSpinlockProofs --------------------------
(* Theorems about RwSemSpinlock for any finite set of tasks. *)
EXTENDS RwSemSpinlock, KernelListProofs, FiniteSetTheorems, SequenceTheorems, TLAPS

(* The flags of a task that has returned from its down say what it holds. *)
HolderFlags ==
  \A t \in Tasks : (pc[t] = "read" => flags[t] = "READ") /\ (pc[t] = "write" => flags[t] = "WRITE")

(* The inductive invariant. *)
RwInv == TypeOK /\ WaitersExact /\ HolderFlags /\ ActivityExact /\ FrontMustWait

(* n waiters at the front are readers and the next one, if any, a writer. *)
ReadersAhead(n) ==
  /\ n \in 0 .. Len(wait_list)
  /\ \A i \in 1 .. n : flags[wait_list[i]] = "READ"
  /\ n < Len(wait_list) => flags[wait_list[n + 1]] = "WRITE"

(* There is exactly one such number, so FrontReaders is it. *)
LEMMA FrontReadersFacts ==
  ASSUME TypeOK
  PROVE  /\ ReadersAhead(FrontReaders)
         /\ \A n : ReadersAhead(n) => n = FrontReaders
<1> DEFINE P == {t \in Tasks : flags[t] = "READ"}
<1>1. /\ wait_list \in Seq(Tasks) /\ Len(wait_list) \in Nat
      /\ flags \in [Tasks -> {"READ", "WRITE"}]
  BY DEF TypeOK
<1>2. ASSUME NEW n PROVE ReadersAhead(n) <=> Leading(wait_list, P, n)
  <2>1. \A i \in 1 .. Len(wait_list) :
          /\ flags[wait_list[i]] = "READ" <=> wait_list[i] \in P
          /\ flags[wait_list[i]] = "WRITE" <=> wait_list[i] \notin P
    BY <1>1
  <2> HIDE DEF P
  <2>2. CASE n \in 0 .. Len(wait_list)
    <3>1. /\ \A i \in 1 .. n : i \in 1 .. Len(wait_list)
          /\ n < Len(wait_list) => n + 1 \in 1 .. Len(wait_list)
      BY <1>1, <2>2
    <3>2. QED BY <2>1, <2>2, <3>1 DEF ReadersAhead, Leading
  <2>3. CASE n \notin 0 .. Len(wait_list) BY <2>3 DEF ReadersAhead, Leading
  <2>4. QED BY <2>2, <2>3
<1> HIDE DEF P
<1>3. /\ \E n : ReadersAhead(n)
      /\ \A n, m : ReadersAhead(n) /\ ReadersAhead(m) => n = m
  BY <1>1, <1>2, LeadingFacts
<1>4. ReadersAhead(FrontReaders)
  <2>1. FrontReaders = CHOOSE n \in 0 .. Len(wait_list) :
                         /\ \A i \in 1 .. n : flags[wait_list[i]] = "READ"
                         /\ n < Len(wait_list) => flags[wait_list[n + 1]] = "WRITE"
    BY DEF FrontReaders
  <2>2. QED BY <1>3, <2>1 DEF ReadersAhead
<1>5. QED BY <1>3, <1>4
-------------------------------------------------------------------------------
(* While the waiters are exact, a task has the semaphore unless it is idle *)
(* or its waiter.task is set.                                              *)
LEMMA HoldsIff ==
  TypeOK /\ WaitersExact =>
    \A t \in Tasks, mode \in {"READ", "WRITE"} :
      Holds(t, mode) <=> flags[t] = mode /\ pc[t] # "idle" /\ t \notin ungranted
BY DEF TypeOK, PCs, WaitersExact, Holds, InWait

LEMMA HoldsIffNext ==
  ASSUME pc' \in [Tasks -> PCs], WaitersExact', NEW t \in Tasks, NEW mode \in {"READ", "WRITE"}
  PROVE  Holds(t, mode)' <=> flags'[t] = mode /\ pc'[t] # "idle" /\ t \notin ungranted'
<1>1. pc'[t] \in PCs OBVIOUS
<1>2. t \in ungranted' => pc'[t] \in {"wait", "schedule"} BY DEF WaitersExact, InWait
<1>3. QED BY <1>1, <1>2 DEF PCs, Holds, InWait

(* All that a release or a downgrade does but for activity: t goes on to   *)
(* "idle" or "read", and the first n waiters are let go.                   *)
HandOver(t, n, to) ==
  /\ pc[t] \in {"read", "write"} /\ to \in {"idle", "read"}
  /\ n \in 0 .. Len(wait_list)
  /\ Goto(t, to)
  /\ flags' = [flags EXCEPT ![t] = IF to = "read" THEN "READ" ELSE @]
  /\ LetGo(n)
  /\ UNCHANGED sigpend

(* Leaving everyone in the queue is letting none of them go. *)
LEMMA NobodyIsNone == ASSUME TypeOK, Nobody PROVE LetGo(0)
<1>1. wait_list \in Seq(Tasks) /\ Len(wait_list) \in Nat /\ 1 .. 0 = {} BY DEF TypeOK
<1>2. SubSeq(wait_list, 1, Len(wait_list)) = wait_list
  <2>1. /\ SubSeq(wait_list, 1, Len(wait_list)) \in Seq(Tasks)
        /\ Len(SubSeq(wait_list, 1, Len(wait_list))) = Len(wait_list)
        /\ \A i \in 1 .. Len(wait_list) : SubSeq(wait_list, 1, Len(wait_list))[i] = wait_list[i]
    BY <1>1
  <2>2. QED BY <1>1, <2>1, SeqEqual
<1>3. state = [t \in Tasks |-> state[t]] BY DEF TypeOK, TaskTypeOK
<1>4. {wait_list[i] : i \in 1 .. 0} = {} BY <1>1
<1>5. QED BY <1>2, <1>3, <1>4 DEF Nobody, LetGo

(* Whoever is let go, or lets go, the queue stays exact. *)
LEMMA HandOverWaiters ==
  ASSUME RwInv, NEW t \in Tasks, NEW n, NEW to, HandOver(t, n, to)
  PROVE  /\ wait_list' \in Seq(Tasks) /\ ungranted' \subseteq Tasks
         /\ flags' \in [Tasks -> {"READ", "WRITE"}] /\ pc' \in [Tasks -> PCs] /\ TaskTypeOK'
         /\ WaitersExact' /\ HolderFlags'
         /\ First(wait_list, n) \subseteq ungranted /\ t \notin ungranted
         /\ \A x \in ungranted : flags'[x] = flags[x]
<1> DEFINE served == First(wait_list, n)
<1>1. /\ TypeOK /\ WaitersExact /\ HolderFlags /\ n \in 0 .. Len(wait_list)
      /\ wait_list \in Seq(Tasks)
  BY DEF RwInv, HandOver, TypeOK
<1>2. /\ wait_list' = Drop(wait_list, n) /\ ungranted' = ungranted \ served
      /\ state' = [x \in Tasks |-> IF x \in served THEN "RUNNING" ELSE state[x]]
      /\ pc' = [pc EXCEPT ![t] = to] /\ to \in {"idle", "read"} /\ sigpend' = sigpend
      /\ flags' = [flags EXCEPT ![t] = IF to = "read" THEN "READ" ELSE @]
      /\ pc[t] \in {"read", "write"}
  BY DEF HandOver, LetGo, Drop, First, Goto
<1>3. /\ Entries(wait_list') = Entries(wait_list) \ served /\ NoDuplicates(wait_list')
      /\ served \subseteq Entries(wait_list)
  BY <1>1, <1>2, DropEntries DEF WaitersExact
<1>4. wait_list' \in Seq(Tasks) BY <1>1, <1>2, DropSeq
<1> HIDE DEF served
<1>5. t \notin ungranted BY <1>1, <1>2 DEF WaitersExact, InWait
<1>6. ungranted' \subseteq Tasks BY <1>1, <1>2 DEF TypeOK
<1>7. flags' \in [Tasks -> {"READ", "WRITE"}] /\ pc' \in [Tasks -> PCs] /\ TaskTypeOK'
  BY <1>1, <1>2 DEF TypeOK, TaskTypeOK, TaskStates, PCs
<1>8. \A x \in ungranted : flags'[x] = flags[x] BY <1>1, <1>2, <1>5 DEF TypeOK
<1>9. HolderFlags' BY <1>1, <1>2 DEF HolderFlags, TypeOK
<1>10. WaitersExact'
  <2>1. Entries(wait_list') = ungranted' BY <1>1, <1>2, <1>3 DEF WaitersExact
  <2>2. \A x \in ungranted' : InWait(x)' BY <1>1, <1>2, <1>5 DEF WaitersExact, InWait, TypeOK
  <2>3. ASSUME NEW x \in Tasks, pc'[x] = "schedule", x \notin ungranted'
        PROVE  schedule_returns(x)'
    <3>1. x # t /\ pc[x] = "schedule" BY <1>1, <1>2, <2>3 DEF TypeOK
    <3>2. CASE x \in served BY <1>2, <3>2 DEF schedule_returns
    <3>3. CASE x \notin served
      <4>1. schedule_returns(x) BY <1>1, <1>2, <2>3, <3>1, <3>3 DEF WaitersExact
      <4>2. state'[x] = state[x] BY <1>2, <3>3
      <4>3. QED BY <1>2, <4>1, <4>2 DEF schedule_returns, signal_pending_state
    <3>4. QED BY <3>2, <3>3
  <2>4. QED BY <1>3, <2>1, <2>2, <2>3 DEF WaitersExact
<1>11. served \subseteq ungranted BY <1>1, <1>3 DEF WaitersExact
<1>12. QED BY <1>4, <1>5, <1>6, <1>7, <1>8, <1>9, <1>10, <1>11 DEF served

(* The holders after it: t as a reader or not at all, and who was let go. *)
LEMMA HandOverHolders ==
  ASSUME RwInv, NEW t \in Tasks, NEW n, NEW to, HandOver(t, n, to)
  PROVE  /\ Readers' = (Readers \ {t}) \cup (IF to = "read" THEN {t} ELSE {})
                        \cup {x \in First(wait_list, n) : flags[x] = "READ"}
         /\ Writers' = (Writers \ {t}) \cup {x \in First(wait_list, n) : flags[x] = "WRITE"}
<1> DEFINE served == First(wait_list, n)
<1>1. /\ TypeOK /\ WaitersExact /\ pc \in [Tasks -> PCs] /\ flags \in [Tasks -> {"READ", "WRITE"}]
      /\ ungranted \subseteq Tasks
  BY DEF RwInv, TypeOK
<1>2. /\ pc' \in [Tasks -> PCs] /\ WaitersExact' /\ served \subseteq ungranted
      /\ t \notin ungranted
  BY HandOverWaiters
<1>3. /\ ungranted' = ungranted \ served /\ pc' = [pc EXCEPT ![t] = to]
      /\ to \in {"idle", "read"} /\ pc[t] \in {"read", "write"}
      /\ flags' = [flags EXCEPT ![t] = IF to = "read" THEN "READ" ELSE @]
  BY DEF HandOver, LetGo, First, Goto
<1> HIDE DEF served
<1>4. \A x \in Tasks, mode \in {"READ", "WRITE"} :
        Holds(x, mode) <=> flags[x] = mode /\ pc[x] # "idle" /\ x \notin ungranted
  BY <1>1, HoldsIff
<1>5. \A x \in Tasks, mode \in {"READ", "WRITE"} :
        Holds(x, mode)' <=> flags'[x] = mode /\ pc'[x] # "idle" /\ x \notin ungranted'
  BY <1>2, HoldsIffNext
<1>6. ASSUME NEW x \in Tasks, x # t, NEW mode \in {"READ", "WRITE"}
      PROVE  Holds(x, mode)' <=> Holds(x, mode) \/ (x \in served /\ flags[x] = mode)
  <2>1. flags'[x] = flags[x] /\ pc'[x] = pc[x] BY <1>1, <1>3, <1>6
  <2>2. x \in served => pc[x] # "idle" BY <1>1, <1>2 DEF WaitersExact, InWait
  <2>3. QED BY <1>2, <1>3, <1>4, <1>5, <2>1, <2>2
<1>7. /\ Holds(t, "READ")' <=> to = "read"
      /\ ~Holds(t, "WRITE")'
      /\ t \notin served
  <2>1. pc'[t] = to /\ (to = "read" => flags'[t] = "READ") BY <1>1, <1>3
  <2>2. QED BY <1>2, <1>3, <1>5, <2>1
<1>8. Readers' = {x \in Tasks : Holds(x, "READ")'} /\ Writers' = {x \in Tasks : Holds(x, "WRITE")'}
  BY DEF Readers, Writers
<1>9. served \subseteq Tasks BY <1>1, <1>2
<1>10. ASSUME NEW x \in Tasks
       PROVE  /\ x \in Readers' <=> x \in (Readers \ {t}) \cup (IF to = "read" THEN {t} ELSE {})
                                            \cup {y \in served : flags[y] = "READ"}
              /\ x \in Writers' <=> x \in (Writers \ {t}) \cup {y \in served : flags[y] = "WRITE"}
  <2>1. CASE x = t BY <1>7, <1>8, <2>1
  <2>2. CASE x # t BY <1>6, <1>8, <2>2 DEF Readers, Writers
  <2>3. QED BY <2>1, <2>2
<1>11. Readers \subseteq Tasks /\ Writers \subseteq Tasks /\ Readers' \subseteq Tasks /\ Writers' \subseteq Tasks
  BY <1>8 DEF Readers, Writers
<1>12. Readers' = (Readers \ {t}) \cup (IF to = "read" THEN {t} ELSE {})
                    \cup {y \in served : flags[y] = "READ"}
  BY <1>9, <1>10, <1>11
<1>13. Writers' = (Writers \ {t}) \cup {y \in served : flags[y] = "WRITE"}
  BY <1>9, <1>10, <1>11
<1>14. QED BY <1>12, <1>13 DEF served

(* Releases and downgrades are such steps. *)
LEMMA ReleaseSteps ==
  ASSUME RwInv, NEW t \in Tasks
  PROVE  /\ __up_read(t) =>
              \/ /\ activity = 1 /\ ~list_empty(wait_list) /\ activity' = -1
                 /\ HandOver(t, 1, "idle")
              \/ /\ list_empty(wait_list) \/ activity # 1
                 /\ activity' = activity - 1 /\ HandOver(t, 0, "idle")
         /\ __up_write(t) =>
              \/ list_empty(wait_list) /\ activity' = 0 /\ HandOver(t, 0, "idle")
              \/ /\ ~list_empty(wait_list) /\ flags[Head(wait_list)] = "WRITE"
                 /\ activity' = -1 /\ HandOver(t, 1, "idle")
              \/ /\ ~list_empty(wait_list) /\ flags[Head(wait_list)] = "READ"
                 /\ activity' = FrontReaders /\ HandOver(t, FrontReaders, "idle")
         /\ __downgrade_write(t) =>
              \/ /\ list_empty(wait_list) \/ flags[Head(wait_list)] = "WRITE"
                 /\ activity' = 1 /\ HandOver(t, 0, "read")
              \/ /\ ~list_empty(wait_list) /\ flags[Head(wait_list)] = "READ"
                 /\ activity' = 1 + FrontReaders /\ HandOver(t, FrontReaders, "read")
<1>1. /\ TypeOK /\ Len(wait_list) \in Nat /\ flags \in [Tasks -> {"READ", "WRITE"}]
      /\ activity \in Int
  BY DEF RwInv, TypeOK
<1>2. Nobody => LetGo(0) BY <1>1, NobodyIsNone
<1>3. FrontReaders \in 0 .. Len(wait_list) BY <1>1, FrontReadersFacts DEF ReadersAhead
<1>4. /\ 0 \in 0 .. Len(wait_list)
      /\ ~list_empty(wait_list) => 1 \in 0 .. Len(wait_list)
  BY <1>1 DEF list_empty
<1>5. [flags EXCEPT ![t] = IF "idle" = "read" THEN "READ" ELSE @] = flags BY <1>1
<1>6. [flags EXCEPT ![t] = IF "read" = "read" THEN "READ" ELSE @] = [flags EXCEPT ![t] = "READ"]
  BY <1>1
<1>7. activity - 1 = 0 <=> activity = 1 BY <1>1
<1>8. 0 + FrontReaders = FrontReaders BY <1>1, <1>3
<1> HIDE DEF FrontReaders
<1>9. ASSUME __up_read(t)
      PROVE  \/ /\ activity = 1 /\ ~list_empty(wait_list) /\ activity' = -1
                /\ HandOver(t, 1, "idle")
             \/ /\ list_empty(wait_list) \/ activity # 1
                /\ activity' = activity - 1 /\ HandOver(t, 0, "idle")
  BY <1>2, <1>4, <1>5, <1>7, <1>9 DEF __up_read, __rwsem_wake_one_writer, HandOver
<1>10. ASSUME __up_write(t)
       PROVE  \/ list_empty(wait_list) /\ activity' = 0 /\ HandOver(t, 0, "idle")
              \/ /\ ~list_empty(wait_list) /\ flags[Head(wait_list)] = "WRITE"
                 /\ activity' = -1 /\ HandOver(t, 1, "idle")
              \/ /\ ~list_empty(wait_list) /\ flags[Head(wait_list)] = "READ"
                 /\ activity' = FrontReaders /\ HandOver(t, FrontReaders, "idle")
  BY <1>2, <1>3, <1>4, <1>5, <1>8, <1>10
     DEF __up_write, __rwsem_do_wake, HandOver, list_first_entry
<1>11. ASSUME __downgrade_write(t)
       PROVE  \/ /\ list_empty(wait_list) \/ flags[Head(wait_list)] = "WRITE"
                 /\ activity' = 1 /\ HandOver(t, 0, "read")
              \/ /\ ~list_empty(wait_list) /\ flags[Head(wait_list)] = "READ"
                 /\ activity' = 1 + FrontReaders /\ HandOver(t, FrontReaders, "read")
  BY <1>2, <1>3, <1>4, <1>6, <1>11
     DEF __downgrade_write, __rwsem_do_wake, HandOver, list_first_entry
<1>12. QED BY <1>9, <1>10, <1>11
-------------------------------------------------------------------------------
(* Who is first in the queue after the first n have gone. *)
LEMMA NextFront ==
  ASSUME RwInv, NEW t \in Tasks, NEW n, NEW to, HandOver(t, n, to), ~list_empty(wait_list')
  PROVE  /\ n < Len(wait_list)
         /\ flags'[list_first_entry(wait_list')] = flags[wait_list[n + 1]]
<1>1. /\ n \in 0 .. Len(wait_list) /\ wait_list \in Seq(Tasks) /\ Len(wait_list) \in Nat
      /\ WaitersExact /\ wait_list' = Drop(wait_list, n)
  BY DEF HandOver, RwInv, TypeOK, LetGo, Drop
<1>2. /\ Len(wait_list') = Len(wait_list) - n /\ wait_list' \in Seq(Tasks)
      /\ \A j \in 1 .. (Len(wait_list) - n) : wait_list'[j] = wait_list[n + j]
  BY <1>1, DropSeq
<1>3. n < Len(wait_list) /\ 1 \in 1 .. (Len(wait_list) - n) /\ n + 1 \in 1 .. Len(wait_list)
  BY <1>1, <1>2 DEF list_empty
<1>4. list_first_entry(wait_list') = wait_list[n + 1]
  <2>1. Head(wait_list') = wait_list'[1] BY <1>2, <1>3
  <2>2. QED BY <1>2, <1>3, <2>1 DEF list_first_entry
<1>5. wait_list[n + 1] \in ungranted BY <1>1, <1>3 DEF WaitersExact, Entries
<1>6. QED BY <1>3, <1>4, <1>5, HandOverWaiters

(* Letting the readers at the front go: they are readers all, at least one, *)
(* and the next in the queue is a writer.                                   *)
LEMMA FrontReadersServed ==
  ASSUME RwInv, ~list_empty(wait_list), flags[Head(wait_list)] = "READ"
  PROVE  /\ FrontReaders \in 1 .. Len(wait_list)
         /\ {x \in First(wait_list, FrontReaders) : flags[x] = "READ"} = First(wait_list, FrontReaders)
         /\ {x \in First(wait_list, FrontReaders) : flags[x] = "WRITE"} = {}
         /\ FrontReaders < Len(wait_list) => flags[wait_list[FrontReaders + 1]] = "WRITE"
         /\ IsFiniteSet(First(wait_list, FrontReaders))
         /\ Cardinality(First(wait_list, FrontReaders)) = FrontReaders
<1>1. ReadersAhead(FrontReaders) BY FrontReadersFacts DEF RwInv
<1>2. /\ wait_list \in Seq(Tasks) /\ Len(wait_list) \in Nat /\ NoDuplicates(wait_list)
  BY DEF RwInv, TypeOK, WaitersExact
<1>3. Len(wait_list) > 0 /\ Head(wait_list) = wait_list[1] BY <1>2 DEF list_empty
<1> HIDE DEF FrontReaders
<1>4. FrontReaders # 0 BY <1>1, <1>3 DEF ReadersAhead
<1>5. FrontReaders \in 1 .. Len(wait_list) BY <1>1, <1>2, <1>4 DEF ReadersAhead
<1>6. \A x \in First(wait_list, FrontReaders) : flags[x] = "READ" BY <1>1 DEF ReadersAhead, First
<1>7. FrontReaders < Len(wait_list) => flags[wait_list[FrontReaders + 1]] = "WRITE"
  BY <1>1 DEF ReadersAhead
<1>8. FrontReaders \in 0 .. Len(wait_list) BY <1>1 DEF ReadersAhead
<1>9. /\ IsFiniteSet(First(wait_list, FrontReaders))
      /\ Cardinality(First(wait_list, FrontReaders)) = FrontReaders
  BY <1>2, <1>8, FirstCount
<1>10. QED BY <1>5, <1>6, <1>7, <1>9

(* Letting nobody go, or only the writer at the front. *)
LEMMA FewServed ==
  ASSUME RwInv
  PROVE  /\ First(wait_list, 0) = {}
         /\ ~list_empty(wait_list) => First(wait_list, 1) = {Head(wait_list)}
<1>1. wait_list \in Seq(Tasks) /\ Len(wait_list) \in Nat /\ 1 .. 0 = {} /\ 1 .. 1 = {1}
  BY DEF RwInv, TypeOK
<1>2. First(wait_list, 0) = {} BY <1>1 DEF First
<1>3. ASSUME ~list_empty(wait_list) PROVE First(wait_list, 1) = {Head(wait_list)}
  <2>1. Head(wait_list) = wait_list[1] BY <1>1, <1>3 DEF list_empty
  <2>2. QED BY <1>1, <2>1 DEF First
<1>4. QED BY <1>2, <1>3

LEMMA HoldersFinite ==
  /\ IsFiniteSet(Readers) /\ IsFiniteSet(Writers)
  /\ Cardinality(Readers) \in Nat /\ Cardinality(Writers) \in Nat
<1>1. Readers \in SUBSET Tasks /\ Writers \in SUBSET Tasks BY DEF Readers, Writers
<1>2. IsFiniteSet(Readers) /\ IsFiniteSet(Writers) BY <1>1, RwSemSpinlockAssumption, FS_Subset
<1>3. QED BY <1>2, FS_CardinalityType

(* What a holder knows: a reader is counted, a writer is alone. *)
LEMMA HolderKnows ==
  ASSUME RwInv, NEW t \in Tasks
  PROVE  /\ pc[t] = "read" =>
              /\ t \in Readers /\ Writers = {} /\ activity = Cardinality(Readers) /\ activity > 0
              /\ activity = 1 => Readers = {t}
         /\ pc[t] = "write" => activity = -1 /\ Readers = {} /\ Writers = {t}
<1>1. /\ TypeOK /\ HolderFlags /\ ActivityExact BY DEF RwInv
<1>2. ASSUME pc[t] = "read"
      PROVE  /\ t \in Readers /\ Writers = {} /\ activity = Cardinality(Readers) /\ activity > 0
             /\ activity = 1 => Readers = {t}
  <2>1. t \in Readers BY <1>1, <1>2 DEF HolderFlags, Readers, Holds
  <2>2. Writers = {} /\ activity = Cardinality(Readers) BY <1>1, <2>1 DEF ActivityExact
  <2>3. activity # 0 BY <2>1, <2>2, HoldersFinite, FS_EmptySet
  <2>4. activity = 1 => \E x : Readers = {x} BY <2>2, HoldersFinite, FS_Singleton
  <2>5. QED BY <2>1, <2>2, <2>3, <2>4, HoldersFinite
<1>3. ASSUME pc[t] = "write" PROVE activity = -1 /\ Readers = {} /\ Writers = {t}
  <2>1. t \in Writers BY <1>1, <1>3 DEF HolderFlags, Writers, Holds
  <2>2. activity = -1 /\ Readers = {} /\ Cardinality(Writers) = 1 BY <1>1, <2>1 DEF ActivityExact
  <2>3. \E x : Writers = {x} BY <2>2, HoldersFinite, FS_Singleton
  <2>4. QED BY <2>1, <2>2, <2>3
<1>4. QED BY <1>2, <1>3
-------------------------------------------------------------------------------
(* The last reader hands over to the writer at the front, the others leave. *)
LEMMA UpReadStep ==
  ASSUME RwInv, NEW t \in Tasks, __up_read(t)
  PROVE  RwInv'
<1>1. /\ t \in Readers /\ Writers = {} /\ activity = Cardinality(Readers) /\ activity > 0
      /\ activity = 1 => Readers = {t}
  BY HolderKnows DEF __up_read
<1>2. activity \in Int /\ FrontMustWait BY DEF RwInv, TypeOK
<1>3. CASE /\ activity = 1 /\ ~list_empty(wait_list) /\ activity' = -1
           /\ HandOver(t, 1, "idle")
  <2>1. flags[Head(wait_list)] = "WRITE" BY <1>2, <1>3 DEF FrontMustWait, list_first_entry
  <2>2. First(wait_list, 1) = {Head(wait_list)} BY <1>3, FewServed
  <2>3. /\ Readers' = (Readers \ {t}) \cup (IF "idle" = "read" THEN {t} ELSE {})
                        \cup {x \in First(wait_list, 1) : flags[x] = "READ"}
        /\ Writers' = (Writers \ {t}) \cup {x \in First(wait_list, 1) : flags[x] = "WRITE"}
    BY <1>3, HandOverHolders
  <2>4. Readers' = {} /\ Writers' = {Head(wait_list)} BY <1>1, <1>3, <2>1, <2>2, <2>3
  <2>5. ActivityExact' BY <1>3, <2>4, FS_Singleton DEF ActivityExact
  <2>6. FrontMustWait' BY <1>3 DEF FrontMustWait
  <2>7. TypeOK' BY <1>3, HandOverWaiters DEF TypeOK
  <2>8. QED BY <1>3, <2>5, <2>6, <2>7, HandOverWaiters DEF RwInv
<1>4. CASE /\ list_empty(wait_list) \/ activity # 1
           /\ activity' = activity - 1 /\ HandOver(t, 0, "idle")
  <2>1. /\ Readers' = (Readers \ {t}) \cup (IF "idle" = "read" THEN {t} ELSE {})
                        \cup {x \in First(wait_list, 0) : flags[x] = "READ"}
        /\ Writers' = (Writers \ {t}) \cup {x \in First(wait_list, 0) : flags[x] = "WRITE"}
    BY <1>4, HandOverHolders
  <2>2. Readers' = Readers \ {t} /\ Writers' = {} BY <1>1, <2>1, FewServed
  <2>3. Cardinality(Readers') = activity - 1 BY <1>1, <2>2, HoldersFinite, FS_RemoveElement
  <2>4. ActivityExact' BY <1>4, <2>2, <2>3 DEF ActivityExact
  <2>5. FrontMustWait'
    <3> SUFFICES ASSUME ~list_empty(wait_list')
                 PROVE  activity' > 0 /\ flags'[list_first_entry(wait_list')] = "WRITE"
      BY DEF FrontMustWait
    <3>1. 0 < Len(wait_list) /\ flags'[list_first_entry(wait_list')] = flags[wait_list[0 + 1]]
      BY <1>4, NextFront
    <3>2. ~list_empty(wait_list) /\ list_first_entry(wait_list) = wait_list[0 + 1]
      BY <3>1 DEF list_empty, list_first_entry, RwInv, TypeOK
    <3>3. activity > 1 BY <1>1, <1>2, <1>4, <3>2
    <3>4. QED BY <1>2, <1>4, <3>1, <3>2, <3>3 DEF FrontMustWait
  <2>6. TypeOK'
    <3>1. activity' \in Int /\ activity' >= -1 BY <1>1, <1>2, <1>4
    <3>2. QED BY <1>4, <3>1, HandOverWaiters DEF TypeOK
  <2>7. QED BY <1>4, <2>4, <2>5, <2>6, HandOverWaiters DEF RwInv
<1>5. QED BY <1>3, <1>4, ReleaseSteps

(* A writer that goes on, alone or as a reader, with nobody let go. *)
LEMMA WriterLeavesAlone ==
  ASSUME RwInv, NEW t \in Tasks, pc[t] = "write", NEW to, HandOver(t, 0, to),
         activity' = IF to = "read" THEN 1 ELSE 0,
         \/ list_empty(wait_list)
         \/ to = "read" /\ flags[Head(wait_list)] = "WRITE"
  PROVE  RwInv'
<1>1. Readers = {} /\ Writers = {t} BY HolderKnows
<1>2. /\ Readers' = (Readers \ {t}) \cup (IF to = "read" THEN {t} ELSE {})
                      \cup {x \in First(wait_list, 0) : flags[x] = "READ"}
      /\ Writers' = (Writers \ {t}) \cup {x \in First(wait_list, 0) : flags[x] = "WRITE"}
  BY HandOverHolders
<1>3. Readers' = (IF to = "read" THEN {t} ELSE {}) /\ Writers' = {} BY <1>1, <1>2, FewServed
<1>4. ActivityExact' BY <1>3, FS_Singleton, FS_EmptySet DEF ActivityExact
<1>5. FrontMustWait'
  <2> SUFFICES ASSUME ~list_empty(wait_list')
               PROVE  activity' > 0 /\ flags'[list_first_entry(wait_list')] = "WRITE"
    BY DEF FrontMustWait
  <2>1. 0 < Len(wait_list) /\ flags'[list_first_entry(wait_list')] = flags[wait_list[0 + 1]]
    BY NextFront
  <2>2. ~list_empty(wait_list) /\ Head(wait_list) = wait_list[0 + 1]
    BY <2>1 DEF list_empty, RwInv, TypeOK
  <2>3. QED BY <2>1, <2>2
<1>6. TypeOK' BY HandOverWaiters DEF TypeOK
<1>7. QED BY <1>4, <1>5, <1>6, HandOverWaiters DEF RwInv

(* A writer that goes on, alone or as a reader, and lets the readers at    *)
(* the front in.                                                           *)
LEMMA WriterAdmitsReaders ==
  ASSUME RwInv, NEW t \in Tasks, pc[t] = "write", NEW to, HandOver(t, FrontReaders, to),
         activity' = (IF to = "read" THEN 1 ELSE 0) + FrontReaders,
         ~list_empty(wait_list), flags[Head(wait_list)] = "READ"
  PROVE  RwInv'
<1> DEFINE n == FrontReaders
           served == First(wait_list, n)
           self == IF to = "read" THEN {t} ELSE {}
<1>1. Readers = {} /\ Writers = {t} BY HolderKnows
<1>2. /\ n \in 1 .. Len(wait_list) /\ {x \in served : flags[x] = "READ"} = served
      /\ {x \in served : flags[x] = "WRITE"} = {}
      /\ n < Len(wait_list) => flags[wait_list[n + 1]] = "WRITE"
      /\ IsFiniteSet(served) /\ Cardinality(served) = n
  BY FrontReadersServed
<1>3. /\ Readers' = (Readers \ {t}) \cup self \cup {x \in served : flags[x] = "READ"}
      /\ Writers' = (Writers \ {t}) \cup {x \in served : flags[x] = "WRITE"}
  BY HandOverHolders
<1>4. t \notin served BY HandOverWaiters
<1>5. ~list_empty(wait_list') => n < Len(wait_list) /\ flags'[list_first_entry(wait_list')] = flags[wait_list[n + 1]]
  BY NextFront
<1>6. /\ wait_list' \in Seq(Tasks) /\ ungranted' \subseteq Tasks
      /\ flags' \in [Tasks -> {"READ", "WRITE"}] /\ pc' \in [Tasks -> PCs] /\ TaskTypeOK'
      /\ WaitersExact' /\ HolderFlags'
  BY HandOverWaiters
<1>7. activity' = (IF to = "read" THEN 1 ELSE 0) + n /\ Len(wait_list) \in Nat BY DEF RwInv, TypeOK
<1> HIDE DEF n, served
<1>8. n \in Nat /\ n > 0 BY <1>2, <1>7
<1>9. Readers' = served \cup self /\ Writers' = {} BY <1>1, <1>2, <1>3
<1>10. Cardinality(Readers') = activity'
  <2>1. CASE to = "read"
    <3>1. Readers' = served \cup {t} BY <1>9, <2>1
    <3>2. Cardinality(served \cup {t}) = n + 1 BY <1>2, <1>4, FS_AddElement
    <3>3. QED BY <1>7, <1>8, <2>1, <3>1, <3>2
  <2>2. CASE to # "read"
    <3>1. Readers' = served BY <1>9, <2>2
    <3>2. QED BY <1>2, <1>7, <1>8, <2>2, <3>1
  <2>3. QED BY <2>1, <2>2
<1>11. ActivityExact' BY <1>9, <1>10 DEF ActivityExact
<1>12. activity' \in Int /\ activity' > 0 BY <1>7, <1>8
<1>13. FrontMustWait' BY <1>2, <1>5, <1>12 DEF FrontMustWait
<1>14. TypeOK' BY <1>6, <1>12 DEF TypeOK
<1>15. QED BY <1>6, <1>11, <1>13, <1>14 DEF RwInv

(* A writer hands over to whoever is at the front. *)
LEMMA UpWriteStep ==
  ASSUME RwInv, NEW t \in Tasks, __up_write(t)
  PROVE  RwInv'
<1>1. pc[t] = "write" BY DEF __up_write
<1>2. CASE list_empty(wait_list) /\ activity' = 0 /\ HandOver(t, 0, "idle")
  BY <1>1, <1>2, WriterLeavesAlone
<1>3. CASE /\ ~list_empty(wait_list) /\ flags[Head(wait_list)] = "WRITE"
           /\ activity' = -1 /\ HandOver(t, 1, "idle")
  <2>1. Readers = {} /\ Writers = {t} BY <1>1, HolderKnows
  <2>2. First(wait_list, 1) = {Head(wait_list)} BY <1>3, FewServed
  <2>3. /\ Readers' = (Readers \ {t}) \cup (IF "idle" = "read" THEN {t} ELSE {})
                        \cup {x \in First(wait_list, 1) : flags[x] = "READ"}
        /\ Writers' = (Writers \ {t}) \cup {x \in First(wait_list, 1) : flags[x] = "WRITE"}
    BY <1>3, HandOverHolders
  <2>4. Readers' = {} /\ Writers' = {Head(wait_list)} BY <1>3, <2>1, <2>2, <2>3
  <2>5. ActivityExact' BY <1>3, <2>4, FS_Singleton DEF ActivityExact
  <2>6. FrontMustWait' BY <1>3 DEF FrontMustWait
  <2>7. TypeOK' BY <1>3, HandOverWaiters DEF TypeOK
  <2>8. QED BY <1>3, <2>5, <2>6, <2>7, HandOverWaiters DEF RwInv
<1>4. CASE /\ ~list_empty(wait_list) /\ flags[Head(wait_list)] = "READ"
           /\ activity' = FrontReaders /\ HandOver(t, FrontReaders, "idle")
  <2>1. FrontReaders \in Nat BY FrontReadersFacts DEF ReadersAhead, RwInv
  <2>2. activity' = (IF "idle" = "read" THEN 1 ELSE 0) + FrontReaders BY <1>4, <2>1
  <2>3. QED BY <1>1, <1>4, <2>2, WriterAdmitsReaders
<1>5. QED BY <1>2, <1>3, <1>4, ReleaseSteps

(* A writer that becomes a reader lets the readers at the front in. *)
LEMMA DowngradeStep ==
  ASSUME RwInv, NEW t \in Tasks, __downgrade_write(t)
  PROVE  RwInv'
<1>1. pc[t] = "write" BY DEF __downgrade_write
<1>2. CASE /\ list_empty(wait_list) \/ flags[Head(wait_list)] = "WRITE"
           /\ activity' = 1 /\ HandOver(t, 0, "read")
  BY <1>1, <1>2, WriterLeavesAlone
<1>3. CASE /\ ~list_empty(wait_list) /\ flags[Head(wait_list)] = "READ"
           /\ activity' = 1 + FrontReaders /\ HandOver(t, FrontReaders, "read")
  BY <1>1, <1>3, WriterAdmitsReaders
<1>4. QED BY <1>2, <1>3, ReleaseSteps
-------------------------------------------------------------------------------
(* A down that is granted at once. *)
Granted(t, mode) ==
  /\ pc[t] = "idle" /\ mode \in {"READ", "WRITE"}
  /\ flags' = [flags EXCEPT ![t] = mode]
  /\ Goto(t, IF mode = "READ" THEN "read" ELSE "write")
  /\ IF mode = "READ" THEN ReadGrantable /\ activity' = activity + 1
                      ELSE WriteGrantable /\ activity' = -1
  /\ Nobody /\ UNCHANGED sigpend

(* A down that has to wait. *)
Queued(t, mode) ==
  /\ pc[t] = "idle" /\ mode \in {"READ", "WRITE"}
  /\ flags' = [flags EXCEPT ![t] = mode]
  /\ IF mode = "READ" THEN ~ReadGrantable ELSE ~WriteGrantable
  /\ Enqueue(t) /\ UNCHANGED sigpend

LEMMA DownSteps ==
  ASSUME NEW t \in Tasks,
         \/ __down_read(t) \/ __down_read_trylock(t)
         \/ __down_write_nested(t) \/ __down_write_trylock(t)
  PROVE  \E mode \in {"READ", "WRITE"} : Granted(t, mode) \/ Queued(t, mode)
BY DEF __down_read, __down_read_trylock, __down_write_nested, __down_write_trylock, Granted, Queued

(* Who is granted the semaphore at once joins the readers, or is alone. *)
LEMMA GrantedStep ==
  ASSUME RwInv, NEW t \in Tasks, NEW mode, Granted(t, mode)
  PROVE  /\ RwInv'
         /\ Readers' = IF mode = "READ" THEN Readers \cup {t} ELSE Readers
         /\ Writers' = IF mode = "READ" THEN Writers ELSE Writers \cup {t}
         /\ t \notin Readers /\ t \notin Writers
<1> DEFINE to == IF mode = "READ" THEN "read" ELSE "write"
<1>1. /\ TypeOK /\ WaitersExact /\ HolderFlags /\ ActivityExact /\ pc \in [Tasks -> PCs]
      /\ flags \in [Tasks -> {"READ", "WRITE"}] /\ activity \in Int
  BY DEF RwInv, TypeOK
<1>2. /\ pc[t] = "idle" /\ mode \in {"READ", "WRITE"} /\ flags' = [flags EXCEPT ![t] = mode]
      /\ pc' = [pc EXCEPT ![t] = to] /\ wait_list' = wait_list /\ ungranted' = ungranted
      /\ state' = state /\ sigpend' = sigpend /\ list_empty(wait_list)
      /\ mode = "READ" => activity >= 0 /\ activity' = activity + 1
      /\ mode = "WRITE" => activity = 0 /\ activity' = -1
  BY DEF Granted, Goto, Nobody, ReadGrantable, WriteGrantable
<1>3. t \notin ungranted BY <1>1, <1>2 DEF WaitersExact, InWait
<1>4. WaitersExact'
  BY <1>1, <1>2, <1>3 DEF WaitersExact, InWait, schedule_returns, signal_pending_state
<1>5. TypeOK' BY <1>1, <1>2 DEF TypeOK, TaskTypeOK, PCs
<1>6. HolderFlags' BY <1>1, <1>2 DEF HolderFlags
<1>7. ASSUME NEW x \in Tasks, NEW m \in {"READ", "WRITE"}
      PROVE  Holds(x, m)' <=> IF x = t THEN m = mode ELSE Holds(x, m)
  <2>1. Holds(x, m)' <=> flags'[x] = m /\ pc'[x] # "idle" /\ x \notin ungranted'
    BY <1>4, <1>5, HoldsIffNext DEF TypeOK
  <2>2. Holds(x, m) <=> flags[x] = m /\ pc[x] # "idle" /\ x \notin ungranted BY <1>1, HoldsIff
  <2>3. QED BY <1>1, <1>2, <1>3, <2>1, <2>2
<1>8. ~Holds(t, "READ") /\ ~Holds(t, "WRITE") BY <1>1, <1>2, HoldsIff
<1>9. Readers' = IF mode = "READ" THEN Readers \cup {t} ELSE Readers
  BY <1>2, <1>7, <1>8 DEF Readers
<1>10. Writers' = IF mode = "READ" THEN Writers ELSE Writers \cup {t}
  BY <1>2, <1>7, <1>8 DEF Writers
<1>11. t \notin Readers /\ t \notin Writers BY <1>8 DEF Readers, Writers
<1>12. activity = Cardinality(Readers) /\ Writers = {} BY <1>1, <1>2 DEF ActivityExact
<1>13. ActivityExact'
  <2>1. CASE mode = "READ"
    <3>1. Cardinality(Readers \cup {t}) = Cardinality(Readers) + 1
      BY <1>11, HoldersFinite, FS_AddElement
    <3>2. QED BY <1>2, <1>9, <1>10, <1>12, <2>1, <3>1 DEF ActivityExact
  <2>2. CASE mode = "WRITE"
    <3>1. Readers = {} BY <1>2, <1>12, <2>2, HoldersFinite, FS_EmptySet
    <3>2. Writers' = {t} BY <1>10, <1>12, <2>2
    <3>3. QED BY <1>2, <1>9, <2>2, <3>1, <3>2, FS_Singleton DEF ActivityExact
  <2>3. QED BY <1>2, <2>1, <2>2
<1>14. FrontMustWait' BY <1>2 DEF FrontMustWait
<1>15. QED BY <1>4, <1>5, <1>6, <1>9, <1>10, <1>11, <1>13, <1>14 DEF RwInv

(* Who has to wait is last in the queue, and blocked if it is also first. *)
LEMMA QueuedStep ==
  ASSUME RwInv, NEW t \in Tasks, NEW mode, Queued(t, mode)
  PROVE  /\ RwInv' /\ Readers' = Readers /\ Writers' = Writers
         /\ t \notin Readers /\ t \notin Writers /\ t \notin ungranted
<1>1. /\ TypeOK /\ WaitersExact /\ HolderFlags /\ ActivityExact /\ FrontMustWait
      /\ pc \in [Tasks -> PCs] /\ flags \in [Tasks -> {"READ", "WRITE"}] /\ activity \in Int
      /\ activity >= -1 /\ wait_list \in Seq(Tasks) /\ state \in [Tasks -> TaskStates]
  BY DEF RwInv, TypeOK, TaskTypeOK
<1>2. /\ pc[t] = "idle" /\ mode \in {"READ", "WRITE"} /\ flags' = [flags EXCEPT ![t] = mode]
      /\ pc' = [pc EXCEPT ![t] = "wait"] /\ wait_list' = list_add_tail(t, wait_list)
      /\ ungranted' = ungranted \cup {t} /\ sigpend' = sigpend /\ activity' = activity
      /\ state' = [state EXCEPT ![t] = "UNINTERRUPTIBLE"]
      /\ list_empty(wait_list) /\ mode = "READ" => activity < 0
      /\ list_empty(wait_list) /\ mode = "WRITE" => activity # 0
  BY <1>1 DEF Queued, Enqueue, Goto, set_task_state, ReadGrantable, WriteGrantable
<1>3. t \notin ungranted BY <1>1, <1>2 DEF WaitersExact, InWait
<1>4. /\ wait_list' \in Seq(Tasks) /\ Entries(wait_list') = ungranted' /\ NoDuplicates(wait_list')
  BY <1>1, <1>2, <1>3, ListAddTail DEF WaitersExact
<1>5. WaitersExact'
  BY <1>1, <1>2, <1>3, <1>4 DEF WaitersExact, InWait, schedule_returns, signal_pending_state
<1>6. TypeOK' BY <1>1, <1>2, <1>4 DEF TypeOK, TaskTypeOK, PCs, TaskStates, SleepStates
<1>7. HolderFlags' BY <1>1, <1>2 DEF HolderFlags
<1>8. ASSUME NEW x \in Tasks, NEW m \in {"READ", "WRITE"} PROVE Holds(x, m)' <=> Holds(x, m)
  <2>1. Holds(x, m)' <=> flags'[x] = m /\ pc'[x] # "idle" /\ x \notin ungranted'
    BY <1>5, <1>6, HoldsIffNext DEF TypeOK
  <2>2. Holds(x, m) <=> flags[x] = m /\ pc[x] # "idle" /\ x \notin ungranted BY <1>1, HoldsIff
  <2>3. QED BY <1>1, <1>2, <1>3, <2>1, <2>2
<1>9. Readers' = Readers /\ Writers' = Writers BY <1>8 DEF Readers, Writers
<1>10. ~Holds(t, "READ") /\ ~Holds(t, "WRITE") BY <1>1, <1>2, HoldsIff
<1>11. ActivityExact' BY <1>1, <1>2, <1>9 DEF ActivityExact
<1>12. FrontMustWait'
  <2>1. CASE list_empty(wait_list)
    <3>1. Len(wait_list) = 0 BY <2>1 DEF list_empty
    <3>2. Head(Append(wait_list, t)) = t BY <1>1, <3>1
    <3>3. list_first_entry(wait_list') = t BY <1>2, <3>2 DEF list_first_entry, list_add_tail
    <3>4. flags'[t] = mode BY <1>1, <1>2
    <3>5. activity = -1 \/ (activity > 0 /\ mode = "WRITE") BY <1>1, <1>2, <2>1
    <3>6. QED BY <1>2, <3>3, <3>4, <3>5 DEF FrontMustWait
  <2>2. CASE ~list_empty(wait_list)
    <3>1. Len(wait_list) > 0 BY <1>1, <2>2 DEF list_empty
    <3>2. Head(Append(wait_list, t)) = Head(wait_list) BY <1>1, <3>1
    <3>3. Head(wait_list) \in ungranted
      BY <1>1, <2>2, ListEmpty DEF list_first_entry, WaitersExact
    <3>4. flags'[Head(wait_list)] = flags[Head(wait_list)] BY <1>1, <1>2, <1>3, <3>3
    <3>5. QED BY <1>1, <1>2, <2>2, <3>2, <3>4 DEF FrontMustWait, list_first_entry, list_add_tail
  <2>3. QED BY <2>1, <2>2
<1>13. QED BY <1>3, <1>5, <1>6, <1>7, <1>9, <1>10, <1>11, <1>12 DEF RwInv, Readers, Writers

(* The waiting itself, and stray wakeups, change no holder and no queue. *)
LEMMA WaitStep ==
  ASSUME RwInv, NEW t \in Tasks, WaitTest(t) \/ WaitSchedule(t) \/ Stray(t)
  PROVE  RwInv' /\ Readers' = Readers /\ Writers' = Writers
<1>1. /\ TypeOK /\ WaitersExact /\ HolderFlags /\ ActivityExact /\ FrontMustWait
      /\ pc \in [Tasks -> PCs] /\ flags \in [Tasks -> {"READ", "WRITE"}]
      /\ state \in [Tasks -> TaskStates] /\ ungranted \subseteq Tasks
  BY DEF RwInv, TypeOK, TaskTypeOK
<1>2. UNCHANGED <<activity, wait_list, flags, ungranted, sigpend>>
  BY DEF WaitTest, WaitSchedule, Stray, StrayWakeup
<1>3. /\ pc' \in [Tasks -> PCs] /\ state' \in [Tasks -> TaskStates]
      /\ \A x \in Tasks : pc'[x] = "idle" <=> pc[x] = "idle"
  BY <1>1 DEF WaitTest, WaitSchedule, Stray, StrayWakeup, Goto, set_task_state, wake_up_process,
              PCs, TaskStates, SleepStates
<1>4. TypeOK' BY <1>1, <1>2, <1>3 DEF TypeOK, TaskTypeOK
<1>5. HolderFlags'
  BY <1>1, <1>2 DEF HolderFlags, WaitTest, WaitSchedule, Stray, StrayWakeup, Goto
<1>6. WaitersExact'
  <2>1. \A x \in ungranted : InWait(x)'
    BY <1>1, <1>2 DEF WaitersExact, InWait, WaitTest, WaitSchedule, Stray, StrayWakeup, Goto
  <2>2. ASSUME NEW x \in Tasks, pc'[x] = "schedule", x \notin ungranted
        PROVE  schedule_returns(x)'
    <3>1. pc[x] = "schedule" /\ (state'[x] = state[x] \/ state'[x] = "RUNNING")
      BY <1>1, <2>2 DEF WaitTest, WaitSchedule, Stray, StrayWakeup, Goto, set_task_state, wake_up_process
    <3>2. schedule_returns(x) BY <1>1, <2>2, <3>1 DEF WaitersExact
    <3>3. QED BY <1>2, <3>1, <3>2 DEF schedule_returns, signal_pending_state
  <2>3. QED BY <1>1, <1>2, <2>1, <2>2 DEF WaitersExact
<1>7. ASSUME NEW x \in Tasks, NEW m \in {"READ", "WRITE"} PROVE Holds(x, m)' <=> Holds(x, m)
  <2>1. Holds(x, m)' <=> flags'[x] = m /\ pc'[x] # "idle" /\ x \notin ungranted'
    BY <1>3, <1>6, HoldsIffNext
  <2>2. Holds(x, m) <=> flags[x] = m /\ pc[x] # "idle" /\ x \notin ungranted BY <1>1, HoldsIff
  <2>3. QED BY <1>2, <1>3, <2>1, <2>2
<1>8. Readers' = Readers /\ Writers' = Writers BY <1>7 DEF Readers, Writers
<1>9. ActivityExact' BY <1>1, <1>2, <1>8 DEF ActivityExact
<1>10. FrontMustWait' BY <1>1, <1>2 DEF FrontMustWait
<1>11. QED BY <1>4, <1>5, <1>6, <1>8, <1>9, <1>10 DEF RwInv
-------------------------------------------------------------------------------
LEMMA RwInvInit == Init => RwInv
<1> SUFFICES ASSUME Init PROVE RwInv
  OBVIOUS
<1>1. TypeOK
  BY DEF Init, TypeOK, TaskInit, TaskTypeOK, TaskStates, Signals, __init_rwsem, PCs
<1>2. WaitersExact /\ HolderFlags
  BY DEF Init, __init_rwsem, WaitersExact, HolderFlags, NoDuplicates, Entries
<1>3. Readers = {} /\ Writers = {} BY DEF Init, Readers, Writers, Holds, InWait
<1>4. ActivityExact BY <1>3, FS_EmptySet DEF Init, __init_rwsem, ActivityExact
<1>5. FrontMustWait BY DEF Init, __init_rwsem, FrontMustWait, list_empty
<1>6. QED BY <1>1, <1>2, <1>4, <1>5 DEF RwInv

LEMMA RwInvStep == RwInv /\ [Next]_vars => RwInv'
<1> SUFFICES ASSUME RwInv, [Next]_vars PROVE RwInv'
  OBVIOUS
<1>1. CASE UNCHANGED vars
  <2>1. UNCHANGED <<activity, wait_list, flags, ungranted, pc, state, sigpend>>
    BY <1>1 DEF vars, taskVars
  <2>2. TypeOK' /\ HolderFlags' /\ FrontMustWait'
    BY <2>1 DEF RwInv, TypeOK, TaskTypeOK, HolderFlags, FrontMustWait
  <2>3. WaitersExact'
    BY <2>1 DEF RwInv, WaitersExact, InWait, schedule_returns, signal_pending_state
  <2>4. Readers' = Readers /\ Writers' = Writers BY <2>1 DEF Readers, Writers, Holds, InWait
  <2>5. ActivityExact' BY <2>1, <2>4 DEF RwInv, ActivityExact
  <2>6. QED BY <2>2, <2>3, <2>5 DEF RwInv
<1>2. ASSUME NEW t \in Tasks,
             \/ __down_read(t) \/ __down_read_trylock(t)
             \/ __down_write_nested(t) \/ __down_write_trylock(t)
      PROVE  RwInv'
  <2>1. PICK mode \in {"READ", "WRITE"} : Granted(t, mode) \/ Queued(t, mode) BY <1>2, DownSteps
  <2>2. QED BY <2>1, GrantedStep, QueuedStep
<1>3. ASSUME NEW t \in Tasks, WaitTest(t) \/ WaitSchedule(t) \/ Stray(t) PROVE RwInv'
  BY <1>3, WaitStep
<1>4. ASSUME NEW t \in Tasks, __up_read(t) PROVE RwInv' BY <1>4, UpReadStep
<1>5. ASSUME NEW t \in Tasks, __up_write(t) PROVE RwInv' BY <1>5, UpWriteStep
<1>6. ASSUME NEW t \in Tasks, __downgrade_write(t) PROVE RwInv' BY <1>6, DowngradeStep
<1>7. QED BY <1>1, <1>2, <1>3, <1>4, <1>5, <1>6 DEF Next, Step

LEMMA RwInvariant == Spec => []RwInv
BY RwInvInit, RwInvStep, PTL DEF Spec

(* Every variable of lib/rwsem-spinlock.c keeps its type; activity is      *)
(* never below -1, so no release is counted twice.                         *)
THEOREM RwSpinlockTypeCorrect == Spec => []TypeOK
<1>1. RwInv => TypeOK BY DEF RwInv
<1>2. QED BY <1>1, RwInvariant, PTL

(* activity counts the readers exactly, or is -1 for exactly one writer,   *)
(* whatever down, up, trylock and downgrade do: a writer excludes all      *)
(* others and no reader is lost.                                           *)
THEOREM RwSpinlockExclusion == Spec => []ActivityExact
<1>1. RwInv => ActivityExact BY DEF RwInv
<1>2. QED BY <1>1, RwInvariant, PTL

(* The first waiter is one that has to wait: no wakeup is lost, and        *)
(* __up_read() finds a writer at the front without looking.                *)
THEOREM RwSpinlockNoLostWakeup == Spec => []FrontMustWait
<1>1. RwInv => FrontMustWait BY DEF RwInv
<1>2. QED BY <1>1, RwInvariant, PTL

(* The queue links the live waiters and no others, once each, and a waiter *)
(* that was let go is awake.                                               *)
THEOREM RwSpinlockWaiters == Spec => []WaitersExact
<1>1. RwInv => WaitersExact BY DEF RwInv
<1>2. QED BY <1>1, RwInvariant, PTL
-------------------------------------------------------------------------------
(* The queue of the abstract lock. *)
Queue == [i \in 1 .. Len(wait_list) |-> <<wait_list[i], flags[wait_list[i]]>>]
Waiting == Tasks \X {"READ", "WRITE"}

LEMMA QueueFacts ==
  ASSUME TypeOK
  PROVE  /\ Queue \in Seq(Waiting) /\ Len(Queue) = Len(wait_list) /\ Len(wait_list) \in Nat
         /\ \A i \in 1 .. Len(wait_list) :
              Queue[i] = <<wait_list[i], flags[wait_list[i]]>> /\ Queue[i] \in Waiting
<1>1. Len(wait_list) \in Nat BY DEF TypeOK
<1>2. \A i \in 1 .. Len(wait_list) :
        Queue[i] = <<wait_list[i], flags[wait_list[i]]>> /\ Queue[i] \in Waiting
  BY DEF TypeOK, Queue, Waiting
<1>3. Queue \in [1 .. Len(wait_list) -> Waiting] BY <1>2 DEF Queue
<1>4. QED BY <1>1, <1>2, <1>3

(* The waiters of one mode among the first n of queue q. *)
Ahead(q, n, mode) == {q[i][1] : i \in {j \in 1 .. n : q[j][2] = mode}}

(* Both count the readers ahead of the first writer. *)
LEMMA LeadingIsFront ==
  ASSUME TypeOK
  PROVE  Lock!LeadingReaders(Queue) = FrontReaders
<1> DEFINE P(n) == /\ n \in 0 .. Len(Queue)
                   /\ \A i \in 1 .. n : Queue[i][2] = "READ"
                   /\ n < Len(Queue) => Queue[n + 1][2] # "READ"
<1>1. /\ Len(Queue) = Len(wait_list) /\ Len(wait_list) \in Nat
      /\ \A i \in 1 .. Len(wait_list) :
           Queue[i][2] = flags[wait_list[i]] /\ flags[wait_list[i]] \in {"READ", "WRITE"}
  <2>1. \A i \in 1 .. Len(wait_list) : flags[wait_list[i]] \in {"READ", "WRITE"} BY DEF TypeOK
  <2>2. QED BY <2>1, QueueFacts
<1>2. ASSUME NEW n PROVE P(n) <=> ReadersAhead(n)
  <2>1. CASE n \in 0 .. Len(wait_list)
    <3>1. \A i \in 1 .. n : i \in 1 .. Len(wait_list) BY <1>1, <2>1
    <3>2. n < Len(wait_list) => n + 1 \in 1 .. Len(wait_list) BY <1>1, <2>1
    <3>3. QED BY <1>1, <2>1, <3>1, <3>2 DEF ReadersAhead
  <2>2. CASE n \notin 0 .. Len(wait_list) BY <1>1, <2>2 DEF ReadersAhead
  <2>3. QED BY <2>1, <2>2
<1>3. P(FrontReaders) BY <1>2, FrontReadersFacts
<1>4. Lock!LeadingReaders(Queue) = CHOOSE n \in 0 .. Len(Queue) :
                                     /\ \A i \in 1 .. n : Queue[i][2] = "READ"
                                     /\ n < Len(Queue) => Queue[n + 1][2] # "READ"
  BY DEF Lock!LeadingReaders
<1>5. P(Lock!LeadingReaders(Queue))
  <2>1. \E n \in 0 .. Len(Queue) : /\ \A i \in 1 .. n : Queue[i][2] = "READ"
                                   /\ n < Len(Queue) => Queue[n + 1][2] # "READ"
    BY <1>3
  <2>2. QED BY <1>4, <2>1
<1>6. QED BY <1>2, <1>5, FrontReadersFacts

(* What is left of the queue, and who of it is in. *)
LEMMA HandOverQueue ==
  ASSUME RwInv, NEW t \in Tasks, NEW n, NEW to, HandOver(t, n, to)
  PROVE  /\ Queue' = SubSeq(Queue, n + 1, Len(Queue))
         /\ Ahead(Queue, n, "READ") = {x \in First(wait_list, n) : flags[x] = "READ"}
         /\ Ahead(Queue, n, "WRITE") = {x \in First(wait_list, n) : flags[x] = "WRITE"}
<1>1. /\ TypeOK /\ WaitersExact /\ n \in 0 .. Len(wait_list) /\ wait_list \in Seq(Tasks)
      /\ wait_list' = Drop(wait_list, n)
  BY DEF RwInv, HandOver, TypeOK, LetGo, Drop
<1>2. /\ Queue \in Seq(Waiting) /\ Len(Queue) = Len(wait_list) /\ Len(wait_list) \in Nat
      /\ \A i \in 1 .. Len(wait_list) :
           Queue[i] = <<wait_list[i], flags[wait_list[i]]>> /\ Queue[i] \in Waiting
  BY <1>1, QueueFacts
<1>3. ASSUME NEW mode PROVE Ahead(Queue, n, mode) = {x \in First(wait_list, n) : flags[x] = mode}
  <2>1. \A i \in 1 .. n : /\ Queue[i][1] = wait_list[i]
                          /\ Queue[i][2] = flags[wait_list[i]]
    BY <1>1, <1>2
  <2>2. QED BY <2>1 DEF Ahead, First
<1>4. Queue' = SubSeq(Queue, n + 1, Len(Queue))
  <2> DEFINE q == SubSeq(Queue, n + 1, Len(Queue))
  <2>1. /\ Len(wait_list') = Len(wait_list) - n
        /\ \A j \in 1 .. (Len(wait_list) - n) : wait_list'[j] = wait_list[n + j]
    BY <1>1, DropSeq
  <2>2. /\ q \in Seq(Waiting) /\ Len(q) = Len(wait_list) - n
        /\ \A j \in 1 .. (Len(wait_list) - n) : q[j] = Queue[n + j]
    BY <1>1, <1>2
  <2> HIDE DEF q
  <2>3. \A j \in 1 .. (Len(wait_list) - n) :
          n + j \in 1 .. Len(wait_list) /\ wait_list[n + j] \in ungranted
    BY <1>1, <1>2 DEF WaitersExact, Entries
  <2>4. \A x \in ungranted : flags'[x] = flags[x] BY HandOverWaiters
  <2>5. ASSUME NEW j \in 1 .. (Len(wait_list) - n)
        PROVE  <<wait_list'[j], flags'[wait_list'[j]]>> = q[j]
    BY <1>2, <2>1, <2>2, <2>3, <2>4
  <2>6. Queue' = [j \in 1 .. (Len(wait_list) - n) |-> <<wait_list'[j], flags'[wait_list'[j]]>>]
    BY <2>1 DEF Queue
  <2>7. q = [j \in 1 .. (Len(wait_list) - n) |-> q[j]] BY <2>2
  <2>8. QED BY <2>5, <2>6, <2>7 DEF q
<1>5. QED BY <1>3, <1>4

(* The release of a holder, or its downgrade, lets in who can be let in. *)
LEMMA ReleaseSettles ==
  ASSUME RwInv, NEW t \in Tasks, NEW n, HandOver(t, n, "idle"),
         n = Lock!Admissible(Readers \ {t}, Writers \ {t}, Queue)
  PROVE  Lock!Settle(Readers \ {t}, Writers \ {t}, Queue)
<1>1. Queue' = SubSeq(Queue, n + 1, Len(Queue)) BY HandOverQueue
<1>2. Readers' = (Readers \ {t}) \cup Ahead(Queue, n, "READ") BY HandOverQueue, HandOverHolders
<1>3. Writers' = (Writers \ {t}) \cup Ahead(Queue, n, "WRITE") BY HandOverQueue, HandOverHolders
<1>4. QED BY <1>1, <1>2, <1>3 DEF Lock!Settle, Ahead, Queue

LEMMA DowngradeSettles ==
  ASSUME RwInv, NEW t \in Tasks, NEW n, HandOver(t, n, "read"),
         n = Lock!Admissible(Readers \cup {t}, Writers \ {t}, Queue)
  PROVE  Lock!Settle(Readers \cup {t}, Writers \ {t}, Queue)
<1>1. Queue' = SubSeq(Queue, n + 1, Len(Queue)) BY HandOverQueue
<1>2. Readers' = (Readers \cup {t}) \cup Ahead(Queue, n, "READ") BY HandOverQueue, HandOverHolders
<1>3. Writers' = (Writers \ {t}) \cup Ahead(Queue, n, "WRITE") BY HandOverQueue, HandOverHolders
<1>4. QED BY <1>1, <1>2, <1>3 DEF Lock!Settle, Ahead, Queue

(* How many of the queue the abstract lock lets in beside no writer. *)
LEMMA AdmissibleCases ==
  ASSUME RwInv, NEW r, NEW w, w = {}
  PROVE  /\ list_empty(wait_list) => Lock!Admissible(r, w, Queue) = 0
         /\ ~list_empty(wait_list) /\ flags[Head(wait_list)] = "READ"
              => Lock!Admissible(r, w, Queue) = FrontReaders
         /\ ~list_empty(wait_list) /\ flags[Head(wait_list)] = "WRITE"
              => Lock!Admissible(r, w, Queue) = IF r = {} THEN 1 ELSE 0
<1>1. TypeOK /\ wait_list \in Seq(Tasks) /\ Len(wait_list) \in Nat BY DEF RwInv, TypeOK
<1>2. /\ Len(Queue) = Len(wait_list)
      /\ \A i \in 1 .. Len(wait_list) : Queue[i] = <<wait_list[i], flags[wait_list[i]]>>
  BY <1>1, QueueFacts
<1>3. list_empty(wait_list) <=> Len(Queue) = 0 BY <1>2 DEF list_empty
<1>4. ~list_empty(wait_list) => Queue[1][2] = flags[Head(wait_list)]
  <2> SUFFICES ASSUME ~list_empty(wait_list) PROVE Queue[1][2] = flags[Head(wait_list)]
    OBVIOUS
  <2>1. 1 \in 1 .. Len(wait_list) /\ Head(wait_list) = wait_list[1] BY <1>1 DEF list_empty
  <2>2. QED BY <1>2, <2>1
<1>5. Lock!LeadingReaders(Queue) = FrontReaders BY <1>1, LeadingIsFront
<1>6. QED BY <1>3, <1>4, <1>5 DEF Lock!Admissible

(* Each release and downgrade is one of the abstract lock's. *)
LEMMA UpReadReleases ==
  ASSUME RwInv, NEW t \in Tasks, __up_read(t)
  PROVE  Lock!Release(t)
<1>1. /\ t \in Readers /\ Writers = {} /\ activity = Cardinality(Readers) /\ activity > 0
      /\ activity = 1 => Readers = {t}
  BY HolderKnows DEF __up_read
<1>2. activity # 1 => Readers \ {t} # {} BY <1>1, FS_Singleton
<1>3. ~list_empty(wait_list) => flags[Head(wait_list)] = "WRITE"
  BY <1>1 DEF RwInv, FrontMustWait, list_first_entry
<1>4. Writers \ {t} = {} BY <1>1
<1>5. CASE activity = 1 /\ ~list_empty(wait_list) /\ HandOver(t, 1, "idle")
  <2>1. Lock!Admissible(Readers \ {t}, Writers \ {t}, Queue) = 1
    BY <1>1, <1>3, <1>4, <1>5, AdmissibleCases
  <2>2. QED BY <1>1, <1>5, <2>1, ReleaseSettles DEF Lock!Release, Queue
<1>6. CASE (list_empty(wait_list) \/ activity # 1) /\ HandOver(t, 0, "idle")
  <2>1. Lock!Admissible(Readers \ {t}, Writers \ {t}, Queue) = 0
    BY <1>2, <1>3, <1>4, <1>6, AdmissibleCases
  <2>2. QED BY <1>1, <1>6, <2>1, ReleaseSettles DEF Lock!Release, Queue
<1>7. QED BY <1>5, <1>6, ReleaseSteps

LEMMA UpWriteReleases ==
  ASSUME RwInv, NEW t \in Tasks, __up_write(t)
  PROVE  Lock!Release(t)
<1>1. Readers \ {t} = {} /\ Writers \ {t} = {} /\ t \in Writers
  BY HolderKnows DEF __up_write
<1>2. CASE list_empty(wait_list) /\ HandOver(t, 0, "idle")
  <2>1. Lock!Admissible(Readers \ {t}, Writers \ {t}, Queue) = 0 BY <1>1, <1>2, AdmissibleCases
  <2>2. QED BY <1>1, <1>2, <2>1, ReleaseSettles DEF Lock!Release, Queue
<1>3. CASE /\ ~list_empty(wait_list) /\ flags[Head(wait_list)] = "WRITE"
           /\ HandOver(t, 1, "idle")
  <2>1. Lock!Admissible(Readers \ {t}, Writers \ {t}, Queue) = 1 BY <1>1, <1>3, AdmissibleCases
  <2>2. QED BY <1>1, <1>3, <2>1, ReleaseSettles DEF Lock!Release, Queue
<1>4. CASE /\ ~list_empty(wait_list) /\ flags[Head(wait_list)] = "READ"
           /\ HandOver(t, FrontReaders, "idle")
  <2>1. Lock!Admissible(Readers \ {t}, Writers \ {t}, Queue) = FrontReaders BY <1>1, <1>4, AdmissibleCases
  <2>2. QED BY <1>1, <1>4, <2>1, ReleaseSettles DEF Lock!Release, Queue
<1>5. QED BY <1>2, <1>3, <1>4, ReleaseSteps

LEMMA DowngradeIsDowngrade ==
  ASSUME RwInv, NEW t \in Tasks, __downgrade_write(t)
  PROVE  Lock!Downgrade(t)
<1>1. Readers \cup {t} # {} /\ Writers \ {t} = {} /\ t \in Writers
  BY HolderKnows DEF __downgrade_write
<1>2. CASE /\ list_empty(wait_list) \/ flags[Head(wait_list)] = "WRITE"
           /\ HandOver(t, 0, "read")
  <2>1. Lock!Admissible(Readers \cup {t}, Writers \ {t}, Queue) = 0 BY <1>1, <1>2, AdmissibleCases
  <2>2. QED BY <1>1, <1>2, <2>1, DowngradeSettles DEF Lock!Downgrade, Queue
<1>3. CASE /\ ~list_empty(wait_list) /\ flags[Head(wait_list)] = "READ"
           /\ HandOver(t, FrontReaders, "read")
  <2>1. Lock!Admissible(Readers \cup {t}, Writers \ {t}, Queue) = FrontReaders BY <1>1, <1>3, AdmissibleCases
  <2>2. QED BY <1>1, <1>3, <2>1, DowngradeSettles DEF Lock!Downgrade, Queue
<1>4. QED BY <1>2, <1>3, ReleaseSteps

(* A down is a request of the abstract lock: granted at once ... *)
LEMMA GrantedIsRequest ==
  ASSUME RwInv, NEW t \in Tasks, NEW mode \in {"READ", "WRITE"}, Granted(t, mode)
  PROVE  Lock!Request(t, mode)
<1> DEFINE q == Append(Queue, <<t, mode>>)
<1>1. /\ TypeOK /\ ActivityExact /\ wait_list \in Seq(Tasks) /\ list_empty(wait_list)
      /\ wait_list' = wait_list /\ activity >= 0 /\ activity \in Int
      /\ mode = "WRITE" => activity = 0
  BY DEF RwInv, TypeOK, Granted, ReadGrantable, WriteGrantable, Nobody
<1>2. Queue \in Seq(Waiting) /\ Len(Queue) = 0 BY <1>1, QueueFacts DEF list_empty
<1>3. Writers = {} /\ activity = Cardinality(Readers) BY <1>1 DEF ActivityExact
<1>4. mode = "WRITE" => Readers = {} BY <1>1, <1>3, HoldersFinite, FS_EmptySet
<1>5. q \in Seq(Waiting) /\ Len(q) = 1 /\ q[1] = <<t, mode>> BY <1>2 DEF Waiting
<1>6. /\ Readers' = IF mode = "READ" THEN Readers \cup {t} ELSE Readers
      /\ Writers' = IF mode = "READ" THEN Writers ELSE Writers \cup {t}
      /\ t \notin Readers /\ t \notin Writers
  BY GrantedStep
<1>7. Queue' = << >>
  <2>1. Queue' = [i \in 1 .. 0 |-> <<wait_list'[i], flags'[wait_list'[i]]>>]
    BY <1>1 DEF Queue, list_empty
  <2>2. QED BY <2>1
<1> HIDE DEF q
<1>8. Lock!LeadingReaders(q) = IF mode = "READ" THEN 1 ELSE 0
  <2>1. q[1][2] = mode /\ Len(q) = 1 /\ 0 .. 1 = {0, 1} BY <1>5
  <2>2. CASE mode = "READ" BY <2>1, <2>2 DEF Lock!LeadingReaders
  <2>3. CASE mode = "WRITE" BY <2>1, <2>3 DEF Lock!LeadingReaders
  <2>4. QED BY <2>2, <2>3
<1>9. Lock!Admissible(Readers, Writers, q) = 1
  <2>1. q[1][2] = mode BY <1>5
  <2>2. CASE mode = "READ" BY <1>3, <1>5, <1>8, <2>1, <2>2 DEF Lock!Admissible
  <2>3. CASE mode = "WRITE" BY <1>3, <1>4, <1>5, <2>1, <2>3 DEF Lock!Admissible
  <2>4. QED BY <2>2, <2>3
<1>10. SubSeq(q, 1 + 1, Len(q)) = << >> BY <1>5, SubSeqEmpty
<1>11. /\ Ahead(q, 1, "READ") = IF mode = "READ" THEN {t} ELSE {}
       /\ Ahead(q, 1, "WRITE") = IF mode = "READ" THEN {} ELSE {t}
  <2>1. q[1][1] = t /\ q[1][2] = mode /\ 1 .. 1 = {1} BY <1>5
  <2>2. QED BY <2>1 DEF Ahead
<1>12. /\ Readers' = Readers \cup Ahead(q, 1, "READ")
       /\ Writers' = Writers \cup Ahead(q, 1, "WRITE")
       /\ Queue' = SubSeq(q, 1 + 1, Len(q))
  BY <1>6, <1>7, <1>10, <1>11
<1>13. Lock!Settle(Readers, Writers, q) BY <1>9, <1>12 DEF Lock!Settle, Ahead, Queue
<1>14. Lock!Outside(t) BY <1>2, <1>6 DEF Lock!Outside, Queue
<1>15. QED BY <1>13, <1>14 DEF Lock!Request, q, Queue

(* ... or queued behind those that cannot be let in. *)
LEMMA QueuedIsRequest ==
  ASSUME RwInv, NEW t \in Tasks, NEW mode \in {"READ", "WRITE"}, Queued(t, mode)
  PROVE  Lock!Request(t, mode)
<1> DEFINE q == Append(Queue, <<t, mode>>)
<1>1. /\ TypeOK /\ ActivityExact /\ WaitersExact /\ FrontMustWait /\ wait_list \in Seq(Tasks)
      /\ wait_list' = Append(wait_list, t) /\ activity \in Int /\ activity >= -1
      /\ flags' = [flags EXCEPT ![t] = mode] /\ flags \in [Tasks -> {"READ", "WRITE"}]
      /\ IF mode = "READ" THEN ~ReadGrantable ELSE ~WriteGrantable
  BY DEF RwInv, TypeOK, Queued, Enqueue, list_add_tail
<1>2. /\ Queue \in Seq(Waiting) /\ Len(Queue) = Len(wait_list) /\ Len(wait_list) \in Nat
      /\ \A i \in 1 .. Len(wait_list) : Queue[i] = <<wait_list[i], flags[wait_list[i]]>>
  BY <1>1, QueueFacts
<1>3. /\ Readers' = Readers /\ Writers' = Writers
      /\ t \notin Readers /\ t \notin Writers /\ t \notin ungranted
  BY QueuedStep
<1>4. \A i \in 1 .. Len(wait_list) : wait_list[i] \in ungranted /\ wait_list[i] # t
  BY <1>1, <1>3 DEF WaitersExact, Entries
<1>5. /\ q \in Seq(Waiting) /\ Len(q) = Len(wait_list) + 1 /\ q[Len(wait_list) + 1] = <<t, mode>>
      /\ \A i \in 1 .. Len(wait_list) : q[i] = Queue[i]
  BY <1>2 DEF Waiting
<1> HIDE DEF q
<1>6. Queue' = q
  <2>1. Len(wait_list') = Len(wait_list) + 1 BY <1>1
  <2>2. Queue' = [i \in 1 .. Len(wait_list) + 1 |-> <<wait_list'[i], flags'[wait_list'[i]]>>]
    BY <2>1 DEF Queue
  <2>3. ASSUME NEW i \in 1 .. Len(wait_list) + 1
        PROVE  <<wait_list'[i], flags'[wait_list'[i]]>> = q[i]
    <3>1. CASE i = Len(wait_list) + 1
      <4>1. wait_list'[i] = t BY <1>1, <3>1
      <4>2. QED BY <1>1, <1>5, <3>1, <4>1
    <3>2. CASE i # Len(wait_list) + 1
      <4>1. i \in 1 .. Len(wait_list) BY <1>2, <3>2
      <4>2. wait_list'[i] = wait_list[i] BY <1>1, <4>1
      <4>3. wait_list[i] \in Tasks /\ wait_list[i] # t BY <1>1, <1>4, <4>1
      <4>4. flags'[wait_list[i]] = flags[wait_list[i]] BY <1>1, <4>3
      <4>5. QED BY <1>2, <1>5, <4>1, <4>2, <4>4
    <3>3. QED BY <3>1, <3>2
  <2>4. q = [i \in 1 .. Len(wait_list) + 1 |-> q[i]] BY <1>2, <1>5
  <2>5. QED BY <2>2, <2>3, <2>4
<1>7. Lock!Admissible(Readers, Writers, q) = 0
  <2>1. activity = -1 => Writers # {}
    BY <1>1, FS_EmptySet, HoldersFinite DEF ActivityExact
  <2>2. activity > 0 => Readers # {}
    BY <1>1, FS_EmptySet, HoldersFinite DEF ActivityExact
  <2>3. activity = -1 \/ (activity > 0 /\ q[1][2] = "WRITE")
    <3>1. CASE list_empty(wait_list)
      <4>1. q[1][2] = mode BY <1>5, <3>1 DEF list_empty
      <4>2. QED BY <1>1, <3>1, <4>1 DEF ReadGrantable, WriteGrantable
    <3>2. CASE ~list_empty(wait_list)
      <4>1. 1 \in 1 .. Len(wait_list) /\ list_first_entry(wait_list) = wait_list[1]
        BY <1>1, <1>2, <3>2 DEF list_empty, list_first_entry
      <4>2. q[1][2] = flags[list_first_entry(wait_list)] BY <1>2, <1>5, <4>1
      <4>3. QED BY <1>1, <3>2, <4>2 DEF FrontMustWait
    <3>3. QED BY <3>1, <3>2
  <2>4. QED BY <2>1, <2>2, <2>3 DEF Lock!Admissible
<1>8. SubSeq(q, 0 + 1, Len(q)) = q
  <2> DEFINE p == SubSeq(q, 0 + 1, Len(q))
  <2>1. /\ p \in Seq(Waiting) /\ Len(p) = Len(q) /\ \A i \in 1 .. Len(q) : p[i] = q[i]
    BY <1>2, <1>5
  <2> HIDE DEF p
  <2>2. p = q BY <1>5, <2>1, SeqEqual
  <2>3. QED BY <2>2 DEF p
<1>9. Ahead(q, 0, "READ") = {} /\ Ahead(q, 0, "WRITE") = {}
  <2>1. 1 .. 0 = {} OBVIOUS
  <2>2. QED BY <2>1 DEF Ahead
<1>10. /\ Readers' = Readers \cup Ahead(q, 0, "READ")
       /\ Writers' = Writers \cup Ahead(q, 0, "WRITE")
       /\ Queue' = SubSeq(q, 0 + 1, Len(q))
  BY <1>3, <1>6, <1>8, <1>9
<1>11. Lock!Settle(Readers, Writers, q) BY <1>7, <1>10 DEF Lock!Settle, Ahead, Queue
<1>12. Lock!Outside(t)
  <2>1. \A i \in 1 .. Len(Queue) : Queue[i][1] # t BY <1>2, <1>4
  <2>2. QED BY <1>3, <2>1 DEF Lock!Outside, Queue
<1>13. QED BY <1>11, <1>12 DEF Lock!Request, q, Queue

(* lib/rwsem-spinlock.c is a fair reader/writer lock: each down, up and    *)
(* downgrade lets in exactly those at the front of one queue who are       *)
(* compatible with the holders, and waiting and stray wakeups change       *)
(* nothing.                                                                *)
THEOREM RwSpinlockIsFair == Spec => IsFairLock
<1>1. Init => Lock!Init
  <2> SUFFICES ASSUME Init PROVE Lock!Init
    OBVIOUS
  <2>1. Readers = {} /\ Writers = {} BY DEF Init, Readers, Writers, Holds, InWait
  <2>2. Queue = << >> BY DEF Init, __init_rwsem, Queue
  <2>3. QED BY <2>1, <2>2 DEF Lock!Init, Queue
<1>2. RwInv /\ [Next]_vars => [Lock!Next]_(Lock!lockVars)
  <2> SUFFICES ASSUME RwInv, [Next]_vars PROVE Lock!Next \/ UNCHANGED Lock!lockVars
    OBVIOUS
  <2>1. ASSUME Readers' = Readers, Writers' = Writers, wait_list' = wait_list, flags' = flags
        PROVE  UNCHANGED Lock!lockVars
    BY <2>1 DEF Lock!lockVars
  <2>2. CASE UNCHANGED vars
    <3>1. Readers' = Readers /\ Writers' = Writers BY <2>2 DEF vars, Readers, Writers, Holds, InWait
    <3>2. QED BY <2>1, <2>2, <3>1 DEF vars
  <2>3. ASSUME NEW t \in Tasks,
               \/ __down_read(t) \/ __down_read_trylock(t)
               \/ __down_write_nested(t) \/ __down_write_trylock(t)
        PROVE  Lock!Next
    <3>1. PICK mode \in {"READ", "WRITE"} : Granted(t, mode) \/ Queued(t, mode) BY <2>3, DownSteps
    <3>2. Lock!Request(t, mode) BY <3>1, GrantedIsRequest, QueuedIsRequest
    <3>3. QED BY <3>2 DEF Lock!Next
  <2>4. ASSUME NEW t \in Tasks, WaitTest(t) \/ WaitSchedule(t) \/ Stray(t)
        PROVE  UNCHANGED Lock!lockVars
    <3>1. wait_list' = wait_list /\ flags' = flags BY <2>4 DEF WaitTest, WaitSchedule, Stray
    <3>2. QED BY <2>1, <2>4, <3>1, WaitStep
  <2>5. ASSUME NEW t \in Tasks, __up_read(t) \/ __up_write(t) PROVE Lock!Next
    <3>1. Lock!Release(t) BY <2>5, UpReadReleases, UpWriteReleases
    <3>2. QED BY <3>1 DEF Lock!Next
  <2>6. ASSUME NEW t \in Tasks, __downgrade_write(t) PROVE Lock!Next
    <3>1. Lock!Downgrade(t) BY <2>6, DowngradeIsDowngrade
    <3>2. QED BY <3>1 DEF Lock!Next
  <2>7. QED BY <2>2, <2>3, <2>4, <2>5, <2>6 DEF Next, Step
<1>3. QED BY <1>1, <1>2, RwInvariant, PTL DEF Spec, IsFairLock, Lock!Spec
===============================================================================
