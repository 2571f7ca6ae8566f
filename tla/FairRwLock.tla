------------------------------- MODULE FairRwLock -------------------------------
(***************************************************************************)
(* What a fair reader/writer semaphore promises: one queue for readers and *)
(* writers, and whenever something changes, whoever has come to the front  *)
(* and is compatible with the holders is let in at once: a writer alone,   *)
(* readers together up to the next writer.                                 *)
(***************************************************************************)
EXTENDS Naturals, Sequences

CONSTANT Tasks

VARIABLES
  reading,  \* the tasks that have the semaphore as readers
  writing,  \* the tasks that have it as writers
  queue     \* <<task, mode>> of the others that want it, oldest first

lockVars == <<reading, writing, queue>>

Init == reading = {} /\ writing = {} /\ queue = << >>

(* The number of readers ahead of the first writer. *)
LeadingReaders(q) ==
  CHOOSE n \in 0 .. Len(q) :
    /\ \A i \in 1 .. n : q[i][2] = "READ"
    /\ n < Len(q) => q[n + 1][2] # "READ"

(* How many of queue q can be let in beside readers r and writers w. *)
Admissible(r, w, q) ==
  IF Len(q) = 0 \/ w # {} THEN 0
  ELSE IF q[1][2] = "READ" THEN LeadingReaders(q)
  ELSE IF r = {} THEN 1 ELSE 0

(* Let in all that can be let in. *)
Settle(r, w, q) ==
  LET n == Admissible(r, w, q)
      in(mode) == {q[i][1] : i \in {j \in 1 .. n : q[j][2] = mode}}
  IN /\ reading' = r \cup in("READ")
     /\ writing' = w \cup in("WRITE")
     /\ queue' = SubSeq(q, n + 1, Len(q))

Outside(t) ==
  t \notin reading \cup writing /\ \A i \in 1 .. Len(queue) : queue[i][1] # t

Request(t, mode) == Outside(t) /\ Settle(reading, writing, Append(queue, <<t, mode>>))

Release(t) ==
  /\ t \in reading \cup writing
  /\ Settle(reading \ {t}, writing \ {t}, queue)

Downgrade(t) ==
  /\ t \in writing
  /\ Settle(reading \cup {t}, writing \ {t}, queue)

Next ==
  \E t \in Tasks :
    Request(t, "READ") \/ Request(t, "WRITE") \/ Release(t) \/ Downgrade(t)

Spec == Init /\ [][Next]_lockVars
===============================================================================
