----------------------------- MODULE BoundedQueue ------------------------------
(***************************************************************************)
(* What a FIFO of bytes promises to one writer and one reader: put() takes *)
(* as many bytes as there was room for when it was called, get() returns   *)
(* as many as there were when it was called, the oldest first, and neither *)
(* sees anything of the other but its result.                              *)
(***************************************************************************)
EXTENDS Naturals, Sequences, FiniteSetsExt

CONSTANTS
  Values,   \* the bytes
  Size,     \* the room in the queue
  MaxLen    \* bound on what a caller asks for

VARIABLES
  queue,    \* the bytes in the queue, oldest first
  putting,  \* the calls of put() in progress: none, or the bytes it takes
  getting,  \* the calls of get() in progress: none, or how many it returns
  result    \* what the last get() returned

bqVars == <<queue, putting, getting, result>>

Init ==
  /\ queue = << >>
  /\ putting = {} /\ getting = {}
  /\ result = << >>

BeginPut(data) ==
  /\ putting = {}
  /\ putting' = {SubSeq(data, 1, Min({Len(data), Size - Len(queue)}))}
  /\ UNCHANGED <<queue, getting, result>>

EndPut ==
  /\ \E bytes \in putting : queue' = queue \o bytes
  /\ putting' = {}
  /\ UNCHANGED <<getting, result>>

BeginGet(len) ==
  /\ getting = {}
  /\ getting' = {Min({len, Len(queue)})}
  /\ result' = << >>
  /\ UNCHANGED <<queue, putting>>

EndGet ==
  /\ \E n \in getting : /\ result' = SubSeq(queue, 1, n)
                        /\ queue' = SubSeq(queue, n + 1, Len(queue))
  /\ getting' = {}
  /\ UNCHANGED putting

(* Everything is thrown away, between calls. *)
Reset ==
  /\ putting = {} /\ getting = {}
  /\ queue' = << >>
  /\ UNCHANGED <<putting, getting, result>>

Next ==
  \/ \E len \in 0 .. MaxLen : \E data \in [1 .. len -> Values] : BeginPut(data)
  \/ EndPut
  \/ \E len \in 0 .. MaxLen : BeginGet(len)
  \/ EndGet
  \/ Reset

Spec == Init /\ [][Next]_bqVars
===============================================================================
