--------------------------------- MODULE KFifo ---------------------------------
(***************************************************************************)
(* The kernel's byte FIFO: kernel/kfifo.c and include/linux/kfifo.h.       *)
(*                                                                         *)
(* Two kinds of user: any number of callers of kfifo_put(), kfifo_get()    *)
(* and kfifo_reset(), which take fifo->lock, and one writer and one reader *)
(* that call __kfifo_put() and __kfifo_get() with no lock at all.  Under   *)
(* the lock at most one call of each kind is in progress, so one writer    *)
(* and one reader stand for all callers in both cases.                     *)
(*                                                                         *)
(* Each byte is copied in a step of its own.  The barriers of the code     *)
(* order the sampling of the other side's index, the copying and the       *)
(* update of the own index, so these are steps in this order.              *)
(***************************************************************************)
EXTENDS Integers, Sequences, FiniteSetsExt

CONSTANTS
  Values,      \* the bytes
  Size,        \* fifo->size
  UINT_RANGE,  \* the number of values of an unsigned int
  MaxLen       \* bound on the len of put and get

(* kfifo_init() insists on a power of two.  What matters is that it        *)
(* divides the range of the indices, and that they tell a full buffer from *)
(* an empty one.                                                           *)
ASSUME KFifoAssumption ==
  /\ Size \in Nat \ {0} /\ UINT_RANGE \in Nat /\ MaxLen \in Nat
  /\ \E k \in 2 .. UINT_RANGE : UINT_RANGE = k * Size

VARIABLES
  in, out, buffer,
  locked,   \* do the callers use the functions that take fifo->lock?
  wpc, wdata, wlen, wpos,   \* __kfifo_put(): buffer, len, bytes copied
  rpc, rlen, rbuf           \* __kfifo_get(): len, the bytes copied so far

fifoVars   == <<in, out, buffer>>
writerVars == <<wpc, wdata, wlen, wpos>>
readerVars == <<rpc, rlen, rbuf>>
vars == <<in, out, buffer, locked, wpc, wdata, wlen, wpos, rpc, rlen, rbuf>>

Index == 0 .. UINT_RANGE - 1

uint(n) == n % UINT_RANGE
Masked(n) == n % Size   \* n & (fifo->size - 1)

Lens == 0 .. MaxLen

TypeOK ==
  /\ in \in Index /\ out \in Index
  /\ buffer \in [0 .. Size - 1 -> Values]
  /\ locked \in BOOLEAN
  /\ wpc \in {"idle", "copy"} /\ rpc \in {"idle", "copy"}
  /\ wdata \in Seq(Values) /\ wlen \in Lens /\ wpos \in Lens
  /\ rlen \in Lens /\ rbuf \in Seq(Values)

(* kfifo_init() leaves the buffer as the allocator gave it. *)
kfifo_init ==
  /\ in = 0 /\ out = 0
  /\ buffer \in [0 .. Size - 1 -> Values]

Init ==
  /\ kfifo_init
  /\ locked \in BOOLEAN
  /\ wpc = "idle" /\ wdata = << >> /\ wlen = 0 /\ wpos = 0
  /\ rpc = "idle" /\ rlen = 0 /\ rbuf = << >>
-------------------------------------------------------------------------------
(* fifo->lock is held from the first to the last step of a call. *)
LockFree == locked => wpc = "idle" /\ rpc = "idle"

__kfifo_len == uint(in - out)

(* Byte i of a copy that starts at index n: up to the end of the buffer,   *)
(* then from its beginning.                                                *)
Slot(n, len, i) ==
  LET l == Min({len, Size - Masked(n)})
  IN IF i < l THEN Masked(n) + i ELSE i - l

(* Mutant of PutSample(): one byte of room too many. *)
PutSample_overfull(data) ==
  /\ wpc = "idle" /\ LockFree
  /\ wpc' = "copy"
  /\ wdata' = data
  /\ wlen' = Min({Len(data), uint(Size - in + out) + 1})
  /\ wpos' = 0
  /\ UNCHANGED <<fifoVars, locked, readerVars>>

(* __kfifo_put() samples out, ... *)
PutSample(data) ==
  /\ wpc = "idle" /\ LockFree
  /\ wpc' = "copy"
  /\ wdata' = data
  /\ wlen' = Min({Len(data), uint(Size - in + out)})
  /\ wpos' = 0
  /\ UNCHANGED <<fifoVars, locked, readerVars>>

(* ... copies the bytes ... *)
PutCopy ==
  /\ wpc = "copy" /\ wpos < wlen
  /\ buffer' = [buffer EXCEPT ![Slot(in, wlen, wpos)] = wdata[wpos + 1]]
  /\ wpos' = wpos + 1
  /\ UNCHANGED <<in, out, locked, wpc, wdata, wlen, readerVars>>

(* ... and publishes them. *)
PutPublish ==
  /\ wpc = "copy" /\ wpos = wlen
  /\ in' = uint(in + wlen)
  /\ wpc' = "idle" /\ wdata' = << >> /\ wlen' = 0 /\ wpos' = 0
  /\ UNCHANGED <<out, buffer, locked, readerVars>>

(* __kfifo_get() samples in, copies and gives the room back. *)
GetSample(len) ==
  /\ rpc = "idle" /\ LockFree
  /\ rpc' = "copy"
  /\ rlen' = Min({len, __kfifo_len})
  /\ rbuf' = << >>
  /\ UNCHANGED <<fifoVars, locked, writerVars>>

GetCopy ==
  /\ rpc = "copy" /\ Len(rbuf) < rlen
  /\ rbuf' = Append(rbuf, buffer[Slot(out, rlen, Len(rbuf))])
  /\ UNCHANGED <<fifoVars, locked, writerVars, rpc, rlen>>

(* Mutant of StartsOver: __kfifo_get() starts over too. *)
StartsOver_unlocked == in = uint(out + rlen)

(* kfifo_get() also starts over at 0 when it has emptied the FIFO. *)
StartsOver == locked /\ in = uint(out + rlen)

GetRelease ==
  /\ rpc = "copy" /\ Len(rbuf) = rlen
  /\ out' = IF StartsOver THEN 0 ELSE uint(out + rlen)
  /\ in' = IF StartsOver THEN 0 ELSE in
  /\ rpc' = "idle" /\ rlen' = 0
  /\ UNCHANGED <<buffer, locked, writerVars, rbuf>>

(* kfifo_reset(), and __kfifo_reset() by a caller that keeps both sides    *)
(* out.                                                                    *)
kfifo_reset ==
  /\ wpc = "idle" /\ rpc = "idle"
  /\ in' = 0 /\ out' = 0
  /\ UNCHANGED <<buffer, locked, writerVars, readerVars>>

Next ==
  \/ \E len \in Lens : \E data \in [1 .. len -> Values] : PutSample(data)
  \/ PutCopy
  \/ PutPublish
  \/ \E len \in Lens : GetSample(len)
  \/ GetCopy
  \/ GetRelease
  \/ kfifo_reset

Spec == Init /\ [][Next]_vars
-------------------------------------------------------------------------------
(* The bytes in the FIFO, oldest first. *)
Ring(b, n, len) == [i \in 1 .. len |-> b[Masked(n + i - 1)]]
Contents == Ring(buffer, out, __kfifo_len)

(* Without a lock, as with one, __kfifo_put() and __kfifo_get() are a      *)
(* queue: no byte is lost, doubled, reordered or seen half written, and    *)
(* the indices wrap unnoticed (kfifo.c:115-117, 124, 134-147, 170-192).    *)
Queue == INSTANCE BoundedQueue WITH
  queue   <- Contents,
  putting <- IF wpc = "idle" THEN {} ELSE {SubSeq(wdata, 1, wlen)},
  getting <- IF rpc = "idle" THEN {} ELSE {rlen},
  result  <- IF rpc = "idle" THEN rbuf ELSE << >>

IsQueue == Queue!Spec

(* The slots a put in progress fills and the unread ones a get in progress *)
(* may be copying are never the same, so no byte is read and written at    *)
(* once, however old the index is that the other side sampled              *)
(* (kfifo.c:124, 131, 170, 177).                                           *)
Filling == IF wpc = "idle" THEN {} ELSE {Slot(in, wlen, i) : i \in 0 .. wlen - 1}
Copying == IF rpc = "idle" THEN {} ELSE {Slot(out, rlen, i) : i \in 0 .. rlen - 1}
Unread  == {Masked(out + i) : i \in 0 .. __kfifo_len - 1}

NoOverlap ==
  /\ __kfifo_len <= Size
  /\ Filling \cap Unread = {}
  /\ Copying \subseteq Unread
===============================================================================
