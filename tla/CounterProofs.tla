----------------------------- MODULE CounterProofs -----------------------------
(***************************************************************************)
(* Theorems about KFifo, for any size, index width and data, and about     *)
(* Srcu, for any CPUs, readers, updaters and counter width.  Neither takes *)
(* a lock on its fast side; both are right only if the differences and     *)
(* sums of counters that wrap come out right.                              *)
(***************************************************************************)
EXTENDS KFifo, Srcu, SequenceTheorems, KernelListProofs

(* Facts about %, which the provers know only in the first two forms. *)
LEMMA ModFacts ==
  ASSUME NEW m \in Nat \ {0}, NEW x \in Int
  PROVE  x % m \in 0 .. m - 1 /\ x \div m \in Int /\ x = m * (x \div m) + (x % m)
<1>1. x % m \in 0 .. m - 1 OBVIOUS
<1>2. x \div m \in Int OBVIOUS
<1>3. x = m * (x \div m) + (x % m) OBVIOUS
<1>4. QED BY <1>1, <1>2, <1>3

LEMMA ModUnique ==
  ASSUME NEW m \in Nat \ {0}, NEW x \in Int, NEW q \in Int, NEW r \in 0 .. m - 1,
         x = m * q + r
  PROVE  x % m = r
OBVIOUS

LEMMA ModShift ==
  ASSUME NEW m \in Nat \ {0}, NEW x \in Int, NEW y \in Int, NEW q \in Int,
         y = x + m * q
  PROVE  y % m = x % m
<1> DEFINE a == x \div m
           r == x % m
<1>1. r \in 0 .. m - 1 /\ a \in Int /\ x = m * a + r BY ModFacts
<1>2. y = m * (a + q) + r
  <2> HIDE DEF a, r
  <2>1. m * (a + q) = m * a + m * q BY <1>1
  <2>2. QED BY <1>1, <2>1
<1>3. a + q \in Int BY <1>1
<1> HIDE DEF a
<1>4. QED BY <1>1, <1>2, <1>3, ModUnique

LEMMA ModInjective ==
  ASSUME NEW m \in Nat \ {0}, NEW x \in Int, NEW y \in Int,
         x < y, y < x + m
  PROVE  x % m # y % m
<1> SUFFICES ASSUME x % m = y % m PROVE FALSE
  OBVIOUS
<1> DEFINE a == x \div m
           b == y \div m
           r == x % m
<1>1. r \in 0 .. m - 1 /\ a \in Int /\ b \in Int /\ x = m * a + r /\ y = m * b + r
  BY ModFacts
<1> HIDE DEF a, b, r
<1>2. 0 < m * (b - a) /\ m * (b - a) < m
  <2>1. m * (b - a) = m * b - m * a BY <1>1
  <2>2. QED BY <1>1, <2>1
<1>3. b - a \in Int BY <1>1
<1>4. CASE b - a >= 1 BY <1>2, <1>3, <1>4
<1>5. CASE b - a <= 0 BY <1>2, <1>3, <1>5
<1>6. QED BY <1>3, <1>4, <1>5
-------------------------------------------------------------------------------
LEMMA Constants ==
  /\ Size \in Nat \ {0} /\ UINT_RANGE \in Nat \ {0} /\ MaxLen \in Nat
  /\ Size < UINT_RANGE
  /\ \E k \in Nat : UINT_RANGE = Size * k
<1>1. PICK k \in 2 .. UINT_RANGE : UINT_RANGE = k * Size BY KFifoAssumption
<1>2. Size \in Nat \ {0} /\ UINT_RANGE \in Nat /\ MaxLen \in Nat BY KFifoAssumption
<1>3. k \in Nat /\ k >= 2 BY <1>1, <1>2
<1>4. k * Size = Size * k BY <1>2, <1>3
<1>5. k * Size >= 2 * Size BY <1>2, <1>3
<1>6. QED BY <1>1, <1>2, <1>3, <1>4, <1>5

LEMMA MinOfTwo ==
  ASSUME NEW a \in Int, NEW b \in Int
  PROVE  Min({a, b}) = IF a <= b THEN a ELSE b
<1>1. Min({a, b}) \in {a, b} /\ \A y \in {a, b} : Min({a, b}) <= y
  BY DEF Min
<1>2. QED BY <1>1

(* An index that wraps at the end of its range stays at the same slot. *)
LEMMA MaskedUint ==
  ASSUME NEW n \in Int, NEW j \in Int
  PROVE  Masked(uint(n) + j) = Masked(n + j)
<1>1. PICK k \in Nat : UINT_RANGE = Size * k BY Constants
<1> DEFINE q == n \div UINT_RANGE
<1>2. uint(n) \in 0 .. UINT_RANGE - 1 /\ q \in Int /\ n = UINT_RANGE * q + uint(n)
  BY ModFacts, Constants DEF uint
<1> HIDE DEF q
<1>3. uint(n) \in Int BY <1>2, Constants
<1>4. UINT_RANGE * q = Size * (k * q) BY <1>1, <1>2, Constants
<1>5. k * q \in Int /\ uint(n) + j \in Int /\ n + j \in Int BY <1>1, <1>2, <1>3
<1>6. n + j = uint(n) + j + Size * (k * q) BY <1>2, <1>3, <1>4, <1>5, Constants
<1>7. QED BY <1>5, <1>6, ModShift, Constants DEF Masked

(* A copy that is split at the end of the buffer goes round the ring. *)
LEMMA SlotMasked ==
  ASSUME NEW n \in Int, NEW len \in 0 .. Size, NEW i \in 0 .. len - 1
  PROVE  Slot(n, len, i) = Masked(n + i) /\ Slot(n, len, i) \in 0 .. Size - 1
<1> DEFINE q == n \div Size
           r == Masked(n)
           l == Min({len, Size - Masked(n)})
<1>1. r \in 0 .. Size - 1 /\ q \in Int /\ n = Size * q + r
  BY ModFacts, Constants DEF Masked
<1>2. l = IF len <= Size - r THEN len ELSE Size - r
  BY <1>1, MinOfTwo, Constants
<1>3. Slot(n, len, i) = IF i < l THEN r + i ELSE i - l BY DEF Slot
<1> HIDE DEF q, r, l
<1>4. CASE i < l
  <2>1. r + i \in 0 .. Size - 1 BY <1>1, <1>2, <1>4, Constants
  <2>2. Size * q \in Int BY <1>1, Constants
  <2>3. n + i = Size * q + (r + i) BY <1>1, <2>2, Constants
  <2>4. (n + i) % Size = r + i BY <1>1, <2>1, <2>3, ModUnique, Constants
  <2>5. QED BY <1>3, <1>4, <2>1, <2>4 DEF Masked
<1>5. CASE ~(i < l)
  <2>1. l = Size - r /\ i - l \in 0 .. Size - 1 BY <1>1, <1>2, <1>5, Constants
  <2>2. Size * (q + 1) = Size * q + Size BY <1>1, Constants
  <2>3. Size * q \in Int BY <1>1, Constants
  <2>4. n + i = Size * (q + 1) + (i - l) BY <1>1, <2>1, <2>2, <2>3, Constants
  <2>5. q + 1 \in Int /\ n + i \in Int BY <1>1
  <2>6. (n + i) % Size = i - l BY <1>1, <2>1, <2>4, <2>5, ModUnique, Constants
  <2>7. QED BY <1>3, <1>5, <2>1, <2>6 DEF Masked
<1>6. QED BY <1>4, <1>5

(* What the length computed in unsigned arithmetic is. *)
LEMMA UintDiff ==
  ASSUME NEW a \in Index, NEW b \in Index
  PROVE  /\ uint(a - b) = IF a >= b THEN a - b ELSE a - b + UINT_RANGE
         /\ uint(a - b) \in Index
<1>1. a \in Int /\ b \in Int /\ a - b \in Int BY Constants DEF Index
<1>2. CASE a >= b
  <2>1. a - b \in 0 .. UINT_RANGE - 1 BY <1>1, <1>2, Constants DEF Index
  <2>2. a - b = UINT_RANGE * 0 + (a - b) BY <1>1, Constants
  <2>3. QED BY <1>1, <1>2, <2>1, <2>2, ModUnique, Constants DEF uint, Index
<1>3. CASE a < b
  <2>1. a - b + UINT_RANGE \in 0 .. UINT_RANGE - 1 BY <1>1, <1>3, Constants DEF Index
  <2>2. a - b = UINT_RANGE * (-1) + (a - b + UINT_RANGE) BY <1>1, Constants
  <2>3. QED BY <1>1, <1>3, <2>1, <2>2, ModUnique, Constants DEF uint, Index
<1>4. QED BY <1>1, <1>2, <1>3

LEMMA UintSum ==
  ASSUME NEW a \in Index, NEW n \in 0 .. Size
  PROVE  /\ uint(a + n) = IF a + n < UINT_RANGE THEN a + n ELSE a + n - UINT_RANGE
         /\ uint(a + n) \in Index
<1>1. a \in Int /\ n \in Int /\ a + n \in Int BY Constants DEF Index
<1>2. CASE a + n < UINT_RANGE
  <2>1. a + n \in 0 .. UINT_RANGE - 1 BY <1>1, <1>2, Constants DEF Index
  <2>2. a + n = UINT_RANGE * 0 + (a + n) BY <1>1, Constants
  <2>3. QED BY <1>1, <1>2, <2>1, <2>2, ModUnique, Constants DEF uint, Index
<1>3. CASE a + n >= UINT_RANGE
  <2>1. a + n - UINT_RANGE \in 0 .. UINT_RANGE - 1 BY <1>1, <1>3, Constants DEF Index
  <2>2. a + n = UINT_RANGE * 1 + (a + n - UINT_RANGE) BY <1>1, Constants
  <2>3. QED BY <1>1, <1>3, <2>1, <2>2, ModUnique, Constants DEF uint, Index
<1>4. QED BY <1>1, <1>2, <1>3, Constants

(* The room __kfifo_put() computes. *)
LEMMA UintRoom ==
  ASSUME NEW a \in Index, NEW b \in Index, uint(a - b) <= Size
  PROVE  uint(Size - a + b) = Size - uint(a - b)
<1> DEFINE d == uint(a - b)
<1>1. a \in Int /\ b \in Int BY Constants DEF Index
<1>2. d \in Index /\ d = IF a >= b THEN a - b ELSE a - b + UINT_RANGE BY UintDiff
<1> HIDE DEF d
<1>3. Size - d \in 0 .. UINT_RANGE - 1 BY <1>2, Constants DEF Index, d
<1>4. CASE a >= b
  <2>1. Size - a + b = UINT_RANGE * 0 + (Size - d) BY <1>1, <1>2, <1>4, Constants
  <2>2. QED BY <1>1, <1>3, <2>1, ModUnique, Constants DEF uint, d
<1>5. CASE a < b
  <2>1. Size - a + b = UINT_RANGE * 1 + (Size - d) BY <1>1, <1>2, <1>5, Constants
  <2>2. QED BY <1>1, <1>3, <2>1, ModUnique, Constants DEF uint, d
<1>6. QED BY <1>1, <1>4, <1>5
-------------------------------------------------------------------------------
LEMMA DataIsSeq ==
  ASSUME NEW len \in Lens, NEW data \in [1 .. len -> Values]
  PROVE  data \in Seq(Values) /\ Len(data) = len
<1>1. len \in Nat BY Constants DEF Lens
<1>2. data \in Seq(Values) BY <1>1, SeqDef
<1>3. QED BY <1>1, <1>2, LenProperties

(* The writer's len is at most the room, whatever the reader has done      *)
(* since it was computed; the bytes it has copied are in their slots.      *)
WriterInv ==
  wpc = "copy" =>
    /\ wlen <= Size - __kfifo_len /\ wlen <= Len(wdata) /\ wpos <= wlen
    /\ \A i \in 0 .. wpos - 1 : buffer[Masked(in + i)] = wdata[i + 1]

(* The reader's len is at most what is there; it has the bytes so far. *)
ReaderInv ==
  rpc = "copy" =>
    /\ rlen <= __kfifo_len /\ Len(rbuf) <= rlen
    /\ \A i \in 1 .. Len(rbuf) : rbuf[i] = buffer[Masked(out + i - 1)]

(* The inductive invariant. *)
KInv ==
  /\ TypeOK
  /\ __kfifo_len <= Size
  /\ WriterInv
  /\ ReaderInv
  /\ locked => wpc = "idle" \/ rpc = "idle"

LEMMA Numbers ==
  ASSUME TypeOK
  PROVE  /\ in \in Int /\ out \in Int /\ in \in Index /\ out \in Index
         /\ wlen \in Nat /\ wpos \in Nat /\ rlen \in Nat
         /\ __kfifo_len \in Nat /\ __kfifo_len < UINT_RANGE
         /\ Len(rbuf) \in Nat /\ Len(wdata) \in Nat
<1>1. in \in Index /\ out \in Index /\ wlen \in Nat /\ wpos \in Nat /\ rlen \in Nat
  BY Constants DEF TypeOK, Lens
<1>2. uint(in - out) \in Index BY <1>1, UintDiff
<1>3. QED BY <1>1, <1>2, LenProperties, Constants DEF __kfifo_len, Index, TypeOK

(* The slots from in on follow the unread ones. *)
LEMMA InAfterOut ==
  ASSUME KInv, NEW i \in Nat
  PROVE  Masked(in + i) = Masked(out + __kfifo_len + i)
<1> DEFINE len == __kfifo_len
<1>1. in \in Index /\ out \in Index /\ in \in Int /\ out \in Int /\ len \in Nat
  BY Numbers DEF KInv
<1>2. len = IF in >= out THEN in - out ELSE in - out + UINT_RANGE
  BY <1>1, UintDiff DEF __kfifo_len
<1>3. PICK k \in Nat : UINT_RANGE = Size * k BY Constants
<1> HIDE DEF len
<1>4. CASE in >= out
  <2>1. in + i = out + len + i BY <1>1, <1>2, <1>4
  <2>2. QED BY <2>1 DEF len
<1>5. CASE in < out
  <2>1. out + len + i = in + i + Size * k BY <1>1, <1>2, <1>3, <1>5, Constants
  <2>2. in + i \in Int /\ out + len + i \in Int BY <1>1
  <2>3. k \in Int /\ Size \in Nat \ {0} BY Constants
  <2>4. (out + len + i) % Size = (in + i) % Size BY <2>1, <2>2, <2>3, ModShift
  <2>5. QED BY <2>4 DEF Masked, len
<1>6. in >= out \/ in < out BY <1>1
<1>7. QED BY <1>4, <1>5, <1>6

(* Different bytes of a full ring have different slots. *)
LEMMA SlotsDiffer ==
  ASSUME NEW n \in Int, NEW i \in Nat, NEW j \in Nat, i # j, i < Size, j < Size
  PROVE  Masked(n + i) # Masked(n + j)
<1>1. n + i \in Int /\ n + j \in Int OBVIOUS
<1>2. CASE i < j
  <2>1. n + i < n + j /\ n + j < n + i + Size BY <1>2, Constants
  <2>2. QED BY <1>1, <2>1, ModInjective, Constants DEF Masked
<1>3. CASE j < i
  <2>1. n + j < n + i /\ n + i < n + j + Size BY <1>3, Constants
  <2>2. QED BY <1>1, <2>1, ModInjective, Constants DEF Masked
<1>4. QED BY <1>2, <1>3

LEMMA MaskedType == ASSUME NEW n \in Int PROVE Masked(n) \in 0 .. Size - 1
BY ModFacts, Constants DEF Masked

(* A copy to the FIFO leaves alone what is unread and what was copied. *)
LEMMA FillSlot ==
  ASSUME KInv, PutCopy
  PROVE  /\ Slot(in, wlen, wpos) = Masked(in + wpos)
         /\ Masked(in + wpos) \in 0 .. Size - 1
         /\ \A i \in 0 .. __kfifo_len - 1 : Masked(out + i) # Masked(in + wpos)
         /\ \A i \in 0 .. wpos - 1 : Masked(in + i) # Masked(in + wpos)
         /\ wpos + 1 \in 1 .. Len(wdata)
<1> DEFINE len == __kfifo_len
<1>1. /\ in \in Int /\ out \in Int /\ wlen \in Nat /\ wpos \in Nat /\ len \in Nat
      /\ wpos < wlen /\ wlen <= Size - len /\ wlen <= Len(wdata) /\ len <= Size
      /\ Len(wdata) \in Nat
  BY Numbers DEF KInv, PutCopy, WriterInv
<1>2. wlen \in 0 .. Size /\ wpos \in 0 .. wlen - 1 BY <1>1, Constants
<1>3. Slot(in, wlen, wpos) = Masked(in + wpos) BY <1>1, <1>2, SlotMasked
<1>4. Masked(in + wpos) \in 0 .. Size - 1
  <2>1. in + wpos \in Int BY <1>1
  <2>2. QED BY <2>1, MaskedType
<1>5. Masked(in + wpos) = Masked(out + (len + wpos))
  <2>1. Masked(in + wpos) = Masked(out + len + wpos) BY <1>1, InAfterOut
  <2>2. out + len + wpos = out + (len + wpos) BY <1>1
  <2>3. QED BY <2>1, <2>2
<1>6. len + wpos \in Nat /\ len + wpos < Size BY <1>1, Constants
<1> HIDE DEF len
<1>7. ASSUME NEW i \in 0 .. len - 1 PROVE Masked(out + i) # Masked(in + wpos)
  <2>1. i \in Nat /\ i < Size /\ i # len + wpos BY <1>1, <1>6, <1>7, Constants
  <2>2. QED BY <1>1, <1>5, <1>6, <2>1, SlotsDiffer
<1>8. ASSUME NEW i \in 0 .. wpos - 1 PROVE Masked(in + i) # Masked(in + wpos)
  <2>1. i \in Nat /\ i < Size /\ i # wpos /\ wpos < Size BY <1>1, <1>8, Constants
  <2>2. QED BY <1>1, <2>1, SlotsDiffer
<1>9. wpos + 1 \in 1 .. Len(wdata) BY <1>1
<1>10. QED BY <1>3, <1>4, <1>7, <1>8, <1>9 DEF len

LEMMA PutSampleStep ==
  ASSUME KInv, NEW n \in Lens, NEW data \in [1 .. n -> Values], PutSample(data)
  PROVE  /\ KInv'
         /\ wlen' = Min({Len(data), Size - __kfifo_len}) /\ wlen' <= Len(data)
<1>1. data \in Seq(Values) /\ Len(data) = n /\ n \in Nat /\ n <= MaxLen
  BY DataIsSeq, Constants DEF Lens
<1>2. __kfifo_len \in Nat /\ __kfifo_len <= Size BY Numbers DEF KInv
<1>3. uint(Size - in + out) = Size - __kfifo_len
  BY <1>2, Numbers, UintRoom DEF KInv, __kfifo_len
<1>4. wlen' = Min({Len(data), Size - __kfifo_len}) BY <1>3 DEF PutSample
<1>5. Size - __kfifo_len \in Int BY <1>2, Constants
<1>6. wlen' = IF Len(data) <= Size - __kfifo_len THEN Len(data) ELSE Size - __kfifo_len
  BY <1>1, <1>4, <1>5, MinOfTwo
<1>7. wlen' \in Lens /\ wlen' <= Size - __kfifo_len /\ wlen' <= Len(data)
  BY <1>1, <1>2, <1>6, Constants DEF Lens
<1>8. __kfifo_len' = __kfifo_len BY DEF PutSample, fifoVars, __kfifo_len
<1>9. TypeOK'
  BY <1>1, <1>7, Constants DEF KInv, TypeOK, PutSample, fifoVars, readerVars, Lens
<1>10. WriterInv' BY <1>7, <1>8, Constants DEF WriterInv, PutSample, Lens
<1>11. ReaderInv' BY <1>8 DEF KInv, ReaderInv, PutSample, fifoVars, readerVars
<1>12. (locked => wpc = "idle" \/ rpc = "idle")'
  BY DEF PutSample, LockFree, readerVars
<1>13. QED BY <1>2, <1>4, <1>7, <1>8, <1>9, <1>10, <1>11, <1>12 DEF KInv

LEMMA PutCopyStep ==
  ASSUME KInv, PutCopy
  PROVE  KInv' /\ \A i \in 0 .. __kfifo_len - 1 : buffer'[Masked(out + i)] = buffer[Masked(out + i)]
<1>1. /\ in \in Int /\ out \in Int /\ wlen \in Nat /\ wpos \in Nat /\ rlen \in Nat
      /\ __kfifo_len \in Nat /\ Len(rbuf) \in Nat
  BY Numbers DEF KInv
<1>2. __kfifo_len' = __kfifo_len BY DEF PutCopy, __kfifo_len
<1>3. wdata[wpos + 1] \in Values
  BY FillSlot, ElementOfSeq DEF KInv, TypeOK
<1>4. /\ buffer' = [buffer EXCEPT ![Masked(in + wpos)] = wdata[wpos + 1]]
      /\ buffer \in [0 .. Size - 1 -> Values]
  BY FillSlot DEF PutCopy, KInv, TypeOK
<1>5. ASSUME NEW i \in Int, Masked(out + i) # Masked(in + wpos)
      PROVE  buffer'[Masked(out + i)] = buffer[Masked(out + i)]
  <2>1. out + i \in Int BY <1>1
  <2>2. Masked(out + i) \in 0 .. Size - 1 BY <2>1, MaskedType
  <2>3. QED BY <1>4, <1>5, <2>2
<1>6. ASSUME NEW i \in 0 .. __kfifo_len - 1
      PROVE  buffer'[Masked(out + i)] = buffer[Masked(out + i)]
  <2>1. Masked(out + i) # Masked(in + wpos) BY FillSlot
  <2>2. i \in Int BY <1>1
  <2>3. QED BY <1>5, <2>1, <2>2
<1>7. TypeOK'
  <2>1. wpos + 1 \in Lens BY <1>1, Constants DEF KInv, TypeOK, Lens, PutCopy
  <2>2. buffer' \in [0 .. Size - 1 -> Values] BY <1>3, <1>4
  <2>3. QED BY <2>1, <2>2 DEF KInv, TypeOK, PutCopy, readerVars
<1>8. WriterInv'
  <2>1. ASSUME NEW i \in 0 .. wpos PROVE buffer'[Masked(in + i)] = wdata[i + 1]
    <3>1. CASE i = wpos BY <1>4, <3>1, FillSlot
    <3>2. CASE i < wpos
      <4>1. i \in 0 .. wpos - 1 /\ in + i \in Int BY <1>1, <3>2
      <4>2. Masked(in + i) \in 0 .. Size - 1 BY <4>1, MaskedType
      <4>3. Masked(in + i) # Masked(in + wpos) BY <4>1, FillSlot
      <4>4. buffer[Masked(in + i)] = wdata[i + 1] BY <4>1 DEF KInv, WriterInv, PutCopy
      <4>5. QED BY <1>4, <4>2, <4>3, <4>4
    <3>3. QED BY <1>1, <2>1, <3>1, <3>2
  <2>2. /\ wlen' = wlen /\ wdata' = wdata /\ wpos' = wpos + 1 /\ in' = in
        /\ wlen <= Size - __kfifo_len /\ wlen <= Len(wdata) /\ wpos < wlen
    BY DEF KInv, WriterInv, PutCopy
  <2>3. QED BY <1>1, <1>2, <2>1, <2>2 DEF WriterInv
<1>9. ReaderInv'
  <2> SUFFICES ASSUME rpc = "copy"
               PROVE  \A i \in 1 .. Len(rbuf) : rbuf[i] = buffer'[Masked(out + i - 1)]
    BY <1>2 DEF KInv, ReaderInv, PutCopy, readerVars
  <2>1. ASSUME NEW i \in 1 .. Len(rbuf) PROVE rbuf[i] = buffer'[Masked(out + i - 1)]
    <3>1. i - 1 \in 0 .. __kfifo_len - 1 /\ out + i - 1 = out + (i - 1)
      BY <1>1, <2>1 DEF KInv, ReaderInv
    <3>2. buffer'[Masked(out + i - 1)] = buffer[Masked(out + i - 1)] BY <1>6, <3>1
    <3>3. QED BY <3>2 DEF KInv, ReaderInv
  <2>2. QED BY <2>1
<1>10. QED BY <1>2, <1>6, <1>7, <1>8, <1>9 DEF KInv, PutCopy, readerVars

(* Publishing adds what was copied to the length. *)
LEMMA PublishLen ==
  ASSUME KInv, PutPublish
  PROVE  __kfifo_len' = __kfifo_len + wlen /\ in' \in Index /\ wlen \in Nat
         /\ __kfifo_len + wlen <= Size
<1>1. /\ in \in Index /\ out \in Index /\ in \in Int /\ out \in Int /\ wlen \in Nat
      /\ __kfifo_len \in Nat /\ wlen <= Size - __kfifo_len
  BY Numbers DEF KInv, WriterInv, PutPublish
<1>2. wlen \in 0 .. Size BY <1>1, Constants
<1>3. in' \in Index /\ in' = IF in + wlen < UINT_RANGE THEN in + wlen ELSE in + wlen - UINT_RANGE
  BY <1>1, <1>2, UintSum DEF PutPublish
<1>4. out' = out BY DEF PutPublish
<1>5. __kfifo_len = IF in >= out THEN in - out ELSE in - out + UINT_RANGE
  BY <1>1, UintDiff DEF __kfifo_len
<1>6. uint(in' - out) = IF in' >= out THEN in' - out ELSE in' - out + UINT_RANGE
  BY <1>1, <1>3, UintDiff
<1>7. in' \in Int BY <1>3, Constants DEF Index
<1>8. __kfifo_len + wlen < UINT_RANGE BY <1>1, Constants
<1>9. uint(in' - out) = __kfifo_len + wlen
  BY <1>1, <1>3, <1>5, <1>6, <1>7, <1>8, Constants DEF Index
<1>10. QED BY <1>1, <1>3, <1>4, <1>9, Constants DEF __kfifo_len

LEMMA PutPublishStep == ASSUME KInv, PutPublish PROVE KInv'
<1>1. /\ __kfifo_len' = __kfifo_len + wlen /\ in' \in Index /\ wlen \in Nat
      /\ __kfifo_len + wlen <= Size
  BY PublishLen
<1>2. TypeOK'
  <2>1. wdata' \in Seq(Values) BY EmptySeq DEF PutPublish
  <2>2. wlen' \in Lens /\ wpos' \in Lens /\ wpc' = "idle"
    BY Constants DEF PutPublish, Lens
  <2>3. UNCHANGED <<out, buffer, locked, rpc, rlen, rbuf>> BY DEF PutPublish, readerVars
  <2>4. QED BY <1>1, <2>1, <2>2, <2>3 DEF KInv, TypeOK
<1>3. WriterInv'
  <2>1. wpc' = "idle" BY DEF PutPublish
  <2>2. QED BY <2>1 DEF WriterInv
<1>4. ReaderInv'
  <2>1. rlen \in Nat /\ __kfifo_len \in Nat BY Numbers DEF KInv
  <2>2. QED BY <1>1, <2>1 DEF KInv, ReaderInv, PutPublish, readerVars
<1>5. QED BY <1>1, <1>2, <1>3, <1>4 DEF KInv, PutPublish, readerVars

LEMMA GetSampleStep ==
  ASSUME KInv, NEW n \in Lens, GetSample(n)
  PROVE  KInv' /\ rlen' = Min({n, __kfifo_len})
<1>1. n \in Nat /\ n <= MaxLen BY Constants DEF Lens
<1>2. __kfifo_len \in Nat BY Numbers DEF KInv
<1>3. rlen' = IF n <= __kfifo_len THEN n ELSE __kfifo_len
  BY <1>1, <1>2, MinOfTwo DEF GetSample
<1>4. rlen' \in Lens /\ rlen' <= __kfifo_len BY <1>1, <1>2, <1>3, Constants DEF Lens
<1>5. rbuf' \in Seq(Values) /\ Len(rbuf') = 0 BY EmptySeq DEF GetSample
<1>6. /\ __kfifo_len' = __kfifo_len
      /\ UNCHANGED <<in, out, buffer, locked, wpc, wdata, wlen, wpos>> /\ rpc' = "copy"
  BY DEF GetSample, fifoVars, writerVars, __kfifo_len
<1>7. TypeOK' BY <1>4, <1>5, <1>6 DEF KInv, TypeOK
<1>8. WriterInv' BY <1>6 DEF KInv, WriterInv
<1>9. ReaderInv' BY <1>2, <1>4, <1>5, <1>6, Constants DEF ReaderInv, Lens
<1>10. (locked => wpc = "idle" \/ rpc = "idle")' BY <1>6 DEF GetSample, LockFree
<1>11. QED BY <1>6, <1>7, <1>8, <1>9, <1>10 DEF KInv, GetSample

LEMMA GetCopyStep == ASSUME KInv, GetCopy PROVE KInv'
<1> DEFINE n == Len(rbuf)
<1>1. /\ out \in Int /\ rlen \in Nat /\ n \in Nat /\ __kfifo_len \in Nat
      /\ n < rlen /\ rlen <= __kfifo_len /\ __kfifo_len <= Size
  BY Numbers DEF KInv, ReaderInv, GetCopy
<1>2. rlen \in 0 .. Size /\ n \in 0 .. rlen - 1 BY <1>1, Constants
<1>3. Slot(out, rlen, n) = Masked(out + n) /\ Slot(out, rlen, n) \in 0 .. Size - 1
  BY <1>1, <1>2, SlotMasked
<1>4. buffer[Masked(out + n)] \in Values BY <1>3 DEF KInv, TypeOK
<1>5. rbuf \in Seq(Values) /\ rbuf' = Append(rbuf, buffer[Masked(out + n)])
  BY <1>3 DEF GetCopy, KInv, TypeOK
<1>6. /\ rbuf' \in Seq(Values) /\ Len(rbuf') = n + 1
      /\ rbuf'[n + 1] = buffer[Masked(out + n)]
      /\ \A i \in 1 .. n : rbuf'[i] = rbuf[i]
  BY <1>4, <1>5
<1>7. /\ __kfifo_len' = __kfifo_len
      /\ UNCHANGED <<in, out, buffer, locked, wpc, wdata, wlen, wpos, rpc, rlen>>
  BY DEF GetCopy, fifoVars, writerVars, __kfifo_len
<1>8. TypeOK' BY <1>6, <1>7 DEF KInv, TypeOK
<1>9. WriterInv' BY <1>7 DEF KInv, WriterInv
<1>10. ReaderInv'
  <2>1. ASSUME NEW i \in 1 .. n + 1 PROVE rbuf'[i] = buffer[Masked(out + i - 1)]
    <3>1. CASE i = n + 1
      <4>1. out + i - 1 = out + n BY <1>1, <3>1
      <4>2. QED BY <1>6, <3>1, <4>1
    <3>2. CASE i \in 1 .. n
      BY <1>6, <3>2 DEF KInv, ReaderInv, GetCopy
    <3>3. QED BY <1>1, <3>1, <3>2
  <2>2. QED BY <1>1, <1>6, <1>7, <2>1 DEF ReaderInv
<1>11. QED BY <1>7, <1>8, <1>9, <1>10 DEF KInv

(* Releasing takes what was read off the length. *)
LEMMA ReleaseLen ==
  ASSUME KInv, GetRelease
  PROVE  /\ __kfifo_len' = __kfifo_len - rlen /\ __kfifo_len - rlen \in Nat
         /\ in' \in Index /\ out' \in Index
         /\ (__kfifo_len' = 0 \/ (in' = in /\ out' = uint(out + rlen)))
         /\ (wpc = "idle" \/ in' = in)
<1>1. /\ in \in Index /\ out \in Index /\ in \in Int /\ out \in Int /\ rlen \in Nat
      /\ __kfifo_len \in Nat /\ rlen <= __kfifo_len /\ __kfifo_len <= Size
  BY Numbers DEF KInv, ReaderInv, GetRelease
<1>2. rlen \in 0 .. Size BY <1>1, Constants
<1> DEFINE o == uint(out + rlen)
<1>3. o \in Index /\ o = IF out + rlen < UINT_RANGE THEN out + rlen ELSE out + rlen - UINT_RANGE
  BY <1>1, <1>2, UintSum
<1>4. __kfifo_len = IF in >= out THEN in - out ELSE in - out + UINT_RANGE
  BY <1>1, UintDiff DEF __kfifo_len
<1> HIDE DEF o
<1>5. uint(in - o) = IF in >= o THEN in - o ELSE in - o + UINT_RANGE
  BY <1>1, <1>3, UintDiff
<1>6. o \in Int BY <1>3, Constants DEF Index
<1>7. uint(in - o) = __kfifo_len - rlen
  BY <1>1, <1>3, <1>4, <1>5, <1>6, Constants DEF Index
<1>8. CASE locked /\ in = o
  <2>1. in' = 0 /\ out' = 0 BY <1>8 DEF GetRelease, StartsOver, o
  <2>2. 0 \in Index BY Constants DEF Index
  <2>3. uint(0 - 0) = 0 BY <2>2, UintDiff
  <2>4. uint(in - o) = 0 BY <1>1, <1>5, <1>6, <1>8
  <2>5. __kfifo_len' = 0 BY <2>1, <2>3 DEF __kfifo_len
  <2>6. wpc = "idle" BY <1>8 DEF KInv, GetRelease
  <2>7. QED BY <1>1, <1>7, <2>1, <2>2, <2>4, <2>5, <2>6
<1>9. CASE ~(locked /\ in = o)
  <2>1. in' = in /\ out' = o BY <1>9 DEF GetRelease, StartsOver, o
  <2>2. __kfifo_len' = uint(in - o) BY <2>1 DEF __kfifo_len
  <2>3. QED BY <1>1, <1>3, <1>7, <2>1, <2>2 DEF o
<1>10. QED BY <1>8, <1>9

LEMMA GetReleaseStep == ASSUME KInv, GetRelease PROVE KInv'
<1>1. /\ __kfifo_len' = __kfifo_len - rlen /\ __kfifo_len - rlen \in Nat
      /\ in' \in Index /\ out' \in Index /\ (wpc = "idle" \/ in' = in)
  BY ReleaseLen
<1>2. /\ UNCHANGED <<buffer, locked, wpc, wdata, wlen, wpos, rbuf>>
      /\ rpc' = "idle" /\ rlen' = 0
  BY DEF GetRelease, writerVars
<1>3. TypeOK' BY <1>1, <1>2, Constants DEF KInv, TypeOK, Lens
<1>4. rlen \in Nat /\ __kfifo_len \in Nat /\ wlen \in Nat BY Numbers DEF KInv
<1>5. WriterInv' BY <1>1, <1>2, <1>4, Constants DEF KInv, WriterInv
<1>6. ReaderInv' BY <1>2 DEF ReaderInv
<1>7. QED BY <1>1, <1>2, <1>3, <1>4, <1>5, <1>6, Constants DEF KInv

LEMMA ResetStep == ASSUME KInv, kfifo_reset PROVE KInv' /\ __kfifo_len' = 0
<1>1. /\ UNCHANGED <<buffer, locked, wpc, wdata, wlen, wpos, rpc, rlen, rbuf>>
      /\ in' = 0 /\ out' = 0 /\ wpc = "idle" /\ rpc = "idle"
  BY DEF kfifo_reset, writerVars, readerVars
<1>2. 0 \in Index BY Constants DEF Index
<1>3. __kfifo_len' = 0
  <2>1. uint(0 - 0) = 0 BY <1>2, UintDiff
  <2>2. QED BY <1>1, <2>1 DEF __kfifo_len
<1>4. TypeOK' BY <1>1, <1>2 DEF KInv, TypeOK
<1>5. WriterInv' /\ ReaderInv' BY <1>1 DEF WriterInv, ReaderInv
<1>6. QED BY <1>1, <1>3, <1>4, <1>5, Constants DEF KInv

LEMMA KInvStep == KInv /\ [Next]_vars => KInv'
<1> SUFFICES ASSUME KInv, [Next]_vars PROVE KInv'
  OBVIOUS
<1>1. CASE UNCHANGED vars
  BY <1>1 DEF vars, KInv, TypeOK, WriterInv, ReaderInv, __kfifo_len
<1>2. QED
  BY <1>1, PutSampleStep, PutCopyStep, PutPublishStep, GetSampleStep, GetCopyStep,
     GetReleaseStep, ResetStep DEF Next

LEMMA KInvInit == ASSUME Init PROVE KInv /\ __kfifo_len = 0
<1>1. 0 \in Index /\ 0 \in Lens BY Constants DEF Index, Lens
<1>2. __kfifo_len = 0
  <2>1. uint(0 - 0) = 0 BY <1>1, UintDiff
  <2>2. QED BY <2>1 DEF Init, kfifo_init, __kfifo_len
<1>3. << >> \in Seq(Values) BY EmptySeq
<1>4. TypeOK BY <1>1, <1>3 DEF Init, kfifo_init, TypeOK
<1>5. WriterInv /\ ReaderInv BY DEF Init, WriterInv, ReaderInv
<1>6. QED BY <1>2, <1>4, <1>5, Constants DEF KInv, Init

LEMMA KInvariant == Spec => []KInv
<1>1. Init => KInv BY KInvInit
<1>2. QED BY <1>1, KInvStep, PTL DEF Spec

(* Every variable of the FIFO and of its callers keeps its type. *)
LEMMA KFifoTypeCorrect == Spec => []TypeOK
BY KInvariant, PTL DEF KInv

(* With no lock at all, a writer and a reader never touch the same slot,   *)
(* for any size and index width.                                           *)
THEOREM NoOverlapCorrect == Spec => []NoOverlap
<1>1. KInv => NoOverlap
  <2> SUFFICES ASSUME KInv PROVE NoOverlap
    OBVIOUS
  <2> DEFINE len == __kfifo_len
  <2>1. in \in Int /\ out \in Int /\ wlen \in Nat /\ rlen \in Nat /\ len \in Nat /\ len <= Size
    BY Numbers DEF KInv
  <2>2. Filling \cap Unread = {}
    <3> SUFFICES ASSUME NEW i \in 0 .. wlen - 1, NEW j \in 0 .. len - 1, wpc # "idle",
                        Slot(in, wlen, i) = Masked(out + j)
                 PROVE  FALSE
      BY DEF Filling, Unread
    <3>1. wlen <= Size - len BY DEF KInv, TypeOK, WriterInv
    <3>2. wlen \in 0 .. Size /\ i \in Nat /\ j \in Nat BY <2>1, <3>1, Constants
    <3>3. Slot(in, wlen, i) = Masked(in + i) BY <2>1, <3>2, SlotMasked
    <3>4. Masked(in + i) = Masked(out + len + i) BY <3>2, InAfterOut
    <3> HIDE DEF len
    <3>5. out + len + i = out + (len + i) /\ len + i \in Nat BY <2>1, <3>2
    <3>6. len + i < Size /\ j < Size /\ j # len + i BY <2>1, <3>1, <3>2, Constants
    <3>7. Masked(out + (len + i)) # Masked(out + j) BY <2>1, <3>2, <3>5, <3>6, SlotsDiffer
    <3>8. QED BY <3>3, <3>4, <3>5, <3>7 DEF len
  <2>3. Copying \subseteq Unread
    <3> SUFFICES ASSUME NEW i \in 0 .. rlen - 1, rpc # "idle"
                 PROVE  Slot(out, rlen, i) \in Unread
      BY DEF Copying
    <3>1. rlen <= len BY DEF KInv, TypeOK, ReaderInv
    <3>2. rlen \in 0 .. Size /\ i \in 0 .. len - 1 BY <2>1, <3>1, Constants
    <3>3. Slot(out, rlen, i) = Masked(out + i) BY <2>1, <3>2, SlotMasked
    <3>4. QED BY <3>2, <3>3 DEF Unread
  <2>4. QED BY <2>1, <2>2, <2>3 DEF NoOverlap
<1>2. QED BY <1>1, KInvariant, PTL
-------------------------------------------------------------------------------
(* The bytes in the FIFO are a sequence. *)
LEMMA ContentsFacts ==
  ASSUME NEW b \in [0 .. Size - 1 -> Values], NEW o \in Int, NEW n \in Nat
  PROVE  /\ Ring(b, o, n) \in Seq(Values) /\ Len(Ring(b, o, n)) = n
         /\ \A i \in 1 .. n : Ring(b, o, n)[i] = b[Masked(o + i - 1)]
<1> DEFINE ring == Ring(b, o, n)
<1>1. ASSUME NEW i \in 1 .. n PROVE b[Masked(o + i - 1)] \in Values
  <2>1. o + i - 1 \in Int OBVIOUS
  <2>2. Masked(o + i - 1) \in 0 .. Size - 1 BY <2>1, MaskedType
  <2>3. QED BY <2>2
<1>2. ring \in [1 .. n -> Values] /\ \A i \in 1 .. n : ring[i] = b[Masked(o + i - 1)]
  BY <1>1 DEF Ring
<1> HIDE DEF ring
<1>3. ring \in Seq(Values) BY <1>2, SeqDef
<1>4. Len(ring) = n BY <1>2, <1>3, LenProperties
<1>5. QED BY <1>2, <1>3, <1>4 DEF ring

LEMMA ContentsNow ==
  ASSUME KInv
  PROVE  /\ Contents \in Seq(Values) /\ Len(Contents) = __kfifo_len
         /\ \A i \in 1 .. __kfifo_len : Contents[i] = buffer[Masked(out + i - 1)]
<1>1. out \in Int /\ __kfifo_len \in Nat /\ buffer \in [0 .. Size - 1 -> Values]
  BY Numbers DEF KInv, TypeOK
<1>2. QED BY <1>1, ContentsFacts DEF Contents

LEMMA PublishContents ==
  ASSUME KInv, PutPublish
  PROVE  Contents' = Contents \o SubSeq(wdata, 1, wlen)
<1> DEFINE len == __kfifo_len
           bytes == SubSeq(wdata, 1, wlen)
<1>1. /\ in \in Int /\ out \in Int /\ wlen \in Nat /\ len \in Nat /\ Len(wdata) \in Nat
      /\ wlen <= Len(wdata) /\ wdata \in Seq(Values)
      /\ \A i \in 0 .. wlen - 1 : buffer[Masked(in + i)] = wdata[i + 1]
  BY Numbers DEF KInv, WriterInv, PutPublish, TypeOK
<1>2. __kfifo_len' = len + wlen BY PublishLen
<1>3. /\ Contents \in Seq(Values) /\ Len(Contents) = len
      /\ \A i \in 1 .. len : Contents[i] = buffer[Masked(out + i - 1)]
  BY ContentsNow
<1>4. \A i \in 1 .. wlen : wdata[i] \in Values BY <1>1, ElementOfSeq
<1>5. /\ bytes \in Seq(Values) /\ Len(bytes) = wlen
      /\ \A i \in 1 .. wlen : bytes[i] = wdata[i]
  <2>1. /\ bytes \in Seq(Values) /\ Len(bytes) = IF 1 <= wlen THEN wlen - 1 + 1 ELSE 0
        /\ \A i \in 1 .. wlen - 1 + 1 : bytes[i] = wdata[1 + i - 1]
    BY <1>1, <1>4, SubSeqProperties
  <2>2. QED BY <1>1, <2>1
<1> HIDE DEF bytes, len
<1>6. /\ Contents \o bytes \in Seq(Values) /\ Len(Contents \o bytes) = len + wlen
      /\ \A i \in 1 .. len + wlen :
           (Contents \o bytes)[i] = IF i <= len THEN Contents[i] ELSE bytes[i - len]
  BY <1>3, <1>5, ConcatProperties
<1>7. /\ Contents' \in Seq(Values) /\ Len(Contents') = len + wlen
      /\ \A i \in 1 .. len + wlen : Contents'[i] = buffer[Masked(out + i - 1)]
  <2>1. Contents' = Ring(buffer, out, len + wlen)
    BY <1>2 DEF Contents, PutPublish
  <2>2. len + wlen \in Nat /\ buffer \in [0 .. Size - 1 -> Values] BY <1>1 DEF KInv, TypeOK
  <2>3. QED BY <1>1, <2>1, <2>2, ContentsFacts
<1>8. ASSUME NEW i \in 1 .. len + wlen PROVE Contents'[i] = (Contents \o bytes)[i]
  <2>1. CASE i <= len
    <3>1. i \in 1 .. len BY <1>1, <2>1
    <3>2. QED BY <1>3, <1>6, <1>7, <2>1, <3>1
  <2>2. CASE i > len
    <3>1. i - len \in 1 .. wlen /\ i - len - 1 \in 0 .. wlen - 1 /\ i - len - 1 \in Nat
      BY <1>1, <2>2
    <3>2. (Contents \o bytes)[i] = wdata[i - len] BY <1>1, <1>5, <1>6, <2>2, <3>1
    <3>3. wdata[(i - len - 1) + 1] = buffer[Masked(in + (i - len - 1))] BY <1>1, <3>1
    <3>4. Masked(in + (i - len - 1)) = Masked(out + len + (i - len - 1))
      BY <3>1, InAfterOut DEF len
    <3>5. out + len + (i - len - 1) = out + i - 1 /\ (i - len - 1) + 1 = i - len BY <1>1
    <3>6. QED BY <1>7, <3>2, <3>3, <3>4, <3>5
  <2>3. i <= len \/ i > len BY <1>1
  <2>4. QED BY <2>1, <2>2, <2>3
<1>9. QED BY <1>6, <1>7, <1>8, SeqEqual DEF bytes

LEMMA ReleaseContents ==
  ASSUME KInv, GetRelease
  PROVE  /\ rbuf = SubSeq(Contents, 1, rlen)
         /\ Contents' = SubSeq(Contents, rlen + 1, Len(Contents))
<1> DEFINE len == __kfifo_len
<1>1. /\ out \in Int /\ rlen \in Nat /\ len \in Nat /\ rlen <= len /\ Len(rbuf) = rlen
      /\ rbuf \in Seq(Values)
      /\ \A i \in 1 .. rlen : rbuf[i] = buffer[Masked(out + i - 1)]
  BY Numbers DEF KInv, ReaderInv, GetRelease, TypeOK
<1>2. __kfifo_len' = len - rlen BY ReleaseLen
<1>3. /\ Contents \in Seq(Values) /\ Len(Contents) = len
      /\ \A i \in 1 .. len : Contents[i] = buffer[Masked(out + i - 1)]
  BY ContentsNow
<1>4. \A i \in 1 .. len : Contents[i] \in Values BY <1>3, ElementOfSeq
<1> HIDE DEF len
<1>5. rbuf = SubSeq(Contents, 1, rlen)
  <2> DEFINE s == SubSeq(Contents, 1, rlen)
  <2>1. /\ s \in Seq(Values) /\ Len(s) = IF 1 <= rlen THEN rlen - 1 + 1 ELSE 0
        /\ \A i \in 1 .. rlen - 1 + 1 : s[i] = Contents[1 + i - 1]
    <3>1. \A i \in 1 .. rlen : Contents[i] \in Values BY <1>1, <1>4
    <3>2. QED BY <1>1, <3>1, SubSeqProperties
  <2> HIDE DEF s
  <2>2. Len(s) = rlen BY <1>1, <2>1
  <2>3. ASSUME NEW i \in 1 .. rlen PROVE rbuf[i] = s[i]
    <3>1. s[i] = Contents[i] BY <1>1, <2>1
    <3>2. i \in 1 .. len BY <1>1
    <3>3. QED BY <1>1, <1>3, <3>1, <3>2
  <2>4. QED BY <1>1, <2>1, <2>2, <2>3, SeqEqual DEF s
<1>6. Contents' = SubSeq(Contents, rlen + 1, len)
  <2> DEFINE s == SubSeq(Contents, rlen + 1, len)
  <2>1. /\ s \in Seq(Values) /\ Len(s) = IF rlen + 1 <= len THEN len - (rlen + 1) + 1 ELSE 0
        /\ \A i \in 1 .. len - (rlen + 1) + 1 : s[i] = Contents[rlen + 1 + i - 1]
    <3>1. \A i \in rlen + 1 .. len : Contents[i] \in Values BY <1>1, <1>4
    <3>2. QED BY <1>1, <3>1, SubSeqProperties
  <2> HIDE DEF s
  <2>2. Len(s) = len - rlen BY <1>1, <2>1
  <2>3. out' \in Int BY ReleaseLen, Constants DEF Index
  <2>4. /\ Contents' \in Seq(Values) /\ Len(Contents') = len - rlen
        /\ \A i \in 1 .. len - rlen : Contents'[i] = buffer[Masked(out' + i - 1)]
    <3>1. Contents' = Ring(buffer, out', len - rlen)
      BY <1>2 DEF Contents, GetRelease
    <3>2. len - rlen \in Nat /\ buffer \in [0 .. Size - 1 -> Values] BY <1>1 DEF KInv, TypeOK
    <3>3. QED BY <2>3, <3>1, <3>2, ContentsFacts
  <2>5. ASSUME NEW i \in 1 .. len - rlen PROVE Contents'[i] = s[i]
    <3>1. out' = uint(out + rlen) BY <1>1, <1>2, ReleaseLen
    <3>2. Masked(uint(out + rlen) + (i - 1)) = Masked(out + rlen + (i - 1))
      BY <1>1, MaskedUint
    <3>3. /\ out' + (i - 1) = out' + i - 1
          /\ out + rlen + (i - 1) = out + (rlen + i) - 1
      BY <1>1, <2>3
    <3>4. rlen + i \in 1 .. len BY <1>1
    <3>5. s[i] = Contents[rlen + i]
      <4>1. rlen + 1 + i - 1 = rlen + i /\ i \in 1 .. len - (rlen + 1) + 1 BY <1>1
      <4>2. QED BY <2>1, <4>1
    <3>6. QED BY <1>3, <2>4, <3>1, <3>2, <3>3, <3>4, <3>5
  <2>6. QED BY <2>1, <2>2, <2>4, <2>5, SeqEqual DEF s
<1>7. QED BY <1>3, <1>5, <1>6

(* The slots of what is unread keep their bytes: the contents are the same. *)
LEMMA SameContents ==
  ASSUME KInv, KInv', out' = out, __kfifo_len' = __kfifo_len,
         \A i \in 0 .. __kfifo_len - 1 : buffer'[Masked(out + i)] = buffer[Masked(out + i)]
  PROVE  Contents' = Contents
<1> DEFINE len == __kfifo_len
<1>1. /\ out \in Int /\ len \in Nat /\ buffer \in [0 .. Size - 1 -> Values]
      /\ buffer' \in [0 .. Size - 1 -> Values]
  BY Numbers DEF KInv, TypeOK
<1>2. Contents = Ring(buffer, out, len) /\ Contents' = Ring(buffer', out, len) BY DEF Contents
<1> HIDE DEF len
<1>3. ASSUME NEW i \in 1 .. len PROVE buffer'[Masked(out + i - 1)] = buffer[Masked(out + i - 1)]
  <2>1. i - 1 \in 0 .. len - 1 /\ out + i - 1 = out + (i - 1) BY <1>1
  <2>2. QED BY <2>1 DEF len
<1>4. /\ Contents \in Seq(Values) /\ Contents' \in Seq(Values)
      /\ Len(Contents) = len /\ Len(Contents') = len
      /\ \A i \in 1 .. len : Contents[i] = buffer[Masked(out + i - 1)]
      /\ \A i \in 1 .. len : Contents'[i] = buffer'[Masked(out + i - 1)]
  BY <1>1, <1>2, ContentsFacts
<1>5. QED BY <1>3, <1>4, SeqEqual

(* An empty FIFO has no contents. *)
LEMMA EmptyContents ==
  ASSUME NEW b \in [0 .. Size - 1 -> Values], NEW o \in Int
  PROVE  Ring(b, o, 0) = << >>
<1>1. Ring(b, o, 0) \in Seq(Values) /\ Len(Ring(b, o, 0)) = 0 BY ContentsFacts
<1>2. QED BY <1>1, EmptySeq

(* The FIFO implements a bounded queue: its calls take effect at once, in  *)
(* spite of byte by byte copying, stale samples and wrapping indices.      *)
THEOREM KFifoIsQueue == Spec => IsQueue
<1> USE DEF Queue!bqVars
<1>0. \A S : Queue!Min(S) = Min(S) BY DEF Queue!Min, Min
<1>1. Init => Queue!Init
  <2> SUFFICES ASSUME Init PROVE Queue!Init
    OBVIOUS
  <2>1. KInv /\ __kfifo_len = 0 BY KInvInit
  <2>2. Contents = << >>
    <3>1. out \in Int /\ buffer \in [0 .. Size - 1 -> Values] BY <2>1, Numbers DEF KInv, TypeOK
    <3>2. QED BY <2>1, <3>1, EmptyContents DEF Contents
  <2>3. QED BY <2>2 DEF Init, Queue!Init
<1>2. KInv /\ KInv' /\ [Next]_vars => [Queue!Next]_(Queue!bqVars)
  <2> SUFFICES ASSUME KInv, KInv', [Next]_vars PROVE Queue!Next \/ UNCHANGED Queue!bqVars
    OBVIOUS
  <2>1. ASSUME UNCHANGED <<in, out, buffer>> PROVE Contents' = Contents
    BY <2>1 DEF Contents, __kfifo_len
  <2>2. ASSUME NEW n \in Lens, NEW data \in [1 .. n -> Values], PutSample(data)
        PROVE  Queue!Next
    <3>1. Contents' = Contents BY <2>1, <2>2 DEF PutSample, fifoVars
    <3>2. wlen' = Min({Len(data), Size - Len(Contents)}) BY <2>2, PutSampleStep, ContentsNow
    <3>3. Queue!BeginPut(data)
      BY <1>0, <2>2, <3>1, <3>2 DEF Queue!BeginPut, PutSample, readerVars
    <3>4. QED BY <3>3 DEF Queue!Next, Lens
  <2>3. CASE PutCopy
    <3>1. __kfifo_len' = __kfifo_len /\ out' = out BY <2>3 DEF PutCopy, __kfifo_len
    <3>2. Contents' = Contents BY <2>3, <3>1, PutCopyStep, SameContents
    <3>3. QED BY <2>3, <3>2 DEF PutCopy, readerVars
  <2>4. CASE PutPublish
    <3>1. Contents' = Contents \o SubSeq(wdata, 1, wlen) BY <2>4, PublishContents
    <3>2. Queue!EndPut BY <2>4, <3>1 DEF Queue!EndPut, PutPublish, readerVars
    <3>3. QED BY <3>2 DEF Queue!Next
  <2>5. ASSUME NEW n \in Lens, GetSample(n) PROVE Queue!Next
    <3>1. Contents' = Contents BY <2>1, <2>5 DEF GetSample, fifoVars
    <3>2. rlen' = Min({n, Len(Contents)}) BY <2>5, GetSampleStep, ContentsNow
    <3>3. Queue!BeginGet(n)
      BY <1>0, <2>5, <3>1, <3>2 DEF Queue!BeginGet, GetSample, writerVars
    <3>4. QED BY <3>3 DEF Queue!Next, Lens
  <2>6. CASE GetCopy
    <3>1. Contents' = Contents BY <2>1, <2>6 DEF GetCopy, fifoVars
    <3>2. QED BY <2>6, <3>1 DEF GetCopy, writerVars
  <2>7. CASE GetRelease
    <3>1. rbuf = SubSeq(Contents, 1, rlen) /\ Contents' = SubSeq(Contents, rlen + 1, Len(Contents))
      BY <2>7, ReleaseContents
    <3>2. Queue!EndGet BY <2>7, <3>1 DEF Queue!EndGet, GetRelease, writerVars
    <3>3. QED BY <3>2 DEF Queue!Next
  <2>8. CASE kfifo_reset
    <3>1. __kfifo_len' = 0 BY <2>8, ResetStep
    <3>2. out' \in Int /\ buffer' \in [0 .. Size - 1 -> Values]
      BY <2>8 DEF kfifo_reset, KInv, TypeOK
    <3>3. Contents' = << >> BY <3>1, <3>2, EmptyContents DEF Contents
    <3>4. Queue!Reset BY <2>8, <3>3 DEF Queue!Reset, kfifo_reset, writerVars, readerVars
    <3>5. QED BY <3>4 DEF Queue!Next
  <2>9. CASE UNCHANGED vars BY <2>1, <2>9 DEF vars
  <2>10. QED BY <2>2, <2>3, <2>4, <2>5, <2>6, <2>7, <2>8, <2>9 DEF Next
<1>3. QED BY <1>1, <1>2, KInvariant, PTL DEF Spec, IsQueue, Queue!Spec
-------------------------------------------------------------------------------
(***************************************************************************)
(* What Total() computes: the sum over a finite set, in whatever order its *)
(* elements are taken.  Each fact is proved from a least counterexample.   *)
(***************************************************************************)

(* The element that the sum of s takes first. *)
Pick(s) == CHOOSE x \in s : TRUE

(* g is the function that adds up d with index i over the sets in D. *)
Adds(g, D, d, i) ==
  g = [s \in D |-> IF s = {} THEN 0 ELSE d[Pick(s)][i] + g[s \ {Pick(s)}]]

LEMMA PickIn == ASSUME NEW s, s # {} PROVE Pick(s) \in s
BY DEF Pick

LEMMA SmallerSet ==
  ASSUME NEW S, IsFiniteSet(S), NEW s, s \subseteq S, NEW x \in s
  PROVE  /\ IsFiniteSet(s) /\ IsFiniteSet(s \ {x})
         /\ Cardinality(s) \in Nat /\ Cardinality(s \ {x}) \in Nat
         /\ Cardinality(s \ {x}) = Cardinality(s) - 1
<1>1. IsFiniteSet(s) BY FS_Subset
<1>2. Cardinality(s) \in Nat BY <1>1, FS_CardinalityType
<1>3. IsFiniteSet(s \ {x}) /\ Cardinality(s \ {x}) = Cardinality(s) - 1
  BY <1>1, FS_RemoveElement
<1>4. Cardinality(s \ {x}) \in Nat BY <1>3, FS_CardinalityType
<1>5. QED BY <1>1, <1>2, <1>3, <1>4

UpTo(S, n) == {s \in SUBSET S : Cardinality(s) <= n}

LEMMA AddsExists ==
  ASSUME NEW S, IsFiniteSet(S), NEW d, NEW i
  PROVE  \E g : Adds(g, SUBSET S, d, i)
<1> DEFINE Good(n) == \E g : Adds(g, UpTo(S, n), d, i)
<1>1. Good(0)
  <2> DEFINE g == [s \in UpTo(S, 0) |-> 0]
  <2>1. ASSUME NEW s \in UpTo(S, 0) PROVE s = {}
    <3>1. IsFiniteSet(s) /\ Cardinality(s) <= 0 BY FS_Subset DEF UpTo
    <3>2. Cardinality(s) \in Nat BY <3>1, FS_CardinalityType
    <3>3. Cardinality(s) = 0 BY <3>1, <3>2
    <3>4. QED BY <3>1, <3>3, FS_EmptySet
  <2>2. Adds(g, UpTo(S, 0), d, i) BY <2>1 DEF Adds
  <2>3. QED BY <2>2
<1>2. ASSUME NEW n \in Nat, Good(n) PROVE Good(n + 1)
  <2>1. PICK g : Adds(g, UpTo(S, n), d, i) BY <1>2
  <2> DEFINE h == [s \in UpTo(S, n + 1) |->
                     IF s = {} THEN 0 ELSE d[Pick(s)][i] + g[s \ {Pick(s)}]]
  <2>2. ASSUME NEW s \in UpTo(S, n + 1), s # {}
        PROVE  s \ {Pick(s)} \in UpTo(S, n) /\ s \ {Pick(s)} \in UpTo(S, n + 1)
    <3>1. s \subseteq S /\ Cardinality(s) <= n + 1 BY DEF UpTo
    <3>2. Pick(s) \in s BY <2>2, PickIn
    <3>3. /\ Cardinality(s) \in Nat /\ Cardinality(s \ {Pick(s)}) \in Nat
          /\ Cardinality(s \ {Pick(s)}) = Cardinality(s) - 1
      BY <3>1, <3>2, SmallerSet
    <3>4. Cardinality(s \ {Pick(s)}) <= n /\ Cardinality(s \ {Pick(s)}) <= n + 1
      BY <3>1, <3>3
    <3>5. QED BY <3>1, <3>4 DEF UpTo
  <2>3. ASSUME NEW s \in UpTo(S, n) PROVE s \in UpTo(S, n + 1) /\ h[s] = g[s]
    <3>1. s \in SUBSET S /\ Cardinality(s) <= n BY DEF UpTo
    <3>2. Cardinality(s) \in Nat BY <3>1, FS_Subset, FS_CardinalityType
    <3>3. s \in UpTo(S, n + 1) BY <3>1, <3>2 DEF UpTo
    <3>4. g[s] = IF s = {} THEN 0 ELSE d[Pick(s)][i] + g[s \ {Pick(s)}]
      BY <2>1, Zenon DEF Adds
    <3>5. QED BY <3>3, <3>4
  <2>4. ASSUME NEW s \in UpTo(S, n + 1), s # {}
        PROVE  h[s \ {Pick(s)}] = g[s \ {Pick(s)}]
    BY <2>2, <2>3, <2>4
  <2>5. h = [s \in UpTo(S, n + 1) |->
               IF s = {} THEN 0 ELSE d[Pick(s)][i] + h[s \ {Pick(s)}]]
    BY <2>4, Zenon
  <2>6. QED BY <2>5, Zenon DEF Adds
<1>3. \A n \in Nat : Good(n)
  <2> DEFINE B == {n \in Nat : ~Good(n)}
  <2> HIDE DEF Good
  <2> SUFFICES ASSUME B # {} PROVE FALSE OBVIOUS
  <2>1. PICK n \in B : \A m \in B : n <= m BY LeastNatural
  <2>2. n # 0 BY <1>1
  <2>3. n - 1 \in Nat /\ n - 1 \notin B BY <2>1, <2>2
  <2>4. Good(n - 1 + 1) BY <1>2, <2>3
  <2>5. n - 1 + 1 = n OBVIOUS
  <2>6. QED BY <2>4, <2>5
<1>4. UpTo(S, Cardinality(S)) = SUBSET S
  <2>1. ASSUME NEW s \in SUBSET S PROVE Cardinality(s) <= Cardinality(S)
    BY FS_Subset
  <2>2. QED BY <2>1 DEF UpTo
<1>5. Cardinality(S) \in Nat BY FS_CardinalityType
<1>6. Good(Cardinality(S)) BY <1>3, <1>5
<1>7. QED BY <1>4, <1>6

LEMMA AddsUnique ==
  ASSUME NEW S, IsFiniteSet(S), NEW U, U \subseteq S, NEW d, NEW i, NEW g, NEW h,
         Adds(g, SUBSET S, d, i), Adds(h, SUBSET U, d, i)
  PROVE  \A s \in SUBSET U : g[s] = h[s]
<1> DEFINE B == {n \in Nat : \E s \in SUBSET U : g[s] # h[s] /\ Cardinality(s) = n}
<1>1. ASSUME NEW s \in SUBSET U
      PROVE  /\ g[s] = IF s = {} THEN 0 ELSE d[Pick(s)][i] + g[s \ {Pick(s)}]
             /\ h[s] = IF s = {} THEN 0 ELSE d[Pick(s)][i] + h[s \ {Pick(s)}]
  <2>1. s \in SUBSET S OBVIOUS
  <2>2. g[s] = IF s = {} THEN 0 ELSE d[Pick(s)][i] + g[s \ {Pick(s)}]
    BY <2>1, Zenon DEF Adds
  <2>3. h[s] = IF s = {} THEN 0 ELSE d[Pick(s)][i] + h[s \ {Pick(s)}]
    BY Zenon DEF Adds
  <2>4. QED BY <2>2, <2>3, Zenon
<1>2. ASSUME B # {} PROVE FALSE
  <2>1. PICK n \in B : \A m \in B : n <= m BY <1>2, LeastNatural
  <2>2. PICK s \in SUBSET U : g[s] # h[s] /\ Cardinality(s) = n BY <2>1
  <2>3. s # {} BY <1>1, <2>2
  <2>4. Pick(s) \in s BY <2>3, PickIn
  <2>5. /\ Cardinality(s \ {Pick(s)}) \in Nat
        /\ Cardinality(s \ {Pick(s)}) = n - 1
    BY <2>2, <2>4, SmallerSet
  <2>6. ~ (n <= n - 1) OBVIOUS
  <2>7. g[s \ {Pick(s)}] = h[s \ {Pick(s)}]
    <3>1. s \ {Pick(s)} \in SUBSET U OBVIOUS
    <3>2. Cardinality(s \ {Pick(s)}) \notin B BY <2>1, <2>5, <2>6
    <3>3. QED BY <2>5, <3>1, <3>2
  <2>8. g[s] = h[s] BY <1>1, <2>3, <2>7
  <2>9. QED BY <2>2, <2>8
<1>3. ASSUME NEW s \in SUBSET U PROVE Cardinality(s) \in Nat
  BY FS_Subset, FS_CardinalityType
<1>4. QED BY <1>2, <1>3

LEMMA TotalAdds ==
  ASSUME NEW S, IsFiniteSet(S), NEW d, NEW i, NEW g, Adds(g, SUBSET S, d, i)
  PROVE  Total(d, i, S) = g[S]
<1> DEFINE f == CHOOSE h : Adds(h, SUBSET S, d, i)
<1>1. Total(d, i, S) = f[S]
  BY Zenon DEF Total, MapThenSumSet, MapThenFoldSet, Adds, Pick
<1>2. Adds(f, SUBSET S, d, i) BY Zenon
<1> HIDE DEF f
<1>3. S \in SUBSET S OBVIOUS
<1>4. f[S] = g[S] BY <1>2, <1>3, AddsUnique
<1>5. QED BY <1>1, <1>4

LEMMA TotalPick ==
  ASSUME NEW S, IsFiniteSet(S), NEW d, NEW i
  PROVE  /\ S = {} => Total(d, i, S) = 0
         /\ S # {} => Total(d, i, S) = d[Pick(S)][i] + Total(d, i, S \ {Pick(S)})
<1>1. PICK g : Adds(g, SUBSET S, d, i) BY AddsExists
<1>2. Total(d, i, S) = g[S] BY <1>1, TotalAdds
<1>3. S \in SUBSET S OBVIOUS
<1>4. g[S] = IF S = {} THEN 0 ELSE d[Pick(S)][i] + g[S \ {Pick(S)}]
  BY <1>1, <1>3, Zenon DEF Adds
<1>5. ASSUME NEW U, U \subseteq S PROVE Total(d, i, U) = g[U]
  <2>1. IsFiniteSet(U) BY <1>5, FS_Subset
  <2>2. PICK h : Adds(h, SUBSET U, d, i) BY <2>1, AddsExists
  <2>3. g[U] = h[U] BY <1>1, <1>5, <2>2, AddsUnique
  <2>4. QED BY <2>1, <2>2, <2>3, TotalAdds
<1>6. Total(d, i, S \ {Pick(S)}) = g[S \ {Pick(S)}] BY <1>5
<1>7. QED BY <1>2, <1>4, <1>6

(* A set of finite sets that is not empty has one with the fewest elements. *)
LEMMA LeastSet ==
  ASSUME NEW S, IsFiniteSet(S), NEW Bad, Bad \subseteq SUBSET S, Bad # {}
  PROVE  \E s \in Bad : \A x \in s : s \ {x} \notin Bad
<1> DEFINE B == {n \in Nat : \E s \in Bad : Cardinality(s) = n}
<1>1. ASSUME NEW s \in Bad PROVE Cardinality(s) \in Nat
  BY FS_Subset, FS_CardinalityType
<1>2. B # {} BY <1>1
<1>3. PICK n \in B : \A m \in B : n <= m BY <1>2, LeastNatural
<1>4. PICK s \in Bad : Cardinality(s) = n BY <1>3
<1>5. ASSUME NEW x \in s, s \ {x} \in Bad PROVE FALSE
  <2>1. s \subseteq S OBVIOUS
  <2>2. Cardinality(s \ {x}) \in Nat /\ Cardinality(s \ {x}) = n - 1
    BY <1>4, <2>1, SmallerSet
  <2>3. n <= n - 1 BY <1>3, <1>5, <2>2
  <2>4. QED BY <2>3
<1>6. QED BY <1>5

(* The counters with index i are numbers, and those of d and e are the same. *)
Numeric(d, i, S) == \A p \in S : d[p][i] \in Nat
Same(d, i, e, j, S) == \A p \in S : d[p][i] = e[p][j]

LEMMA TotalType ==
  ASSUME NEW S, IsFiniteSet(S), NEW d, NEW i, Numeric(d, i, S)
  PROVE  \A s \in SUBSET S : Total(d, i, s) \in Nat
<1> DEFINE Bad == {s \in SUBSET S : Total(d, i, s) \notin Nat}
<1> SUFFICES ASSUME Bad # {} PROVE FALSE OBVIOUS
<1>1. PICK s \in Bad : \A x \in s : s \ {x} \notin Bad BY LeastSet
<1>2. IsFiniteSet(s) BY FS_Subset
<1>3. s # {}
  <2>1. s = {} => Total(d, i, s) = 0 BY <1>2, TotalPick
  <2>2. QED BY <1>1, <2>1
<1>4. Pick(s) \in s BY <1>3, PickIn
<1>5. Total(d, i, s) = d[Pick(s)][i] + Total(d, i, s \ {Pick(s)})
  BY <1>2, <1>3, TotalPick
<1>6. Total(d, i, s \ {Pick(s)}) \in Nat BY <1>1, <1>4
<1>7. d[Pick(s)][i] \in Nat BY <1>4 DEF Numeric
<1>8. QED BY <1>5, <1>6, <1>7

(* Any element may be taken first. *)
LEMMA TotalTake ==
  ASSUME NEW S, IsFiniteSet(S), NEW d, NEW i, Numeric(d, i, S),
         NEW z \in S
  PROVE  Total(d, i, S) = d[z][i] + Total(d, i, S \ {z})
<1> DEFINE Bad == {s \in SUBSET S :
             \E x \in s : Total(d, i, s) # d[x][i] + Total(d, i, s \ {x})}
<1> SUFFICES ASSUME Bad # {} PROVE FALSE
  <2>1. S \in SUBSET S OBVIOUS
  <2>2. QED BY <2>1, Zenon
<1>1. PICK s \in Bad : \A x \in s : s \ {x} \notin Bad BY LeastSet
<1>2. PICK x \in s : Total(d, i, s) # d[x][i] + Total(d, i, s \ {x}) BY <1>1
<1>3. PICK y : y = Pick(s) OBVIOUS
<1>4. y \in s BY <1>3, PickIn
<1>5. IsFiniteSet(s) BY FS_Subset
<1>6. Total(d, i, s) = d[y][i] + Total(d, i, s \ {y}) BY <1>3, <1>5, TotalPick
<1>7. x # y BY <1>2, <1>6
<1>8. Total(d, i, s \ {y}) = d[x][i] + Total(d, i, (s \ {y}) \ {x})
  <2>1. s \ {y} \notin Bad BY <1>1, <1>4
  <2>2. QED BY <1>7, <2>1
<1>9. Total(d, i, s \ {x}) = d[y][i] + Total(d, i, (s \ {x}) \ {y})
  <2>1. s \ {x} \notin Bad BY <1>1
  <2>2. QED BY <1>4, <1>7, <2>1
<1>10. (s \ {x}) \ {y} = (s \ {y}) \ {x} OBVIOUS
<1>11. Total(d, i, (s \ {y}) \ {x}) \in Nat BY TotalType
<1>12. d[x][i] \in Nat /\ d[y][i] \in Nat BY <1>4 DEF Numeric
<1>13. PICK a \in Nat : a = d[x][i] BY <1>12
<1>14. PICK b \in Nat : b = d[y][i] BY <1>12
<1>15. PICK t \in Nat : t = Total(d, i, (s \ {y}) \ {x}) BY <1>11
<1>16. Total(d, i, s) = b + (a + t) BY <1>6, <1>8, <1>13, <1>14, <1>15, Zenon
<1>17. Total(d, i, s \ {x}) = b + t BY <1>9, <1>10, <1>14, <1>15, Zenon
<1>18. Total(d, i, s) # a + (b + t) BY <1>2, <1>13, <1>17, Zenon
<1>19. a + (b + t) = b + (a + t) OBVIOUS
<1>20. QED BY <1>16, <1>18, <1>19, Zenon

(* Only the counters of the CPUs in the set matter. *)
LEMMA TotalSame ==
  ASSUME NEW S, IsFiniteSet(S), NEW d, NEW e, NEW i, NEW j,
         Same(d, i, e, j, S)
  PROVE  Total(d, i, S) = Total(e, j, S)
<1> DEFINE Bad == {s \in SUBSET S : Total(d, i, s) # Total(e, j, s)}
<1> SUFFICES ASSUME Bad # {} PROVE FALSE OBVIOUS
<1>1. PICK s \in Bad : \A x \in s : s \ {x} \notin Bad BY LeastSet
<1>2. IsFiniteSet(s) BY FS_Subset
<1>3. s # {} BY <1>1, <1>2, TotalPick
<1>4. Pick(s) \in s BY <1>3, PickIn
<1>5. /\ Total(d, i, s) = d[Pick(s)][i] + Total(d, i, s \ {Pick(s)})
      /\ Total(e, j, s) = e[Pick(s)][j] + Total(e, j, s \ {Pick(s)})
  BY <1>2, <1>3, TotalPick
<1>6. Total(d, i, s \ {Pick(s)}) = Total(e, j, s \ {Pick(s)}) BY <1>1, <1>4
<1>7. d[Pick(s)][i] = e[Pick(s)][j] BY <1>4 DEF Same
<1>8. QED BY <1>5, <1>6, <1>7

(* The counter of one CPU changes. *)
LEMMA TotalUpdate ==
  ASSUME NEW S, IsFiniteSet(S), NEW d, NEW e, NEW i, NEW x \in S,
         Numeric(d, i, S), Numeric(e, i, S), Same(e, i, d, i, S \ {x})
  PROVE  Total(e, i, S) = Total(d, i, S) - d[x][i] + e[x][i]
<1>1. S \in SUBSET S /\ S \ {x} \in SUBSET S OBVIOUS
<1>2. Total(d, i, S) = d[x][i] + Total(d, i, S \ {x}) BY TotalTake
<1>3. Total(e, i, S) = e[x][i] + Total(e, i, S \ {x}) BY TotalTake
<1>4. Total(e, i, S \ {x}) = Total(d, i, S \ {x})
  <2>1. IsFiniteSet(S \ {x}) BY <1>1, FS_Subset
  <2>2. QED BY <2>1, TotalSame
<1>5. Total(d, i, S \ {x}) \in Nat BY <1>1, TotalType
<1>6. d[x][i] \in Nat /\ e[x][i] \in Nat BY DEF Numeric
<1>7. QED BY <1>2, <1>3, <1>4, <1>5, <1>6

LEMMA TotalZero ==
  ASSUME NEW S, IsFiniteSet(S), NEW d, NEW i, \A p \in S : d[p][i] = 0
  PROVE  Total(d, i, S) = 0
<1> DEFINE Bad == {s \in SUBSET S : Total(d, i, s) # 0}
<1> SUFFICES ASSUME Bad # {} PROVE FALSE OBVIOUS
<1>1. PICK s \in Bad : \A x \in s : s \ {x} \notin Bad BY LeastSet
<1>2. IsFiniteSet(s) BY FS_Subset
<1>3. s # {}
  <2>1. s = {} => Total(d, i, s) = 0 BY <1>2, TotalPick
  <2>2. QED BY <1>1, <2>1
<1>4. Pick(s) \in s BY <1>3, PickIn
<1>5. Total(d, i, s) = d[Pick(s)][i] + Total(d, i, s \ {Pick(s)})
  BY <1>2, <1>3, TotalPick
<1>6. Total(d, i, s \ {Pick(s)}) = 0 BY <1>1, <1>4
<1>7. d[Pick(s)][i] = 0 BY <1>4
<1>8. QED BY <1>1, <1>5, <1>6, <1>7

(* No counter is above the sum. *)
LEMMA TotalAbove ==
  ASSUME NEW S, IsFiniteSet(S), NEW d, NEW i, Numeric(d, i, S),
         NEW x \in S
  PROVE  d[x][i] <= Total(d, i, S)
<1>1. S \in SUBSET S /\ S \ {x} \in SUBSET S OBVIOUS
<1>2. Total(d, i, S) = d[x][i] + Total(d, i, S \ {x}) BY TotalTake
<1>3. Total(d, i, S \ {x}) \in Nat BY <1>1, TotalType
<1>4. d[x][i] \in Nat BY DEF Numeric
<1>5. QED BY <1>2, <1>3, <1>4
-------------------------------------------------------------------------------
(* How far p's counter with index i in memory, d, is ahead of what p       *)
(* itself sees, o; not counted for the CPUs in N.                          *)
Lag(d, o, N) ==
  [p \in Cpus |-> [i \in Idx |-> IF p \in N THEN 0 ELSE Count(d[p][i] - o[p][i])]]

In(i) == {r \in Readers : rstep[r] = "in" /\ ridx[r] = i}
At(i) == {r \in Readers : rstep[r] # "idle" /\ ridx[r] = i}

Holding    == {"sched1", "sched2", "scan", "sched3"}
Flipped(u) == upc[u] \in {"sched2", "scan"}

(* Updaters: the mutex, and what is left of an earlier turn. *)
UpdatersOK ==
  /\ \A u \in Updaters : mutex = u <=> upc[u] \in Holding
  /\ \A u \in Updaters : upc[u] # "lock" => advances[u] = 0
  /\ \A u \in Updaters : upc[u] = "scan" => need[u] = {}

(* Readers: what they have besides their place. *)
ReadersOK ==
  /\ \A r \in Readers : rstep[r] = "idle" <=> ridx[r] = NULL
  /\ \A r \in Readers : rstep[r] = "idle" /\ ref[r] # NULL => rcpu[r] # NULL
  /\ \A r \in Readers : late[r] # NULL => rcpu[r] # NULL
  /\ \A r \in Readers : rstep[r] = "lock" => rcpu[r] # NULL
  /\ \A r, s \in Readers : r # s /\ rcpu[r] # NULL => rcpu[s] # rcpu[r]

(* Which indices are in use. *)
IndexOK ==
  /\ (\A u \in Updaters : ~Flipped(u)) =>
       \A r \in Readers : ridx[r] \in {NULL, completed}
  /\ \A h \in Updaters : Flipped(h) =>
       /\ uidx \in Idx /\ uidx # completed
       /\ \A r \in Readers :
            rstep[r] = "lock" /\ ridx[r] = uidx => rcpu[r] \in need[h]

OwnExact == \A i \in Idx : Count(Total(own, i, Cpus)) = Cardinality(In(i))

BehindOK ==
  \A h \in Updaters : Flipped(h) =>
    Cardinality(At(uidx)) + Total(Lag(c, own, need[h]), uidx, Cpus) <= Cardinality(Readers)

SumOK ==
  \A h \in Updaters : upc[h] = "scan" =>
    Cardinality(In(uidx)) + Total(Lag(c, own, need[h]), uidx, unread)
      <= Count(sum + Total(c, uidx, unread))

SomeFlipped == \E h \in Updaters : Flipped(h)

(* Nobody but a reader under the old index, and, after the scan, one whose *)
(* CPU has still to switch, has what x replaced.                           *)
Safe(x) ==
  \A r \in Readers :
    /\ ref[r] = x => rstep[r] = "in" /\ ridx[r] = uidx /\ SomeFlipped
    /\ late[r] = x =>
         \/ SomeFlipped
         \/ \E h \in Updaters : upc[h] = "sched3" /\ rcpu[r] \in need[h]

(* A first synchronize_sched() is over for a reader that is not counted    *)
(* only after its CPU has switched.                                        *)
Sched1OK ==
  \A u \in Updaters, r \in Readers :
    upc[u] = "sched1" /\ ref[r] = u => rstep[r] = "in" \/ rcpu[r] \in need[u]

SafeOK ==
  \A u \in Updaters :
    upc[u] \in {"sched2", "scan", "sched3"} \/ advances[u] >= 2 => Safe(u)

(* One flip seen from outside is as good as a first synchronize_sched(). *)
HelpedOK ==
  \A u \in Updaters, r \in Readers :
    advances[u] >= 1 /\ ref[r] = u =>
      \/ rstep[r] = "in"
      \/ \E h \in Updaters : upc[h] = "sched2" /\ rcpu[r] \in need[h]

GraceOK == GracePeriod /\ Sched1OK /\ SafeOK /\ HelpedOK

SrcuInv ==
  /\ SrcuTypeOK /\ UpdatersOK /\ ReadersOK /\ IndexOK
  /\ OwnExact /\ BehindOK /\ SumOK /\ GraceOK
-------------------------------------------------------------------------------
(* Counting modulo COUNT_RANGE. *)
LEMMA CountRange == COUNT_RANGE \in Nat \ {0}
<1>1. Cardinality(Readers) \in Nat BY SrcuAssumption, FS_CardinalityType
<1>2. COUNT_RANGE \in Nat /\ COUNT_RANGE > Cardinality(Readers) BY SrcuAssumption
<1>3. QED BY <1>1, <1>2

LEMMA CountType == ASSUME NEW n \in Int PROVE Count(n) \in 0 .. COUNT_RANGE - 1
BY CountRange, ModFacts DEF Count

LEMMA CountSmall ==
  ASSUME NEW n \in 0 .. COUNT_RANGE - 1 PROVE Count(n) = n
<1>1. n \in Int /\ n = COUNT_RANGE * 0 + n BY CountRange
<1>2. QED BY <1>1, CountRange, ModUnique DEF Count

(* Only what a number counts as matters to what its sums count as. *)
LEMMA CountSum ==
  ASSUME NEW x \in Int, NEW y \in Int, NEW z \in Int, Count(x) = Count(y)
  PROVE  Count(x + z) = Count(y + z)
<1> DEFINE a == x \div COUNT_RANGE
           b == y \div COUNT_RANGE
           t == x % COUNT_RANGE
<1>1. /\ t \in 0 .. COUNT_RANGE - 1 /\ a \in Int /\ b \in Int
      /\ x = COUNT_RANGE * a + t /\ y = COUNT_RANGE * b + t
  BY CountRange, ModFacts DEF Count
<1> HIDE DEF a, b, t
<1>2. COUNT_RANGE \in Int /\ a - b \in Int BY <1>1, CountRange
<1>3. COUNT_RANGE * (a - b) = COUNT_RANGE * a - COUNT_RANGE * b BY <1>1, <1>2
<1>4. x + z = (y + z) + COUNT_RANGE * (a - b)
  <2>1. PICK u \in Int : u = COUNT_RANGE * a BY <1>1, <1>2
  <2>2. PICK v \in Int : v = COUNT_RANGE * b BY <1>1, <1>2
  <2>3. QED BY <1>1, <1>3, <2>1, <2>2
<1>5. x + z \in Int /\ y + z \in Int OBVIOUS
<1>6. QED BY <1>2, <1>4, <1>5, CountRange, ModShift DEF Count

LEMMA CountCount == ASSUME NEW x \in Int PROVE Count(Count(x)) = Count(x)
BY CountType, CountSmall

LEMMA CountInner ==
  ASSUME NEW x \in Int, NEW z \in Int
  PROVE  /\ Count(Count(x) + z) = Count(x + z)
         /\ Count(z + Count(x)) = Count(z + x)
         /\ Count(z - Count(x)) = Count(z - x)
<1>1. Count(x) \in Int BY CountType
<1>2. Count(Count(x)) = Count(x) BY CountCount
<1>3. Count(Count(x) + z) = Count(x + z) BY <1>1, <1>2, CountSum
<1>4. PICK k : k = Count(x) OBVIOUS
<1>5. k + z = z + k /\ x + z = z + x BY <1>1, <1>4
<1>6. Count(z - k) = Count(z - x)
  <2>1. Count(k + (z - k - x)) = Count(x + (z - k - x))
    <3>1. z - k - x \in Int /\ k \in Int BY <1>1, <1>4
    <3>2. QED BY <1>2, <1>4, <3>1, CountSum
  <2>2. k + (z - k - x) = z - x /\ x + (z - k - x) = z - k BY <1>1, <1>4
  <2>3. QED BY <2>1, <2>2
<1>7. QED BY <1>3, <1>4, <1>5, <1>6

LEMMA CountersType ==
  ASSUME NEW d \in Counters, NEW p \in Cpus, NEW i \in Idx
  PROVE  d[p][i] \in 0 .. COUNT_RANGE - 1 /\ d[p][i] \in Nat
<1>1. d[p][i] \in 0 .. COUNT_RANGE - 1 BY DEF Counters
<1>2. QED BY <1>1, CountRange

LEMMA CountersNumeric ==
  ASSUME NEW d \in Counters, NEW i \in Idx PROVE Numeric(d, i, Cpus)
BY CountersType DEF Numeric
-------------------------------------------------------------------------------
LEMMA CountersTotal ==
  ASSUME NEW d \in Counters, NEW i \in Idx, NEW S, S \subseteq Cpus
  PROVE  Total(d, i, S) \in Nat
<1>1. IsFiniteSet(S) BY SrcuAssumption, FS_Subset
<1>2. Numeric(d, i, S) BY CountersNumeric DEF Numeric
<1>3. QED BY <1>1, <1>2, TotalType

LEMMA CountersAbove ==
  ASSUME NEW d \in Counters, NEW i \in Idx, NEW S, S \subseteq Cpus, NEW p \in S
  PROVE  d[p][i] <= Total(d, i, S)
<1>1. IsFiniteSet(S) BY SrcuAssumption, FS_Subset
<1>2. Numeric(d, i, S) BY CountersNumeric DEF Numeric
<1>3. QED BY <1>1, <1>2, TotalAbove

LEMMA CountersTake ==
  ASSUME NEW d \in Counters, NEW i \in Idx, NEW S, S \subseteq Cpus, NEW p \in S
  PROVE  Total(d, i, S) = d[p][i] + Total(d, i, S \ {p})
<1>1. IsFiniteSet(S) BY SrcuAssumption, FS_Subset
<1>2. Numeric(d, i, S) BY CountersNumeric DEF Numeric
<1>3. QED BY <1>1, <1>2, TotalTake

LEMMA CountersSame ==
  ASSUME NEW d, NEW e, NEW i, NEW S, S \subseteq Cpus, Same(e, i, d, i, Cpus)
  PROVE  Total(e, i, S) = Total(d, i, S)
<1>1. IsFiniteSet(S) BY SrcuAssumption, FS_Subset
<1>2. Same(e, i, d, i, S) BY DEF Same
<1>3. QED BY <1>1, <1>2, TotalSame

(* A sum t after x is replaced by y. *)
Replaced(t, x, y) == t - x + y

(* e is d, with index i, but for p. *)
LEMMA CountersDiffer ==
  ASSUME NEW d \in Counters, NEW e \in Counters, NEW p \in Cpus, NEW i \in Idx,
         NEW S, S \subseteq Cpus, Same(e, i, d, i, Cpus \ {p})
  PROVE  p \in S => Total(e, i, S) = Replaced(Total(d, i, S), d[p][i], e[p][i])
<1>1. IsFiniteSet(S) BY SrcuAssumption, FS_Subset
<1>2. Numeric(d, i, S) /\ Numeric(e, i, S) BY CountersNumeric DEF Numeric
<1>3. Same(e, i, d, i, S \ {p}) BY DEF Same
<1>4. ASSUME p \in S PROVE Total(e, i, S) = Total(d, i, S) - d[p][i] + e[p][i]
  BY <1>1, <1>2, <1>3, <1>4, TotalUpdate
<1>5. QED BY <1>4 DEF Replaced

LEMMA CountersElsewhere ==
  ASSUME NEW d, NEW e, NEW p, NEW i,
         NEW S, S \subseteq Cpus, p \notin S, Same(e, i, d, i, Cpus \ {p})
  PROVE  Total(e, i, S) = Total(d, i, S)
<1>1. IsFiniteSet(S) BY SrcuAssumption, FS_Subset
<1>2. Same(e, i, d, i, S) BY DEF Same
<1>3. QED BY <1>1, <1>2, TotalSame

(* What each CPU sees of its own counters, added up. *)
LEMMA OwnTotal ==
  ASSUME NEW d \in Counters, NEW p \in Cpus, NEW i \in Idx, NEW k \in Int,
         NEW n \in Int, n + k \in 0 .. COUNT_RANGE - 1,
         Count(Total(d, i, Cpus)) = Count(n),
         NEW e \in Counters, Same(e, i, d, i, Cpus \ {p}),
         e[p][i] = Count(d[p][i] + k)
  PROVE  Count(Total(e, i, Cpus)) = n + k
<1>1. d[p][i] \in Nat BY CountersType
<1>2. /\ Total(d, i, Cpus) \in Nat
      /\ Total(e, i, Cpus) = Replaced(Total(d, i, Cpus), d[p][i], e[p][i])
  BY CountersTotal, CountersDiffer
<1>3. PICK t \in Nat : t = Total(d, i, Cpus) BY <1>2
<1>4. PICK x \in Nat : x = d[p][i] BY <1>1
<1>5. Count((t - x) + Count(x + k)) = Count((t - x) + (x + k))
  <2>1. t - x \in Int /\ x + k \in Int OBVIOUS
  <2>2. QED BY <2>1, CountInner
<1>6. (t - x) + (x + k) = t + k OBVIOUS
<1>7. Count(t + k) = Count(n + k)
  <2>1. Count(t) = Count(n) /\ t \in Int BY <1>3
  <2>2. QED BY <2>1, CountSum
<1>8. Count(n + k) = n + k BY CountSmall
<1>9. QED BY <1>2, <1>3, <1>4, <1>5, <1>6, <1>7, <1>8 DEF Replaced
-------------------------------------------------------------------------------
(* What is on its way from the CPUs to memory. *)
LEMMA LagType ==
  ASSUME NEW d \in Counters, NEW o \in Counters, NEW N
  PROVE  Lag(d, o, N) \in Counters
<1>1. ASSUME NEW p \in Cpus, NEW i \in Idx
      PROVE  Count(d[p][i] - o[p][i]) \in 0 .. COUNT_RANGE - 1
  <2>1. d[p][i] \in Nat /\ o[p][i] \in Nat BY CountersType
  <2>2. d[p][i] - o[p][i] \in Int BY <2>1
  <2>3. QED BY <2>2, CountType
<1>2. 0 \in 0 .. COUNT_RANGE - 1 BY CountRange
<1>3. QED BY <1>1, <1>2 DEF Lag, Counters

LEMMA LagAt ==
  ASSUME NEW d, NEW o, NEW N, NEW p \in Cpus, NEW i \in Idx
  PROVE  Lag(d, o, N)[p][i] = IF p \in N THEN 0 ELSE Count(d[p][i] - o[p][i])
BY DEF Lag

LEMMA LagSame ==
  ASSUME NEW d, NEW o, NEW e, NEW N, NEW i \in Idx, Same(e, i, o, i, Cpus)
  PROVE  /\ Same(Lag(d, e, N), i, Lag(d, o, N), i, Cpus)
         /\ Same(Lag(e, d, N), i, Lag(o, d, N), i, Cpus)
BY DEF Same, Lag

LEMMA LagElsewhere ==
  ASSUME NEW d, NEW o, NEW e, NEW N, NEW p, NEW i \in Idx,
         Same(e, i, o, i, Cpus \ {p})
  PROVE  Same(Lag(d, e, N), i, Lag(d, o, N), i, Cpus \ {p})
BY DEF Same, Lag

(* A counter that p lowers. *)
LEMMA LagLowered ==
  ASSUME NEW d \in Counters, NEW o \in Counters, NEW N, NEW p \in Cpus,
         NEW i \in Idx, NEW e \in Counters, p \notin N,
         e[p][i] = Count(o[p][i] - 1)
  PROVE  Lag(d, e, N)[p][i] = Count(Lag(d, o, N)[p][i] + 1)
<1>1. PICK x \in Nat : x = d[p][i] BY CountersType
<1>2. PICK y \in Nat : y = o[p][i] BY CountersType
<1>3. Lag(d, e, N)[p][i] = Count(x - Count(y - 1)) BY <1>1, <1>2, LagAt
<1>4. Lag(d, o, N)[p][i] = Count(x - y) BY <1>1, <1>2, LagAt
<1>5. x - y \in Int /\ y - 1 \in Int /\ 1 \in Int OBVIOUS
<1>6. Count(x - Count(y - 1)) = Count(x - (y - 1)) BY <1>5, CountInner
<1>7. Count(Count(x - y) + 1) = Count((x - y) + 1) BY <1>5, CountInner
<1>8. x - (y - 1) = (x - y) + 1 OBVIOUS
<1>9. QED BY <1>3, <1>4, <1>6, <1>7, <1>8

(* A counter that reaches memory, perhaps at a context switch. *)
LEMMA LagOthers ==
  ASSUME NEW d, NEW e, NEW o, NEW N, NEW M, NEW p, NEW i \in Idx,
         M \ {p} = N \ {p}, Same(e, i, d, i, Cpus \ {p})
  PROVE  Same(Lag(e, o, M), i, Lag(d, o, N), i, Cpus \ {p})
BY DEF Same, Lag

LEMMA LagZero ==
  ASSUME NEW e, NEW o \in Counters, NEW M, NEW p \in Cpus, NEW i \in Idx,
         e[p][i] = o[p][i]
  PROVE  Lag(e, o, M)[p][i] = 0
<1>1. PICK y \in Nat : y = o[p][i] BY CountersType
<1>2. y - y = 0 /\ 0 \in 0 .. COUNT_RANGE - 1 BY CountRange
<1>3. QED BY <1>1, <1>2, LagAt, CountSmall

LEMMA LagRest ==
  ASSUME NEW d \in Counters, NEW o \in Counters, NEW p \in Cpus, NEW i \in Idx
  PROVE  o[p][i] = Count(d[p][i] - Lag(d, o, {})[p][i])
<1>1. PICK x \in Nat : x = d[p][i] BY CountersType
<1>2. PICK y \in 0 .. COUNT_RANGE - 1 : y = o[p][i] BY CountersType
<1>3. y \in Int BY CountRange
<1>4. Lag(d, o, {})[p][i] = Count(x - y) BY <1>1, <1>2, LagAt
<1>5. x - y \in Int BY <1>3
<1>6. Count(x - Count(x - y)) = Count(x - (x - y)) BY <1>5, CountInner
<1>7. x - (x - y) = y BY <1>3
<1>8. QED BY <1>1, <1>2, <1>4, <1>6, <1>7, CountSmall

(* Memory is what the CPUs see and what is on its way, modulo the range. *)
LEMMA LagTotal ==
  ASSUME NEW d \in Counters, NEW o \in Counters, NEW i \in Idx
  PROVE  Count(Total(d, i, Cpus)) =
           Count(Total(o, i, Cpus) + Total(Lag(d, o, {}), i, Cpus))
<1>1. PICK l : l = Lag(d, o, {}) OBVIOUS
<1>2. l \in Counters BY <1>1, LagType
<1> DEFINE Bad == {s \in SUBSET Cpus :
             Count(Total(d, i, s)) # Count(Total(o, i, s) + Total(l, i, s))}
<1> SUFFICES ASSUME Bad # {} PROVE FALSE BY <1>1
<1>3. IsFiniteSet(Cpus) BY SrcuAssumption
<1>4. PICK s \in Bad : \A x \in s : s \ {x} \notin Bad BY <1>3, LeastSet
<1>5. IsFiniteSet(s) BY <1>3, FS_Subset
<1>6. s # {}
  <2>1. ASSUME s = {} PROVE FALSE
    <3>1. Total(d, i, s) = 0 /\ Total(o, i, s) = 0 /\ Total(l, i, s) = 0
      BY <1>5, <2>1, TotalPick
    <3>2. QED BY <1>4, <3>1
  <2>2. QED BY <2>1
<1>7. PICK p \in s : TRUE BY <1>6
<1>8. /\ Numeric(d, i, s) /\ Numeric(o, i, s) /\ Numeric(l, i, s)
      /\ p \in Cpus /\ s \ {p} \in SUBSET s
  BY <1>2, CountersNumeric DEF Numeric
<1>9. /\ Total(d, i, s) = d[p][i] + Total(d, i, s \ {p})
      /\ Total(o, i, s) = o[p][i] + Total(o, i, s \ {p})
      /\ Total(l, i, s) = l[p][i] + Total(l, i, s \ {p})
  BY <1>5, <1>8, TotalTake
<1>10. PICK x \in Nat : x = d[p][i] BY <1>8, CountersType
<1>11. PICK y \in Nat : y = o[p][i] BY <1>8, CountersType
<1>12. PICK z \in Nat : z = l[p][i] BY <1>2, <1>8, CountersType
<1>13. PICK a \in Nat : a = Total(d, i, s \ {p}) BY <1>5, <1>8, TotalType
<1>14. PICK b \in Nat : b = Total(o, i, s \ {p}) BY <1>5, <1>8, TotalType
<1>15. PICK g \in Nat : g = Total(l, i, s \ {p}) BY <1>5, <1>8, TotalType
<1>16. Count(a) = Count(b + g) BY <1>4, <1>7, <1>13, <1>14, <1>15
<1>17. z = Count(x - y) BY <1>1, <1>8, <1>10, <1>11, <1>12, LagAt
<1>18. a \in Int /\ b + g \in Int /\ x \in Int /\ x - y \in Int
       /\ y + (b + g) \in Int
  OBVIOUS
<1>19. Count(a + x) = Count((b + g) + x) BY <1>16, <1>18, CountSum
<1>20. Count((y + (b + g)) + Count(x - y)) = Count((y + (b + g)) + (x - y))
  BY <1>18, CountInner
<1>21. /\ x + a = a + x /\ (y + b) + (z + g) = (y + (b + g)) + z
       /\ (y + (b + g)) + (x - y) = (b + g) + x
  OBVIOUS
<1>22. Count(x + a) = Count((y + b) + (z + g)) BY <1>17, <1>19, <1>20, <1>21
<1>23. QED
  BY <1>4, <1>9, <1>10, <1>11, <1>12, <1>13, <1>14, <1>15, <1>22, Zenon
-------------------------------------------------------------------------------
(* The steps, beginning with the parts of the invariant that do not count. *)
LEMMA SrcuConstants ==
  /\ NULL \notin Updaters /\ NULL \notin Cpus /\ NULL \notin Idx
  /\ "current" \notin Updaters /\ NULL # "current"
BY SrcuAssumption

(* The other index. *)
LEMMA OtherIdx ==
  ASSUME NEW x \in Idx, NEW y, y = CHOOSE i \in Idx : i # x
  PROVE  y \in Idx /\ y # x /\ \A j \in Idx : j = x \/ j = y
<1>1. PICK i, j \in Idx : i # j /\ Idx = {i, j} BY SrcuAssumption
<1>2. \E k \in Idx : k # x BY <1>1
<1>3. y \in Idx /\ y # x BY <1>2
<1>4. QED BY <1>1, <1>3

(* A reader's step: what it runs on. *)
LEMMA RunsOnFacts ==
  ASSUME SrcuTypeOK, ReadersOK, NEW r \in Readers, NEW p \in Cpus, RunsOn(r, p)
  PROVE  /\ rcpu' \in [Readers -> Cpus \cup {NULL}]
         /\ rcpu'[r] = p /\ (rcpu[r] # NULL => rcpu[r] = p)
         /\ \A s \in Readers \ {r} : rcpu'[s] = rcpu[s] /\ rcpu[s] # p
         /\ \A s \in Readers, N \in SUBSET Cpus : rcpu[s] \in N => rcpu'[s] \in N
         /\ \A s \in Readers : rcpu[s] # NULL => rcpu'[s] # NULL
         /\ \A s, t \in Readers : s # t /\ rcpu'[s] # NULL => rcpu'[t] # rcpu'[s]
<1>1. rcpu \in [Readers -> Cpus \cup {NULL}] BY DEF SrcuTypeOK
<1>2. /\ rcpu' = [rcpu EXCEPT ![r] = p] /\ rcpu[r] \in {NULL, p}
      /\ \A s \in Readers \ {r} : rcpu[s] # p
  BY DEF RunsOn
<1>3. /\ rcpu' \in [Readers -> Cpus \cup {NULL}]
      /\ rcpu'[r] = p /\ (rcpu[r] # NULL => rcpu[r] = p)
      /\ \A s \in Readers \ {r} : rcpu'[s] = rcpu[s] /\ rcpu[s] # p
  BY <1>1, <1>2
<1>4. \A s \in Readers : rcpu[s] # NULL => rcpu'[s] # NULL
  BY <1>3, SrcuConstants
<1>5. \A s \in Readers, N \in SUBSET Cpus : rcpu[s] \in N => rcpu'[s] \in N
  BY <1>2, <1>3, SrcuConstants
<1>6. \A s, t \in Readers : s # t /\ rcpu'[s] # NULL => rcpu'[t] # rcpu'[s]
  <2>1. \A s, t \in Readers : s # t /\ rcpu[s] # NULL => rcpu[t] # rcpu[s]
    BY DEF ReadersOK
  <2>2. QED BY <1>3, <2>1
<1>7. QED BY <1>3, <1>4, <1>5, <1>6

LEMMA ReaderType ==
  ASSUME SrcuTypeOK, ReadersOK, NEW r \in Readers, NEW p \in Cpus, Reader(r, p)
  PROVE  SrcuTypeOK'
<1>1. RunsOn(r, p)
  BY DEF Reader, ReadLockIndex, ReadLockCount, Fetch, srcu_read_unlock
<1>2. rcpu' \in [Readers -> Cpus \cup {NULL}] BY <1>1, RunsOnFacts
<1>3. ASSUME NEW i \in Idx
      PROVE  /\ Count(own[p][i] + 1) \in 0 .. COUNT_RANGE - 1
             /\ Count(own[p][i] - 1) \in 0 .. COUNT_RANGE - 1
  <2>1. own[p][i] \in Nat BY CountersType DEF SrcuTypeOK
  <2>2. own[p][i] + 1 \in Int /\ own[p][i] - 1 \in Int BY <2>1
  <2>3. QED BY <2>2, CountType
<1>4. rstep[r] # "idle" => ridx[r] \in Idx BY DEF ReadersOK, SrcuTypeOK
<1>5. CASE ReadLockIndex(r, p)
  BY <1>2, <1>5 DEF SrcuTypeOK, ReadLockIndex, counterVars, updaterVars, scanVars
<1>6. CASE ReadLockCount(r, p)
  <2>1. own' = [own EXCEPT ![p][ridx[r]] = Count(own[p][ridx[r]] + 1)] /\ ridx[r] \in Idx
    BY <1>4, <1>6 DEF ReadLockCount
  <2>2. own' \in Counters BY <1>3, <2>1 DEF SrcuTypeOK, Counters
  <2>3. QED
    BY <1>2, <1>6, <2>2 DEF SrcuTypeOK, ReadLockCount, counterVars, updaterVars, scanVars
<1>7. CASE Fetch(r, p)
  BY <1>2, <1>7 DEF SrcuTypeOK, Fetch, counterVars, updaterVars, scanVars, Objects
<1>8. CASE srcu_read_unlock(r, p)
  <2>1. own' = [own EXCEPT ![p][ridx[r]] = Count(own[p][ridx[r]] - 1)] /\ ridx[r] \in Idx
    BY <1>4, <1>8 DEF srcu_read_unlock
  <2>2. own' \in Counters BY <1>3, <2>1 DEF SrcuTypeOK, Counters
  <2>3. QED
    BY <1>2, <1>8, <2>2
    DEF SrcuTypeOK, srcu_read_unlock, counterVars, updaterVars, scanVars, Objects
<1>9. QED BY <1>5, <1>6, <1>7, <1>8 DEF Reader

LEMMA CpuType ==
  ASSUME SrcuTypeOK, NEW p \in Cpus, Switch(p) \/ \E i \in Idx : Drain(p, i)
  PROVE  SrcuTypeOK'
<1>1. CASE Switch(p)
  <2>1. c' \in Counters BY <1>1 DEF SrcuTypeOK, Switch, Counters
  <2>2. ref' \in [Readers -> Objects] /\ late' \in [Readers -> Objects]
    BY <1>1 DEF SrcuTypeOK, Switch, Objects
  <2>3. rcpu' \in [Readers -> Cpus \cup {NULL}] BY <1>1 DEF SrcuTypeOK, Switch
  <2>4. need' \in [Updaters -> SUBSET Cpus] BY <1>1 DEF SrcuTypeOK, Switch
  <2>5. QED BY <1>1, <2>1, <2>2, <2>3, <2>4 DEF SrcuTypeOK, Switch, scanVars
<1>2. ASSUME NEW i \in Idx, Drain(p, i) PROVE SrcuTypeOK'
  <2>1. c' \in Counters BY <1>2 DEF SrcuTypeOK, Drain, Counters
  <2>2. QED BY <1>2, <2>1 DEF SrcuTypeOK, Drain, readVars, updaterVars, scanVars
<1>3. QED BY <1>1, <1>2

LEMMA UpdaterType ==
  ASSUME SrcuTypeOK, IndexOK, NEW u \in Updaters,
         Enter(u) \/ TakeMutex(u) \/ Synchronize(u)
  PROVE  SrcuTypeOK'
<1> USE DEF SrcuTypeOK, counterVars, readVars, scanVars, Goto, UpdaterPcs
<1>1. CASE Enter(u)
  <2>1. ref' \in [Readers -> Objects] /\ late' \in [Readers -> Objects]
    BY <1>1 DEF Enter, Objects
  <2>2. QED BY <1>1, <2>1 DEF Enter
<1>2. INT_RANGE \in Nat /\ INT_RANGE >= 6 BY SrcuAssumption
<1>3. CASE TakeMutex(u) BY <1>2, <1>3 DEF TakeMutex, FirstSched
<1>4. CASE Flip(u)
  <2>1. completed' \in Idx BY <1>4, OtherIdx DEF Flip
  <2>2. advances' \in [Updaters -> 0 .. INT_RANGE - 1]
    <3>1. \A n \in 0 .. INT_RANGE - 1 : (n + 1) % INT_RANGE \in 0 .. INT_RANGE - 1
      BY <1>2
    <3>2. QED BY <1>4, <3>1 DEF Flip
  <2>3. QED BY <1>4, <2>1, <2>2 DEF Flip, SecondSched
<1>5. 0 \in 0 .. COUNT_RANGE - 1 BY CountRange
<1>6. CASE ScanStart(u) BY <1>5, <1>6 DEF ScanStart
<1>7. CASE ScanDone(u) BY <1>7 DEF ScanDone, ThirdSched
<1>8. CASE Leave(u) BY <1>8 DEF Leave
<1>9. ASSUME NEW p \in Cpus, ScanCpu(u, p) PROVE SrcuTypeOK'
  <2>1. uidx \in Idx BY <1>9 DEF ScanCpu, IndexOK, Flipped
  <2>2. c[p][uidx] \in Nat BY <2>1, CountersType
  <2>3. sum + c[p][uidx] \in Int BY <2>2
  <2>4. sum' \in 0 .. COUNT_RANGE - 1 BY <1>9, <2>3, CountType DEF ScanCpu
  <2>5. QED BY <1>9, <2>4 DEF ScanCpu
<1>10. QED BY <1>1, <1>3, <1>4, <1>6, <1>7, <1>8, <1>9 DEF Synchronize
-------------------------------------------------------------------------------
(* At most one updater is past the mutex. *)
LEMMA OneHolder ==
  ASSUME UpdatersOK, NEW u \in Updaters, upc[u] \in Holding
  PROVE  mutex = u /\ \A v \in Updaters : upc[v] \in Holding => v = u
BY DEF UpdatersOK

LEMMA UpdatersStep ==
  ASSUME SrcuTypeOK, UpdatersOK, SrcuNext PROVE UpdatersOK'
<1> USE DEF SrcuTypeOK, UpdatersOK, Holding
<1>1. ASSUME NEW r \in Readers, NEW p \in Cpus, Reader(r, p) PROVE UpdatersOK'
  BY <1>1 DEF Reader, ReadLockIndex, ReadLockCount, Fetch, srcu_read_unlock, updaterVars
<1>2. ASSUME NEW p \in Cpus, NEW i \in Idx, Drain(p, i) PROVE UpdatersOK'
  BY <1>2 DEF Drain, updaterVars
<1>3. ASSUME NEW p \in Cpus, Switch(p) PROVE UpdatersOK'
  BY <1>3 DEF Switch
<1>4. ASSUME NEW u \in Updaters, Enter(u) \/ TakeMutex(u) \/ Synchronize(u)
      PROVE  UpdatersOK'
  <2> USE SrcuConstants DEF Goto
  <2>1. CASE Enter(u) BY <2>1 DEF Enter
  <2>2. CASE TakeMutex(u) BY <2>2 DEF TakeMutex
  <2>3. CASE Flip(u) BY <2>3 DEF Flip
  <2>4. CASE ScanStart(u)
    <3>1. upc[u] \in {"sched2", "scan"} /\ need[u] = {} BY <2>4 DEF ScanStart
    <3>2. QED BY <2>4, <3>1 DEF ScanStart
  <2>5. CASE ScanDone(u) BY <2>5 DEF ScanDone
  <2>6. CASE Leave(u) BY <2>6 DEF Leave
  <2>7. ASSUME NEW p \in Cpus, ScanCpu(u, p) PROVE UpdatersOK'
    BY <2>7 DEF ScanCpu
  <2>8. QED BY <1>4, <2>1, <2>2, <2>3, <2>4, <2>5, <2>6, <2>7 DEF Synchronize
<1>5. QED BY <1>1, <1>2, <1>3, <1>4 DEF SrcuNext

LEMMA ReadersStep ==
  ASSUME SrcuTypeOK, ReadersOK, SrcuNext PROVE ReadersOK'
<1>1. ASSUME NEW r \in Readers, NEW p \in Cpus, Reader(r, p) PROVE ReadersOK'
  <2>1. RunsOn(r, p)
    BY <1>1 DEF Reader, ReadLockIndex, ReadLockCount, Fetch, srcu_read_unlock
  <2>2. /\ rcpu'[r] # NULL
        /\ \A s \in Readers : rcpu[s] # NULL => rcpu'[s] # NULL
        /\ \A s, t \in Readers : s # t /\ rcpu'[s] # NULL => rcpu'[t] # rcpu'[s]
    BY <2>1, RunsOnFacts, SrcuConstants
  <2> USE SrcuConstants DEF SrcuTypeOK
  <2>3. CASE ReadLockIndex(r, p) BY <2>2, <2>3 DEF ReadLockIndex, ReadersOK
  <2>4. CASE ReadLockCount(r, p) BY <2>2, <2>4 DEF ReadLockCount, ReadersOK
  <2>5. CASE Fetch(r, p) BY <2>2, <2>5 DEF Fetch, ReadersOK
  <2>6. CASE srcu_read_unlock(r, p)
    <3>1. \A s \in Readers \ {r} :
            /\ rstep'[s] = rstep[s] /\ ridx'[s] = ridx[s] /\ ref'[s] = ref[s]
            /\ late'[s] = late[s]
      BY <2>6 DEF srcu_read_unlock
    <3>2. rstep'[r] = "idle" /\ ridx'[r] = NULL /\ ref'[r] = NULL
      BY <2>6 DEF srcu_read_unlock
    <3>3. QED BY <2>2, <3>1, <3>2 DEF ReadersOK
  <2>7. QED BY <1>1, <2>3, <2>4, <2>5, <2>6 DEF Reader
<1>2. ASSUME NEW p \in Cpus, NEW i \in Idx, Drain(p, i) PROVE ReadersOK'
  BY <1>2 DEF Drain, readVars, ReadersOK
<1>3. ASSUME NEW p \in Cpus, Switch(p) PROVE ReadersOK'
  BY <1>3 DEF Switch, ReadersOK, SrcuTypeOK
<1>4. ASSUME NEW u \in Updaters, Enter(u) \/ TakeMutex(u) \/ Synchronize(u)
      PROVE  ReadersOK'
  <2>1. CASE Enter(u) BY <2>1, SrcuConstants DEF Enter, ReadersOK, SrcuTypeOK
  <2>2. CASE TakeMutex(u) \/ Synchronize(u)
    <3>1. UNCHANGED readVars
      BY <2>2 DEF TakeMutex, Synchronize, Flip, ScanStart, ScanDone, Leave, ScanCpu
    <3>2. QED BY <3>1 DEF readVars, ReadersOK
  <2>3. QED BY <1>4, <2>1, <2>2
<1>5. QED BY <1>1, <1>2, <1>3, <1>4 DEF SrcuNext
-------------------------------------------------------------------------------
LEMMA ReaderIndex ==
  ASSUME SrcuTypeOK, ReadersOK, IndexOK, NEW r \in Readers, NEW p \in Cpus, Reader(r, p)
  PROVE  IndexOK'
<1>1. RunsOn(r, p)
  BY DEF Reader, ReadLockIndex, ReadLockCount, Fetch, srcu_read_unlock
<1>2. \A s \in Readers, N \in SUBSET Cpus : rcpu[s] \in N => rcpu'[s] \in N
  BY <1>1, RunsOnFacts
<1>3. UNCHANGED <<completed, upc, need, uidx>>
  BY DEF Reader, ReadLockIndex, ReadLockCount, Fetch, srcu_read_unlock, counterVars,
         updaterVars, scanVars
<1>4. \A s \in Readers :
        /\ ridx'[s] \in {ridx[s], completed, NULL}
        /\ rstep'[s] = "lock" /\ ridx'[s] # completed =>
             rstep[s] = "lock" /\ ridx'[s] = ridx[s]
  BY DEF SrcuTypeOK, Reader, ReadLockIndex, ReadLockCount, Fetch, srcu_read_unlock
<1>5. \A u \in Updaters : Flipped(u)' <=> Flipped(u) BY <1>3 DEF Flipped
<1>6. \A u \in Updaters : need[u] \in SUBSET Cpus BY DEF SrcuTypeOK
<1>7. (\A u \in Updaters : ~Flipped(u)) =>
        \A s \in Readers : ridx'[s] \in {NULL, completed}
  BY <1>4 DEF IndexOK
<1>8. ASSUME NEW h \in Updaters, Flipped(h)
      PROVE  /\ uidx \in Idx /\ uidx # completed
             /\ \A s \in Readers :
                  rstep'[s] = "lock" /\ ridx'[s] = uidx => rcpu'[s] \in need[h]
  BY <1>2, <1>4, <1>6, <1>8 DEF IndexOK
<1>9. QED BY <1>3, <1>5, <1>7, <1>8 DEF IndexOK

LEMMA CpuIndex ==
  ASSUME SrcuTypeOK, IndexOK, NEW p \in Cpus, Switch(p) \/ \E i \in Idx : Drain(p, i)
  PROVE  IndexOK'
<1>1. CASE Switch(p)
  <2>1. /\ UNCHANGED <<completed, upc, uidx, rstep, ridx>>
        /\ \A s \in Readers : rcpu[s] = p => rstep[s] # "lock"
        /\ \A s \in Readers : rcpu[s] # p => rcpu'[s] = rcpu[s]
        /\ \A u \in Updaters : need'[u] = need[u] \ {p}
    BY <1>1 DEF Switch, SrcuTypeOK, scanVars
  <2>2. QED BY <2>1 DEF IndexOK, Flipped
<1>2. ASSUME NEW i \in Idx, Drain(p, i) PROVE IndexOK'
  BY <1>2 DEF Drain, readVars, updaterVars, scanVars, IndexOK, Flipped
<1>3. QED BY <1>1, <1>2

(* When the scan is done and has found nobody, no reader is left under the *)
(* old index.                                                              *)
LEMMA ScanFindsAll ==
  ASSUME SrcuTypeOK, UpdatersOK, ReadersOK, IndexOK, SumOK,
         NEW u \in Updaters, ScanDone(u)
  PROVE  \A r \in Readers : ridx[r] # uidx
<1>1. /\ upc[u] = "scan" /\ unread = {} /\ sum = 0 /\ need[u] = {}
  BY DEF ScanDone, UpdatersOK
<1>2. uidx \in Idx BY <1>1 DEF IndexOK, Flipped
<1>3. IsFiniteSet({}) BY FS_EmptySet
<1>4. \A d, i : Total(d, i, {}) = 0 BY <1>3, TotalPick
<1>5. Count(0) = 0 BY CountRange, CountSmall
<1>6. Cardinality(In(uidx)) <= 0
  <2>1. Cardinality(In(uidx)) \in Nat
    <3>1. In(uidx) \subseteq Readers BY DEF In
    <3>2. QED BY <3>1, SrcuAssumption, FS_Subset, FS_CardinalityType
  <2>2. Cardinality(In(uidx)) + 0 <= Count(0 + 0) BY <1>1, <1>4, Zenon DEF SumOK
  <2>3. QED BY <1>5, <2>1, <2>2
<1>7. In(uidx) = {}
  <2>1. In(uidx) \subseteq Readers BY DEF In
  <2>2. IsFiniteSet(In(uidx)) BY <2>1, SrcuAssumption, FS_Subset
  <2>3. Cardinality(In(uidx)) \in Nat BY <2>2, FS_CardinalityType
  <2>4. Cardinality(In(uidx)) = 0 BY <1>6, <2>3
  <2>5. QED BY <2>2, <2>4, FS_EmptySet
<1>8. \A r \in Readers : rstep[r] = "lock" => ridx[r] # uidx
  BY <1>1 DEF IndexOK, Flipped
<1>9. \A r \in Readers : rstep[r] = "in" => ridx[r] # uidx BY <1>7 DEF In
<1>10. \A r \in Readers : rstep[r] = "idle" => ridx[r] # uidx
  BY <1>2, SrcuConstants DEF ReadersOK
<1>11. QED BY <1>8, <1>9, <1>10 DEF SrcuTypeOK

LEMMA UpdaterIndex ==
  ASSUME SrcuTypeOK, UpdatersOK, ReadersOK, IndexOK, SumOK, NEW u \in Updaters,
         Enter(u) \/ TakeMutex(u) \/ Synchronize(u)
  PROVE  IndexOK'
<1> USE DEF Holding, Flipped, Goto
<1>1. CASE Enter(u)
  BY <1>1 DEF Enter, IndexOK, SrcuTypeOK, counterVars, scanVars
<1>2. CASE TakeMutex(u)
  <2>1. \A v \in Updaters : ~Flipped(v) BY <1>2, SrcuConstants DEF TakeMutex, UpdatersOK
  <2>2. \A v \in Updaters : upc'[v] \notin {"sched2", "scan"}
    BY <1>2, <2>1 DEF TakeMutex, SrcuTypeOK
  <2>3. UNCHANGED <<completed, ridx>> BY <1>2 DEF TakeMutex, counterVars, readVars
  <2>4. QED BY <2>1, <2>2, <2>3 DEF IndexOK
<1>3. CASE Flip(u)
  <2>1. \A v \in Updaters : upc[v] \in Holding => v = u
    BY <1>3, OneHolder DEF Flip
  <2>2. \A v \in Updaters : ~Flipped(v) BY <1>3, <2>1 DEF Flip
  <2>3. \A r \in Readers : ridx[r] \in {NULL, completed} BY <2>2 DEF IndexOK
  <2>4. /\ uidx' = completed /\ completed \in Idx /\ completed' # completed
        /\ need'[u] = Cpus /\ upc'[u] = "sched2" /\ UNCHANGED <<rcpu, rstep, ridx>>
        /\ \A v \in Updaters \ {u} : ~Flipped(v)'
    BY <1>3, <2>2, OtherIdx DEF Flip, SecondSched, SrcuTypeOK, readVars
  <2>5. \A r \in Readers : rstep[r] = "lock" => rcpu[r] \in Cpus
    BY DEF ReadersOK, SrcuTypeOK
  <2>6. QED BY <2>4, <2>5 DEF IndexOK
<1>4. CASE ScanStart(u)
  <2>1. Flipped(u) /\ need[u] = {} BY <1>4 DEF ScanStart, UpdatersOK
  <2>2. \A v \in Updaters : upc[v] \in Holding => v = u BY <2>1, OneHolder
  <2>3. /\ UNCHANGED <<completed, uidx, need, rstep, ridx, rcpu>>
        /\ upc' = [upc EXCEPT ![u] = "scan"]
    BY <1>4 DEF ScanStart, counterVars, readVars
  <2>4. \A v \in Updaters : Flipped(v)' <=> Flipped(v) BY <2>1, <2>3 DEF SrcuTypeOK
  <2>5. QED BY <2>3, <2>4 DEF IndexOK
<1>5. CASE ScanDone(u)
  <2>1. \A r \in Readers : ridx[r] # uidx BY <1>5, ScanFindsAll
  <2>2. uidx \in Idx /\ uidx # completed BY <1>5 DEF IndexOK, ScanDone
  <2>3. \A i \in Idx : i = completed \/ i = uidx
    <3>1. PICK i, j \in Idx : i # j /\ Idx = {i, j} BY SrcuAssumption
    <3>2. QED BY <2>2, <3>1 DEF SrcuTypeOK
  <2>4. \A r \in Readers : ridx[r] \in {NULL, completed}
    BY <2>1, <2>3 DEF SrcuTypeOK
  <2>5. \A v \in Updaters : upc[v] \in Holding => v = u
    BY <1>5, OneHolder DEF ScanDone
  <2>6. \A v \in Updaters : ~Flipped(v)' BY <1>5, <2>5 DEF ScanDone, SrcuTypeOK
  <2>7. UNCHANGED <<completed, ridx>> BY <1>5 DEF ScanDone, counterVars, readVars
  <2>8. QED BY <2>4, <2>6, <2>7 DEF IndexOK
<1>6. CASE Leave(u)
  BY <1>6 DEF Leave, IndexOK, SrcuTypeOK, counterVars, readVars, scanVars
<1>7. ASSUME NEW p \in Cpus, ScanCpu(u, p) PROVE IndexOK'
  BY <1>7 DEF ScanCpu, IndexOK, counterVars, readVars
<1>8. QED
  BY <1>1, <1>2, <1>3, <1>4, <1>5, <1>6, <1>7 DEF Synchronize
-------------------------------------------------------------------------------
(* The grace period. *)
LEMMA ReaderGrace ==
  ASSUME SrcuTypeOK, ReadersOK, GraceOK, NEW r \in Readers, NEW p \in Cpus,
         Reader(r, p)
  PROVE  GraceOK'
<1>1. RunsOn(r, p)
  BY DEF Reader, ReadLockIndex, ReadLockCount, Fetch, srcu_read_unlock
<1>2. \A s \in Readers, N \in SUBSET Cpus : rcpu[s] \in N => rcpu'[s] \in N
  BY <1>1, RunsOnFacts
<1>3. UNCHANGED <<upc, advances, need, uidx>>
  BY DEF Reader, ReadLockIndex, ReadLockCount, Fetch, srcu_read_unlock,
         updaterVars, scanVars
<1>4. \A u \in Updaters, s \in Readers : ref'[s] = u =>
        ref[s] = u /\ (rstep[s] = "in" => rstep'[s] = "in" /\ ridx'[s] = ridx[s])
  BY SrcuConstants
  DEF SrcuTypeOK, Reader, ReadLockIndex, ReadLockCount, Fetch, srcu_read_unlock
<1>5. \A u \in Updaters, s \in Readers : late'[s] = u => late[s] = u \/ ref[s] = u
  BY DEF SrcuTypeOK, Reader, ReadLockIndex, ReadLockCount, Fetch, srcu_read_unlock
<1>6. \A u \in Updaters : need[u] \in SUBSET Cpus BY DEF SrcuTypeOK
<1>7. GracePeriod' BY <1>3, <1>4, <1>5 DEF GraceOK, GracePeriod
<1>8. Sched1OK' BY <1>2, <1>3, <1>4, <1>6 DEF GraceOK, Sched1OK
<1>9. SafeOK'
  <2>1. SomeFlipped' <=> SomeFlipped BY <1>3 DEF SomeFlipped, Flipped
  <2>2. ASSUME NEW u \in Updaters, Safe(u) PROVE Safe(u)'
    <3>1. ASSUME NEW s \in Readers, ref'[s] = u
          PROVE  rstep'[s] = "in" /\ ridx'[s] = uidx' /\ SomeFlipped'
      BY <1>3, <1>4, <2>1, <2>2, <3>1 DEF Safe
    <3>2. ASSUME NEW s \in Readers, late'[s] = u
          PROVE  \/ SomeFlipped'
                 \/ \E h \in Updaters : upc'[h] = "sched3" /\ rcpu'[s] \in need'[h]
      <4>1. SomeFlipped \/ \E h \in Updaters : upc[h] = "sched3" /\ rcpu[s] \in need[h]
        BY <1>5, <2>2, <3>2 DEF Safe
      <4>2. QED BY <1>2, <1>3, <1>6, <2>1, <4>1
    <3>3. QED BY <3>1, <3>2 DEF Safe
  <2>3. QED BY <1>3, <2>2 DEF GraceOK, SafeOK
<1>10. HelpedOK' BY <1>2, <1>3, <1>4, <1>6 DEF GraceOK, HelpedOK
<1>11. QED BY <1>7, <1>8, <1>9, <1>10 DEF GraceOK

LEMMA CpuGrace ==
  ASSUME SrcuTypeOK, GraceOK, NEW p \in Cpus, Switch(p) \/ \E i \in Idx : Drain(p, i)
  PROVE  GraceOK'
<1>1. ASSUME NEW i \in Idx, Drain(p, i) PROVE GraceOK'
  BY <1>1 DEF Drain, readVars, updaterVars, scanVars, GraceOK, GracePeriod, Sched1OK,
              SafeOK, HelpedOK, Safe, SomeFlipped, Flipped
<1>2. CASE Switch(p)
  <2>1. UNCHANGED <<upc, advances, uidx, rstep, ridx>>
    BY <1>2 DEF Switch, scanVars
  <2>2. \A s \in Readers : rcpu[s] # p => rcpu'[s] = rcpu[s]
    BY <1>2 DEF Switch
  <2>3. \A u \in Updaters : need'[u] = need[u] \ {p} BY <1>2 DEF Switch
  <2>4. \A u \in Updaters, s \in Readers : ref'[s] = u =>
          ref[s] = u /\ (rcpu[s] = p => rstep[s] = "in")
    BY <1>2, SrcuConstants DEF Switch, SrcuTypeOK
  <2>5. \A u \in Updaters, s \in Readers : late'[s] = u => late[s] = u /\ rcpu[s] # p
    BY <1>2, SrcuConstants DEF Switch
  <2>6. \A u \in Updaters, s \in Readers :
          rcpu[s] # p /\ rcpu[s] \in need[u] => rcpu'[s] \in need'[u]
    BY <2>2, <2>3
  <2>7. GracePeriod' BY <2>1, <2>4, <2>5 DEF GraceOK, GracePeriod
  <2>8. Sched1OK' BY <2>1, <2>4, <2>6 DEF GraceOK, Sched1OK
  <2>9. SafeOK'
    <3>1. SomeFlipped' <=> SomeFlipped BY <2>1 DEF SomeFlipped, Flipped
    <3>2. ASSUME NEW u \in Updaters, Safe(u) PROVE Safe(u)'
      <4>1. ASSUME NEW s \in Readers, ref'[s] = u
            PROVE  rstep'[s] = "in" /\ ridx'[s] = uidx' /\ SomeFlipped'
        BY <2>1, <2>4, <3>1, <3>2, <4>1 DEF Safe
      <4>2. ASSUME NEW s \in Readers, late'[s] = u
            PROVE  \/ SomeFlipped'
                   \/ \E h \in Updaters : upc'[h] = "sched3" /\ rcpu'[s] \in need'[h]
        <5>1. \/ SomeFlipped
              \/ \E h \in Updaters : upc[h] = "sched3" /\ rcpu[s] \in need[h]
          BY <2>5, <3>2, <4>2 DEF Safe
        <5>2. rcpu[s] # p BY <2>5, <4>2
        <5>3. QED BY <2>1, <2>6, <3>1, <5>1, <5>2
      <4>3. QED BY <4>1, <4>2 DEF Safe
    <3>3. QED BY <2>1, <3>2 DEF GraceOK, SafeOK
  <2>10. HelpedOK' BY <2>1, <2>4, <2>6 DEF GraceOK, HelpedOK
  <2>11. QED BY <2>7, <2>8, <2>9, <2>10 DEF GraceOK
<1>3. QED BY <1>1, <1>2

LEMMA EnterGrace ==
  ASSUME SrcuTypeOK, UpdatersOK, GraceOK, NEW u \in Updaters, Enter(u) PROVE GraceOK'
<1>1. /\ upc[u] = "idle" /\ upc' = [upc EXCEPT ![u] = "lock"]
      /\ UNCHANGED <<advances, need, uidx, rcpu, rstep, ridx>>
  BY DEF Enter, Goto, scanVars
<1>2. advances[u] = 0 BY <1>1 DEF UpdatersOK
<1>3. \A v \in Updaters \ {u}, s \in Readers :
        (ref'[s] = v => ref[s] = v) /\ (late'[s] = v => late[s] = v)
  BY SrcuConstants DEF Enter
<1>4. \A v \in Updaters \ {u} : upc'[v] = upc[v] BY <1>1 DEF SrcuTypeOK
<1>5. upc'[u] = "lock" BY <1>1 DEF SrcuTypeOK
<1>6. GracePeriod' BY <1>3, <1>4, <1>5 DEF GraceOK, GracePeriod
<1>7. Sched1OK' BY <1>1, <1>3, <1>4, <1>5 DEF GraceOK, Sched1OK
<1>8. SafeOK'
  <2>1. SomeFlipped' <=> SomeFlipped BY <1>1, <1>4, <1>5 DEF SomeFlipped, Flipped
  <2>2. ASSUME NEW v \in Updaters \ {u}, Safe(v) PROVE Safe(v)'
    BY <1>1, <1>3, <1>4, <2>1, <2>2 DEF Safe
  <2>3. QED BY <1>1, <1>2, <1>4, <1>5, <2>2 DEF GraceOK, SafeOK
<1>9. HelpedOK' BY <1>1, <1>2, <1>3, <1>4, <1>5 DEF GraceOK, HelpedOK
<1>10. QED BY <1>6, <1>7, <1>8, <1>9 DEF GraceOK

(* Nobody has what was replaced before a call that may return. *)
LEMMA SafeUnused ==
  ASSUME NEW u \in Updaters, Safe(u), ~SomeFlipped,
         \A h \in Updaters, r \in Readers : upc[h] = "sched3" => rcpu[r] \notin need[h],
         NEW r \in Readers
  PROVE  ref[r] # u /\ late[r] # u
BY DEF Safe

LEMMA TakeMutexGrace ==
  ASSUME SrcuTypeOK, UpdatersOK, ReadersOK, GraceOK, NEW u \in Updaters, TakeMutex(u)
  PROVE  GraceOK'
<1>1. \A v \in Updaters : upc[v] \notin Holding
  BY SrcuConstants DEF TakeMutex, UpdatersOK
<1>2. /\ UNCHANGED <<ref, late, rcpu, rstep, ridx, uidx>> /\ upc[u] = "lock"
      /\ advances'[u] = 0 /\ \A v \in Updaters \ {u} : advances'[v] = advances[v]
      /\ \A v \in Updaters \ {u} : upc'[v] = upc[v] /\ need'[v] = need[v]
  BY DEF TakeMutex, readVars, scanVars, Goto, SrcuTypeOK
<1>3. ~SomeFlipped /\ ~SomeFlipped'
  <2>1. upc'[u] \in {"idle", "sched1"} BY DEF TakeMutex, Goto, SrcuTypeOK
  <2>2. QED BY <1>1, <1>2, <2>1 DEF SomeFlipped, Flipped, Holding
<1>4. ASSUME NEW v \in Updaters, Safe(v), NEW r \in Readers
      PROVE  ref[r] # v /\ late[r] # v
  <2>1. \A h \in Updaters, s \in Readers : upc[h] = "sched3" => rcpu[s] \notin need[h]
    BY <1>1 DEF Holding
  <2>2. QED BY <1>3, <1>4, <2>1, SafeUnused
<1>5. ASSUME NEW v \in Updaters, Safe(v) PROVE Safe(v)'
  BY <1>2, <1>4, <1>5 DEF Safe
<1>6. \/ upc'[u] = "idle" /\ advances[u] >= 2
      \/ upc'[u] = "sched1" /\ need'[u] = Cpus
  BY DEF TakeMutex, HelpedOut, FirstSched, Goto, SrcuTypeOK
<1>7. GracePeriod'
  <2>1. ASSUME upc'[u] = "idle", NEW r \in Readers PROVE ref[r] # u /\ late[r] # u
    <3>1. Safe(u) BY <1>6, <2>1 DEF GraceOK, SafeOK
    <3>2. QED BY <1>4, <3>1
  <2>2. QED BY <1>2, <2>1 DEF GraceOK, GracePeriod
<1>8. Sched1OK'
  <2>1. ASSUME upc'[u] = "sched1", NEW r \in Readers, ref[r] = u
        PROVE  rstep[r] = "in" \/ rcpu[r] \in need'[u]
    <3>1. need'[u] = Cpus BY <1>6, <2>1
    <3>2. rstep[r] = "in" \/ rcpu[r] \in Cpus
      BY <2>1, SrcuConstants DEF ReadersOK, SrcuTypeOK
    <3>3. QED BY <3>1, <3>2
  <2>2. QED BY <1>2, <2>1 DEF GraceOK, Sched1OK
<1>9. SafeOK' BY <1>2, <1>5, <1>6 DEF GraceOK, SafeOK
<1>10. HelpedOK'
  <2>1. ASSUME NEW v \in Updaters, NEW r \in Readers, advances'[v] >= 1, ref[r] = v
        PROVE  rstep[r] = "in"
    <3>1. v # u /\ advances[v] >= 1 BY <1>2, <2>1
    <3>2. QED BY <1>1, <2>1, <3>1 DEF GraceOK, HelpedOK, Holding
  <2>2. QED BY <1>2, <2>1 DEF HelpedOK
<1>11. QED BY <1>7, <1>8, <1>9, <1>10 DEF GraceOK

LEMMA FlipGrace ==
  ASSUME SrcuTypeOK, UpdatersOK, ReadersOK, IndexOK, GraceOK, NEW u \in Updaters,
         Flip(u)
  PROVE  GraceOK'
<1>1. \A v \in Updaters : upc[v] \in Holding => v = u
  BY OneHolder DEF Flip, Holding
<1>2. /\ upc[u] = "sched1" /\ need[u] = {} /\ uidx' = completed
      /\ UNCHANGED <<ref, late, rcpu, rstep, ridx>>
      /\ upc'[u] = "sched2" /\ need'[u] = Cpus
      /\ \A v \in Updaters \ {u} : upc'[v] = upc[v] /\ need'[v] = need[v]
  BY DEF Flip, SecondSched, readVars, Goto, SrcuTypeOK
<1>3. ~SomeFlipped BY <1>1, <1>2 DEF SomeFlipped, Flipped, Holding
<1>4. SomeFlipped' BY <1>2 DEF SomeFlipped, Flipped
<1>5. \A r \in Readers : rstep[r] = "in" => ridx[r] = completed
  BY <1>3 DEF IndexOK, SomeFlipped, ReadersOK
<1>6. INT_RANGE \in Nat /\ INT_RANGE >= 6 BY SrcuAssumption
<1>7. \A v \in Updaters : advances'[v] >= 1 =>
        advances'[v] = advances[v] \/ advances'[v] = advances[v] + 1
  <2>1. \A n \in 0 .. INT_RANGE - 1 :
          (n + 1) % INT_RANGE >= 1 => (n + 1) % INT_RANGE = n + 1
    <3>1. ASSUME NEW n \in 0 .. INT_RANGE - 1, (n + 1) % INT_RANGE >= 1
          PROVE  (n + 1) % INT_RANGE = n + 1
      <4>1. CASE n = INT_RANGE - 1
        <5>1. n + 1 \in Int /\ n + 1 = INT_RANGE * 1 + 0 /\ 0 \in 0 .. INT_RANGE - 1
          BY <1>6, <4>1
        <5>2. INT_RANGE \in Nat \ {0} BY <1>6
        <5>3. (n + 1) % INT_RANGE = 0 BY <5>1, <5>2, ModUnique
        <5>4. QED BY <3>1, <5>3
      <4>2. CASE n # INT_RANGE - 1
        <5>1. /\ n + 1 \in Int /\ n + 1 = INT_RANGE * 0 + (n + 1)
              /\ n + 1 \in 0 .. INT_RANGE - 1
          BY <1>6, <4>2
        <5>2. INT_RANGE \in Nat \ {0} BY <1>6
        <5>3. QED BY <5>1, <5>2, ModUnique
      <4>3. QED BY <4>1, <4>2
    <3>2. QED BY <3>1
  <2>2. \A v \in Updaters : advances'[v] \in {advances[v], (advances[v] + 1) % INT_RANGE}
    BY DEF Flip
  <2>3. \A v \in Updaters : advances[v] \in 0 .. INT_RANGE - 1 BY DEF SrcuTypeOK
  <2>4. ASSUME NEW v \in Updaters, advances'[v] >= 1
        PROVE  advances'[v] = advances[v] \/ advances'[v] = advances[v] + 1
    <3>1. PICK n \in 0 .. INT_RANGE - 1 : n = advances[v] BY <2>3
    <3>2. CASE advances'[v] = (n + 1) % INT_RANGE BY <2>1, <2>4, <3>1, <3>2
    <3>3. QED BY <2>2, <3>1, <3>2
  <2>5. QED BY <2>4
<1>8. ASSUME NEW v \in Updaters, NEW r \in Readers, ref[r] = v,
             v = u \/ advances[v] >= 1
      PROVE  rstep[r] = "in"
  BY <1>1, <1>2, <1>8 DEF GraceOK, Sched1OK, HelpedOK, Holding
<1>9. GracePeriod' BY <1>2 DEF GraceOK, GracePeriod
<1>10. Sched1OK' BY <1>1, <1>2 DEF Sched1OK, Holding
<1>11. SafeOK'
  <2>1. ASSUME NEW v \in Updaters,
               upc'[v] \in {"sched2", "scan", "sched3"} \/ advances'[v] >= 2
        PROVE  Safe(v)'
    <3>1. v = u \/ advances[v] >= 1
      <4>1. CASE advances'[v] >= 2
        <5>1. advances'[v] \in Nat /\ advances[v] \in Nat
          <6>1. SrcuTypeOK' BY UpdaterType DEF Synchronize
          <6>2. QED BY <1>6, <6>1 DEF SrcuTypeOK
        <5>2. advances'[v] >= 1 BY <4>1, <5>1
        <5>3. QED BY <1>7, <4>1, <5>1, <5>2
      <4>2. CASE upc'[v] \in {"sched2", "scan", "sched3"}
        BY <1>1, <1>2, <4>2 DEF Holding
      <4>3. QED BY <2>1, <4>1, <4>2
    <3>2. \A r \in Readers : ref'[r] = v => rstep'[r] = "in" /\ ridx'[r] = uidx'
      BY <1>2, <1>5, <1>8, <3>1
    <3>3. QED BY <1>4, <3>2 DEF Safe
  <2>2. QED BY <2>1 DEF SafeOK
<1>12. HelpedOK'
  <2>1. ASSUME NEW v \in Updaters, NEW r \in Readers, ref[r] = v
        PROVE  rstep[r] = "in" \/ rcpu[r] \in Cpus
    BY <2>1, SrcuConstants DEF ReadersOK, SrcuTypeOK
  <2>2. QED BY <1>2, <2>1 DEF HelpedOK
<1>13. QED BY <1>9, <1>10, <1>11, <1>12 DEF GraceOK

LEMMA ScanGrace ==
  ASSUME SrcuTypeOK, UpdatersOK, GraceOK, NEW u \in Updaters,
         ScanStart(u) \/ \E p \in Cpus : ScanCpu(u, p)
  PROVE  GraceOK'
<1>1. /\ upc[u] \in {"sched2", "scan"} /\ need[u] = {}
      /\ UNCHANGED <<ref, late, rcpu, rstep, ridx, uidx, advances, need>>
      /\ upc'[u] = "scan" /\ \A v \in Updaters \ {u} : upc'[v] = upc[v]
  BY DEF ScanStart, ScanCpu, readVars, Goto, SrcuTypeOK, UpdatersOK
<1>2. \A v \in Updaters : upc[v] \in Holding => v = u BY <1>1, OneHolder DEF Holding
<1>3. SomeFlipped /\ SomeFlipped' BY <1>1 DEF SomeFlipped, Flipped
<1>4. GracePeriod' BY <1>1 DEF GraceOK, GracePeriod
<1>5. Sched1OK' BY <1>1 DEF GraceOK, Sched1OK
<1>6. SafeOK'
  <2>1. ASSUME NEW v \in Updaters, Safe(v) PROVE Safe(v)'
    BY <1>1, <1>3, <2>1 DEF Safe
  <2>2. QED BY <1>1, <2>1 DEF GraceOK, SafeOK
<1>7. HelpedOK'
  <2>1. ASSUME NEW v \in Updaters, NEW r \in Readers, advances[v] >= 1, ref[r] = v
        PROVE  rstep[r] = "in"
    BY <1>1, <1>2, <2>1 DEF GraceOK, HelpedOK, Holding
  <2>2. QED BY <1>1, <2>1 DEF HelpedOK
<1>8. QED BY <1>4, <1>5, <1>6, <1>7 DEF GraceOK

LEMMA ScanDoneGrace ==
  ASSUME SrcuTypeOK, UpdatersOK, ReadersOK, IndexOK, SumOK, GraceOK,
         NEW u \in Updaters, ScanDone(u)
  PROVE  GraceOK'
<1>1. /\ upc[u] = "scan" /\ upc'[u] = "sched3" /\ need'[u] = Cpus
      /\ UNCHANGED <<ref, late, rcpu, rstep, ridx, advances>>
      /\ \A v \in Updaters \ {u} : upc'[v] = upc[v] /\ need'[v] = need[v]
  BY DEF ScanDone, ThirdSched, readVars, Goto, SrcuTypeOK
<1>2. \A v \in Updaters : upc[v] \in Holding => v = u BY <1>1, OneHolder DEF Holding
<1>3. \A r \in Readers : ridx[r] # uidx BY ScanFindsAll
<1>4. GracePeriod' BY <1>1 DEF GraceOK, GracePeriod
<1>5. Sched1OK' BY <1>1, <1>2 DEF Sched1OK, Holding
<1>6. SafeOK'
  <2>1. ASSUME NEW v \in Updaters, Safe(v) PROVE Safe(v)'
    <3>1. \A r \in Readers : ref[r] # v BY <1>3, <2>1 DEF Safe
    <3>2. \A r \in Readers : late[r] = v => rcpu[r] \in Cpus
      BY SrcuConstants DEF ReadersOK, SrcuTypeOK
    <3>3. QED BY <1>1, <3>1, <3>2 DEF Safe
  <2>2. QED BY <1>1, <2>1 DEF GraceOK, SafeOK
<1>7. HelpedOK'
  <2>1. ASSUME NEW v \in Updaters, NEW r \in Readers, advances[v] >= 1, ref[r] = v
        PROVE  rstep[r] = "in"
    BY <1>1, <1>2, <2>1 DEF GraceOK, HelpedOK, Holding
  <2>2. QED BY <1>1, <2>1 DEF HelpedOK
<1>8. QED BY <1>4, <1>5, <1>6, <1>7 DEF GraceOK

LEMMA LeaveGrace ==
  ASSUME SrcuTypeOK, UpdatersOK, GraceOK, NEW u \in Updaters, Leave(u)
  PROVE  GraceOK'
<1>1. /\ upc[u] = "sched3" /\ need[u] = {} /\ upc'[u] = "idle"
      /\ UNCHANGED <<ref, late, rcpu, rstep, ridx, advances, need>>
      /\ \A v \in Updaters \ {u} : upc'[v] = upc[v]
  BY DEF Leave, readVars, Goto, SrcuTypeOK
<1>2. \A v \in Updaters : upc[v] \in Holding => v = u BY <1>1, OneHolder DEF Holding
<1>3. ~SomeFlipped BY <1>1, <1>2 DEF SomeFlipped, Flipped, Holding
<1>4. \A h \in Updaters, r \in Readers : upc[h] = "sched3" => rcpu[r] \notin need[h]
  BY <1>1, <1>2 DEF Holding
<1>5. ASSUME NEW v \in Updaters, Safe(v), NEW r \in Readers
      PROVE  ref[r] # v /\ late[r] # v
  BY <1>3, <1>4, <1>5, SafeUnused
<1>6. GracePeriod'
  <2>1. Safe(u) BY <1>1 DEF GraceOK, SafeOK
  <2>2. QED BY <1>1, <1>5, <2>1 DEF GraceOK, GracePeriod
<1>7. Sched1OK' BY <1>1 DEF GraceOK, Sched1OK
<1>8. SafeOK'
  <2>1. ASSUME NEW v \in Updaters, Safe(v) PROVE Safe(v)'
    BY <1>1, <1>5, <2>1 DEF Safe
  <2>2. QED BY <1>1, <2>1 DEF GraceOK, SafeOK
<1>9. HelpedOK' BY <1>1 DEF GraceOK, HelpedOK
<1>10. QED BY <1>6, <1>7, <1>8, <1>9 DEF GraceOK

LEMMA UpdaterGrace ==
  ASSUME SrcuTypeOK, UpdatersOK, ReadersOK, IndexOK, SumOK, GraceOK,
         NEW u \in Updaters, Enter(u) \/ TakeMutex(u) \/ Synchronize(u)
  PROVE  GraceOK'
<1>1. CASE Enter(u) BY <1>1, EnterGrace
<1>2. CASE TakeMutex(u) BY <1>2, TakeMutexGrace
<1>3. CASE Flip(u) BY <1>3, FlipGrace
<1>4. CASE ScanStart(u) \/ \E p \in Cpus : ScanCpu(u, p) BY <1>4, ScanGrace
<1>5. CASE ScanDone(u) BY <1>5, ScanDoneGrace
<1>6. CASE Leave(u) BY <1>6, LeaveGrace
<1>7. QED BY <1>1, <1>2, <1>3, <1>4, <1>5, <1>6 DEF Synchronize
-------------------------------------------------------------------------------
(* The counts.  First, sets of readers. *)
LEMMA ReaderSets ==
  ASSUME NEW S, S \subseteq Readers
  PROVE  /\ IsFiniteSet(S) /\ Cardinality(S) \in Nat
         /\ Cardinality(Readers) \in Nat /\ Cardinality(S) <= Cardinality(Readers)
         /\ COUNT_RANGE \in Nat /\ Cardinality(Readers) < COUNT_RANGE
         /\ \A r \in Readers \ S : Cardinality(S \cup {r}) = Cardinality(S) + 1
         /\ \A r \in S : Cardinality(S \ {r}) = Cardinality(S) - 1
<1>1. IsFiniteSet(Readers) BY SrcuAssumption
<1>2. IsFiniteSet(S) /\ Cardinality(S) <= Cardinality(Readers) BY <1>1, FS_Subset
<1>3. Cardinality(S) \in Nat /\ Cardinality(Readers) \in Nat
  BY <1>1, <1>2, FS_CardinalityType
<1>4. COUNT_RANGE \in Nat /\ Cardinality(Readers) < COUNT_RANGE
  BY <1>3, SrcuAssumption
<1>5. \A r \in Readers \ S : Cardinality(S \cup {r}) = Cardinality(S) + 1
  BY <1>2, FS_AddElement
<1>6. \A r \in S : Cardinality(S \ {r}) = Cardinality(S) - 1
  BY <1>2, FS_RemoveElement
<1>7. QED BY <1>2, <1>3, <1>4, <1>5, <1>6

(* Who is counted, and who has an index, after a reader's step. *)
LEMMA LockCountSets ==
  ASSUME SrcuTypeOK, NEW r \in Readers, NEW p \in Cpus, ReadLockCount(r, p),
         NEW i, i = ridx[r]
  PROVE  /\ r \notin In(i) /\ In(i)' = In(i) \cup {r}
         /\ \A j \in Idx \ {i} : In(j)' = In(j)
         /\ \A j \in Idx : At(j)' = At(j)
<1>1. rstep[r] = "lock" /\ rstep' = [rstep EXCEPT ![r] = "in"] /\ ridx' = ridx
  BY DEF ReadLockCount
<1>2. QED BY <1>1 DEF SrcuTypeOK, In, At

LEMMA UnlockSets ==
  ASSUME SrcuTypeOK, NEW r \in Readers, NEW p \in Cpus, srcu_read_unlock(r, p),
         NEW i, i = ridx[r]
  PROVE  /\ r \in In(i) /\ In(i)' = In(i) \ {r}
         /\ r \in At(i) /\ At(i)' = At(i) \ {r}
         /\ \A j \in Idx \ {i} : In(j)' = In(j) /\ At(j)' = At(j)
<1>1. /\ rstep[r] = "in" /\ rstep' = [rstep EXCEPT ![r] = "idle"]
      /\ ridx' = [ridx EXCEPT ![r] = NULL]
  BY DEF srcu_read_unlock
<1>2. QED BY <1>1 DEF SrcuTypeOK, In, At

LEMMA OtherReaderSets ==
  ASSUME SrcuTypeOK, NEW r \in Readers, NEW p \in Cpus,
         ReadLockIndex(r, p) \/ Fetch(r, p)
  PROVE  /\ \A j \in Idx : In(j)' = In(j)
         /\ \A j \in Idx : j # completed => At(j)' = At(j)
<1>1. CASE ReadLockIndex(r, p)
  <2>1. /\ rstep[r] = "idle" /\ rstep' = [rstep EXCEPT ![r] = "lock"]
        /\ ridx' = [ridx EXCEPT ![r] = completed]
    BY <1>1 DEF ReadLockIndex
  <2>2. QED BY <2>1 DEF SrcuTypeOK, In, At
<1>2. CASE Fetch(r, p)
  <2>1. rstep' = rstep /\ ridx' = ridx BY <1>2 DEF Fetch
  <2>2. QED BY <2>1 DEF In, At
<1>3. QED BY <1>1, <1>2

(* What the two steps that count do to the CPU's own counter. *)
LEMMA OwnChange ==
  ASSUME SrcuTypeOK, NEW p \in Cpus, NEW i \in Idx, NEW k \in {1, -1},
         own' = [own EXCEPT ![p][i] = Count(own[p][i] + k)]
  PROVE  /\ own' \in Counters /\ own'[p][i] = Count(own[p][i] + k)
         /\ Same(own', i, own, i, Cpus \ {p})
         /\ \A j \in Idx \ {i} : Same(own', j, own, j, Cpus)
<1>1. own \in Counters BY DEF SrcuTypeOK
<1>2. own[p][i] \in Nat BY <1>1, CountersType
<1>3. own[p][i] + k \in Int BY <1>2
<1>4. PICK n : n = Count(own[p][i] + k) OBVIOUS
<1>5. n \in 0 .. COUNT_RANGE - 1 BY <1>3, <1>4, CountType
<1>6. own' = [own EXCEPT ![p][i] = n] BY <1>4
<1>7. /\ own' \in Counters /\ own'[p][i] = n /\ Same(own', i, own, i, Cpus \ {p})
      /\ \A j \in Idx \ {i} : Same(own', j, own, j, Cpus)
  BY <1>1, <1>5, <1>6 DEF Counters, Same
<1>8. QED BY <1>4, <1>7, Zenon

(* The two steps alike: k is 1 for ReadLockCount and -1 for                *)
(* srcu_read_unlock.                                                       *)
LEMMA OwnExactChange ==
  ASSUME SrcuTypeOK, OwnExact, NEW p \in Cpus, NEW i \in Idx, NEW k \in {1, -1},
         own' = [own EXCEPT ![p][i] = Count(own[p][i] + k)],
         Cardinality(In(i)') = Cardinality(In(i)) + k,
         \A j \in Idx \ {i} : In(j)' = In(j)
  PROVE  OwnExact'
<1>1. /\ own' \in Counters /\ own'[p][i] = Count(own[p][i] + k)
      /\ Same(own', i, own, i, Cpus \ {p})
      /\ \A j \in Idx \ {i} : Same(own', j, own, j, Cpus)
  BY OwnChange
<1>2. own \in Counters BY DEF SrcuTypeOK
<1>3. PICK n : n = Cardinality(In(i)) OBVIOUS
<1>4. PICK m : m = Cardinality(In(i)') OBVIOUS
<1>5. n \in Nat /\ n < COUNT_RANGE /\ m \in Nat /\ m < COUNT_RANGE /\ m = n + k
  <2>1. In(i) \subseteq Readers /\ In(i)' \subseteq Readers BY DEF In
  <2>2. QED BY <1>3, <1>4, <2>1, ReaderSets
<1>6. Count(Total(own, i, Cpus)) = n BY <1>3 DEF OwnExact
<1>7. n \in 0 .. COUNT_RANGE - 1 /\ m \in 0 .. COUNT_RANGE - 1 BY <1>5, CountRange
<1>8. Count(n) = n BY <1>7, CountSmall
<1>9. n \in Int /\ k \in Int /\ n + k \in 0 .. COUNT_RANGE - 1 BY <1>5, <1>7
<1>10. Count(Total(own, i, Cpus)) = Count(n) BY <1>6, <1>8
<1>11. Count(Total(own', i, Cpus)) = n + k
  <2>1. PICK d : d = own OBVIOUS
  <2>2. PICK e : e = own' OBVIOUS
  <2>3. d \in Counters /\ Count(Total(d, i, Cpus)) = Count(n) BY <1>2, <1>10, <2>1
  <2>4. /\ e \in Counters /\ Same(e, i, d, i, Cpus \ {p})
        /\ e[p][i] = Count(d[p][i] + k)
    BY <1>1, <2>1, <2>2
  <2>5. Count(Total(e, i, Cpus)) = n + k BY <1>9, <2>3, <2>4, OwnTotal
  <2>6. QED BY <2>2, <2>5
<1>12. ASSUME NEW j \in Idx \ {i}
       PROVE  Count(Total(own', j, Cpus)) = Cardinality(In(j)')
  <2>1. Same(own', j, own, j, Cpus) BY <1>1
  <2>2. Total(own', j, Cpus) = Total(own, j, Cpus) BY <2>1, CountersSame
  <2>3. QED BY <2>2 DEF OwnExact
<1>13. QED BY <1>4, <1>5, <1>11, <1>12 DEF OwnExact

LEMMA ReaderOwnExact ==
  ASSUME SrcuTypeOK, ReadersOK, OwnExact, NEW r \in Readers, NEW p \in Cpus,
         Reader(r, p)
  PROVE  OwnExact'
<1>1. PICK i : i = ridx[r] OBVIOUS
<1>2. CASE ReadLockIndex(r, p) \/ Fetch(r, p)
  <2>1. own' = own BY <1>2 DEF ReadLockIndex, Fetch, counterVars
  <2>2. \A j \in Idx : In(j)' = In(j) BY <1>2, OtherReaderSets
  <2>3. QED BY <2>1, <2>2 DEF OwnExact
<1>3. CASE ReadLockCount(r, p)
  <2>1. i \in Idx BY <1>1, <1>3 DEF ReadLockCount, ReadersOK, SrcuTypeOK
  <2>2. own' = [own EXCEPT ![p][i] = Count(own[p][i] + 1)]
    BY <1>1, <1>3 DEF ReadLockCount
  <2>3. /\ r \notin In(i) /\ In(i)' = In(i) \cup {r}
        /\ \A j \in Idx \ {i} : In(j)' = In(j)
    BY <1>1, <1>3, LockCountSets
  <2>4. Cardinality(In(i)') = Cardinality(In(i)) + 1
    <3>1. In(i) \subseteq Readers BY DEF In
    <3>2. Cardinality(In(i) \cup {r}) = Cardinality(In(i)) + 1
      BY <2>3, <3>1, ReaderSets
    <3>3. QED BY <2>3, <3>2
  <2>5. QED BY <2>1, <2>2, <2>3, <2>4, OwnExactChange
<1>4. CASE srcu_read_unlock(r, p)
  <2>1. i \in Idx BY <1>1, <1>4 DEF srcu_read_unlock, ReadersOK, SrcuTypeOK
  <2>2. own[p][i] \in Nat BY <2>1, CountersType DEF SrcuTypeOK
  <2>3. own[p][i] - 1 = own[p][i] + (-1) BY <2>2
  <2>4. own' = [own EXCEPT ![p][i] = Count(own[p][i] + (-1))]
    BY <1>1, <1>4, <2>3 DEF srcu_read_unlock
  <2>5. /\ r \in In(i) /\ In(i)' = In(i) \ {r}
        /\ \A j \in Idx \ {i} : In(j)' = In(j)
    BY <1>1, <1>4, UnlockSets
  <2>6. Cardinality(In(i)') = Cardinality(In(i)) + (-1)
    <3>1. In(i) \subseteq Readers BY DEF In
    <3>2. Cardinality(In(i) \ {r}) = Cardinality(In(i)) - 1 /\ Cardinality(In(i)) \in Nat
      BY <2>5, <3>1, ReaderSets
    <3>3. QED BY <2>5, <3>2
  <2>7. QED BY <2>1, <2>4, <2>5, <2>6, OwnExactChange
<1>5. QED BY <1>2, <1>3, <1>4 DEF Reader

(* Everybody else leaves the readers and the CPUs' own counters alone. *)
LEMMA OthersOwnExact ==
  ASSUME OwnExact, UNCHANGED <<own, rstep, ridx>>
  PROVE  OwnExact' /\ \A i \in Idx : In(i)' = In(i) /\ At(i)' = At(i)
<1>1. \A i \in Idx : In(i)' = In(i) /\ At(i)' = At(i) BY DEF In, At
<1>2. QED BY <1>1 DEF OwnExact

(* A reader's step while h waits for the readers under the old index k:    *)
(* who leaves the index is one more on the way to memory at most, and      *)
(* nobody is counted there any more once all CPUs have switched.           *)
LEMMA ReaderLag ==
  ASSUME SrcuTypeOK, ReadersOK, IndexOK, BehindOK,
         NEW r \in Readers, NEW p \in Cpus, Reader(r, p),
         NEW h \in Updaters, Flipped(h), NEW k, k = uidx, NEW N, N = need[h],
         NEW S, S \subseteq Cpus,
         NEW a, a = Total(Lag(c, own, N), k, S), NEW b, b = Total(Lag(c, own', N), k, S)
  PROVE  /\ a \in Nat /\ b \in Nat
         /\ Cardinality(At(k)') + b <= Cardinality(At(k)) + a
         /\ N = {} => Cardinality(In(k)') + b <= Cardinality(In(k)) + a
<1>1. k \in Idx /\ k # completed BY DEF IndexOK
<1>2. PICK i : i = ridx[r] OBVIOUS
<1>3. c \in Counters /\ own \in Counters BY DEF SrcuTypeOK
<1>4. own' \in Counters BY ReaderType DEF SrcuTypeOK
<1>5. PICK l : l = Lag(c, own, N) OBVIOUS
<1>6. PICK m : m = Lag(c, own', N) OBVIOUS
<1>7. l \in Counters /\ m \in Counters BY <1>3, <1>4, <1>5, <1>6, LagType
<1>8. a = Total(l, k, S) /\ b = Total(m, k, S) BY <1>5, <1>6
<1>9. a \in Nat /\ b \in Nat BY <1>1, <1>7, <1>8, CountersTotal
<1>10. /\ In(k) \subseteq Readers /\ At(k) \subseteq Readers
       /\ Cardinality(In(k)) \in Nat /\ Cardinality(At(k)) \in Nat
  <2>1. In(k) \subseteq Readers /\ At(k) \subseteq Readers BY DEF In, At
  <2>2. QED BY <2>1, ReaderSets
<1>11. CASE ReadLockIndex(r, p) \/ Fetch(r, p)
  <2>1. own' = own BY <1>11 DEF ReadLockIndex, Fetch, counterVars
  <2>2. In(k)' = In(k) /\ At(k)' = At(k) BY <1>1, <1>11, OtherReaderSets
  <2>3. b = a BY <1>5, <1>6, <1>8, <2>1
  <2>4. QED BY <1>9, <1>10, <2>2, <2>3
<1>12. CASE ReadLockCount(r, p)
  <2>1. i \in Idx BY <1>2, <1>12 DEF ReadLockCount, ReadersOK, SrcuTypeOK
  <2>2. own' = [own EXCEPT ![p][i] = Count(own[p][i] + 1)]
    BY <1>2, <1>12 DEF ReadLockCount
  <2>3. At(k)' = At(k) /\ (k # i => In(k)' = In(k))
    BY <1>1, <1>2, <1>12, LockCountSets
  <2>4. i = k => p \in N
    <3>1. rcpu[r] # NULL /\ RunsOn(r, p) /\ rstep[r] = "lock"
      BY <1>12 DEF ReadLockCount, ReadersOK
    <3>2. rcpu[r] = p BY <3>1, RunsOnFacts
    <3>3. QED BY <1>2, <3>1, <3>2 DEF IndexOK
  <2>5. b = a
    <3>1. CASE i = k
      <4>1. Same(own', k, own, k, Cpus \ {p}) BY <2>1, <2>2, <3>1, OwnChange
      <4>2. Same(m, k, l, k, Cpus \ {p}) /\ m[p][k] = l[p][k]
        <5>1. p \in N BY <2>4, <3>1
        <5>2. Same(m, k, l, k, Cpus \ {p})
          BY <1>1, <1>5, <1>6, <4>1, LagElsewhere
        <5>3. m[p][k] = l[p][k] BY <1>1, <1>5, <1>6, <5>1, LagAt
        <5>4. QED BY <5>2, <5>3
      <4>3. Same(m, k, l, k, Cpus) BY <4>2 DEF Same
      <4>4. QED BY <1>8, <4>3, CountersSame
    <3>2. CASE i # k
      <4>1. Same(own', k, own, k, Cpus) BY <1>1, <2>1, <2>2, <3>2, OwnChange
      <4>2. Same(m, k, l, k, Cpus) BY <1>1, <1>5, <1>6, <4>1, LagSame
      <4>3. QED BY <1>8, <4>2, CountersSame
    <3>3. QED BY <3>1, <3>2
  <2>6. QED BY <1>9, <1>10, <2>3, <2>4, <2>5
<1>13. CASE srcu_read_unlock(r, p)
  <2>1. i \in Idx BY <1>2, <1>13 DEF srcu_read_unlock, ReadersOK, SrcuTypeOK
  <2>2. own[p][i] \in Nat BY <1>3, <2>1, CountersType
  <2>3. own[p][i] - 1 = own[p][i] + (-1) BY <2>2
  <2>4. own' = [own EXCEPT ![p][i] = Count(own[p][i] + (-1))]
    BY <1>2, <1>13, <2>3 DEF srcu_read_unlock
  <2>5. CASE i # k
    <3>1. In(k)' = In(k) /\ At(k)' = At(k) BY <1>1, <1>2, <1>13, <2>5, UnlockSets
    <3>2. Same(own', k, own, k, Cpus) BY <1>1, <2>1, <2>4, <2>5, OwnChange
    <3>3. Same(m, k, l, k, Cpus) BY <1>1, <1>5, <1>6, <3>2, LagSame
    <3>4. b = a BY <1>8, <3>3, CountersSame
    <3>5. QED BY <1>9, <1>10, <3>1, <3>4
  <2>6. CASE i = k
    <3>1. /\ r \in In(k) /\ In(k)' = In(k) \ {r}
          /\ r \in At(k) /\ At(k)' = At(k) \ {r}
      BY <1>2, <1>13, <2>6, UnlockSets
    <3>2. /\ Cardinality(In(k)') = Cardinality(In(k)) - 1
          /\ Cardinality(At(k)') = Cardinality(At(k)) - 1
      BY <1>10, <3>1, ReaderSets
    <3>3. /\ Same(own', k, own, k, Cpus \ {p})
          /\ own'[p][k] = Count(own[p][k] - 1)
      BY <2>1, <2>3, <2>4, <2>6, OwnChange
    <3>4. Same(m, k, l, k, Cpus \ {p}) /\ (p \in N => m[p][k] = l[p][k])
      <4>1. Same(m, k, l, k, Cpus \ {p}) BY <1>1, <1>5, <1>6, <3>3, LagElsewhere
      <4>2. p \in N => m[p][k] = l[p][k] BY <1>1, <1>5, <1>6, LagAt
      <4>3. QED BY <4>1, <4>2
    <3>5. ASSUME p \notin N PROVE m[p][k] = Count(l[p][k] + 1)
      <4>1. own'[p][k] = Count(own[p][k] - 1) BY <3>3
      <4>2. Lag(c, own', N)[p][k] = Count(Lag(c, own, N)[p][k] + 1)
        BY <1>1, <1>3, <1>4, <3>5, <4>1, LagLowered
      <4>3. QED BY <1>5, <1>6, <4>2
    <3>6. PICK x \in Nat : x = l[p][k] BY <1>1, <1>7, CountersType
    <3>7. PICK y \in Nat : y = m[p][k] BY <1>1, <1>7, CountersType
    <3>8. x + 1 \in 0 .. COUNT_RANGE - 1
      <4>1. PICK t \in Nat : t = Total(l, k, Cpus) BY <1>1, <1>7, CountersTotal
      <4>2. x <= t BY <1>1, <1>7, <3>6, <4>1, CountersAbove
      <4>3. Cardinality(At(k)) + t <= Cardinality(Readers)
        BY <1>5, <4>1 DEF BehindOK
      <4>4. /\ Cardinality(Readers) \in Nat /\ COUNT_RANGE \in Nat
            /\ Cardinality(Readers) < COUNT_RANGE
        BY <1>10, ReaderSets
      <4>5. Cardinality(At(k)) >= 1
        <5>1. Cardinality(At(k)') \in Nat
          <6>1. At(k)' \subseteq Readers BY <1>10, <3>1
          <6>2. QED BY <6>1, ReaderSets
        <5>2. QED BY <1>10, <3>2, <5>1
      <4>6. QED BY <1>10, <4>2, <4>3, <4>4, <4>5
    <3>9. y <= x + 1 BY <3>4, <3>5, <3>6, <3>7, <3>8, CountSmall
    <3>10. b <= a + 1
      <4>1. CASE p \in S
        <5>1. Total(m, k, S) = Replaced(Total(l, k, S), l[p][k], m[p][k])
          BY <1>1, <1>7, <3>4, <4>1, CountersDiffer
        <5>2. b = a - x + y BY <1>8, <3>6, <3>7, <5>1 DEF Replaced
        <5>3. QED BY <1>9, <3>9, <5>2
      <4>2. CASE p \notin S
        <5>1. Total(m, k, S) = Total(l, k, S)
          BY <3>4, <4>2, CountersElsewhere
        <5>2. QED BY <1>8, <1>9, <5>1
      <4>3. QED BY <4>1, <4>2
    <3>11. QED BY <1>9, <1>10, <3>2, <3>10
  <2>7. QED BY <2>5, <2>6
<1>14. QED BY <1>11, <1>12, <1>13 DEF Reader

LEMMA ReaderCounts ==
  ASSUME SrcuTypeOK, UpdatersOK, ReadersOK, IndexOK, BehindOK, SumOK,
         NEW r \in Readers, NEW p \in Cpus, Reader(r, p)
  PROVE  BehindOK' /\ SumOK'
<1>1. UNCHANGED <<c, upc, need, uidx, unread, sum>>
  BY DEF Reader, ReadLockIndex, ReadLockCount, Fetch, srcu_read_unlock, counterVars,
         updaterVars, scanVars
<1>2. PICK k : k = uidx OBVIOUS
<1>3. ASSUME NEW j PROVE /\ Cardinality(In(j)) \in Nat /\ Cardinality(In(j)') \in Nat
                         /\ Cardinality(At(j)) \in Nat /\ Cardinality(At(j)') \in Nat
                         /\ Cardinality(Readers) \in Nat
  <2>1. /\ In(j) \subseteq Readers /\ In(j)' \subseteq Readers
        /\ At(j) \subseteq Readers /\ At(j)' \subseteq Readers
    BY DEF In, At
  <2>2. QED BY <2>1, ReaderSets
<1>4. ASSUME NEW h \in Updaters, Flipped(h)
      PROVE  Cardinality(At(k)') + Total(Lag(c, own', need[h]), k, Cpus)
               <= Cardinality(Readers)
  <2>1. PICK N : N = need[h] OBVIOUS
  <2>2. PICK a : a = Total(Lag(c, own, N), k, Cpus) OBVIOUS
  <2>3. PICK b : b = Total(Lag(c, own', N), k, Cpus) OBVIOUS
  <2>4. a \in Nat /\ b \in Nat /\ Cardinality(At(k)') + b <= Cardinality(At(k)) + a
    BY <1>2, <1>4, <2>1, <2>2, <2>3, ReaderLag
  <2>5. Cardinality(At(k)) + a <= Cardinality(Readers)
    BY <1>2, <1>4, <2>1, <2>2 DEF BehindOK
  <2>6. Cardinality(At(k)') + b <= Cardinality(Readers) BY <1>3, <2>4, <2>5
  <2>7. QED BY <2>1, <2>3, <2>6
<1>5. ASSUME NEW h \in Updaters, upc[h] = "scan"
      PROVE  Cardinality(In(k)') + Total(Lag(c, own', need[h]), k, unread)
               <= Count(sum + Total(c, k, unread))
  <2>1. need[h] = {} /\ Flipped(h) BY <1>5 DEF UpdatersOK, Flipped
  <2>2. PICK N : N = need[h] OBVIOUS
  <2>3. PICK S : S = unread OBVIOUS
  <2>4. PICK a : a = Total(Lag(c, own, N), k, S) OBVIOUS
  <2>5. PICK b : b = Total(Lag(c, own', N), k, S) OBVIOUS
  <2>6. PICK v : v = Count(sum + Total(c, k, S)) OBVIOUS
  <2>7. S \subseteq Cpus /\ k \in Idx /\ c \in Counters /\ sum \in Nat
    BY <1>2, <2>1, <2>3, CountRange DEF SrcuTypeOK, IndexOK
  <2>8. v \in Int
    <3>1. sum + Total(c, k, S) \in Int BY <2>7, CountersTotal
    <3>2. v \in 0 .. COUNT_RANGE - 1 BY <2>6, <3>1, CountType
    <3>3. QED BY <3>2
  <2>9. a \in Nat /\ b \in Nat /\ Cardinality(In(k)') + b <= Cardinality(In(k)) + a
    BY <1>2, <2>1, <2>2, <2>4, <2>5, <2>7, ReaderLag
  <2>10. Cardinality(In(k)) + a <= v
    BY <1>2, <1>5, <2>2, <2>3, <2>4, <2>6 DEF SumOK
  <2>11. Cardinality(In(k)') + b <= v BY <1>3, <2>8, <2>9, <2>10
  <2>12. QED BY <2>2, <2>3, <2>5, <2>6, <2>11
<1>6. BehindOK'
  <2>1. \A h \in Updaters : Flipped(h)' <=> Flipped(h) BY <1>1 DEF Flipped
  <2>2. QED BY <1>1, <1>2, <1>4, <2>1 DEF BehindOK, At
<1>7. SumOK' BY <1>1, <1>2, <1>5 DEF SumOK, In
<1>8. QED BY <1>6, <1>7

(* A counter of p reaches memory: less is on the way, ... *)
LEMMA DrainedLag ==
  ASSUME NEW d \in Counters, NEW e \in Counters, NEW o \in Counters,
         NEW p \in Cpus, NEW k \in Idx, NEW N, NEW M, M \ {p} = N \ {p},
         Same(e, k, d, k, Cpus \ {p}), e[p][k] = o[p][k],
         NEW S, S \subseteq Cpus
  PROVE  Total(Lag(e, o, M), k, S) <= Total(Lag(d, o, N), k, S)
<1>1. PICK l : l = Lag(d, o, N) OBVIOUS
<1>2. PICK m : m = Lag(e, o, M) OBVIOUS
<1>3. l \in Counters /\ m \in Counters BY <1>1, <1>2, LagType
<1>4. Same(m, k, l, k, Cpus \ {p}) /\ m[p][k] = 0
  <2>1. Same(Lag(e, o, M), k, l, k, Cpus \ {p}) BY <1>1, LagOthers
  <2>2. Lag(e, o, M)[p][k] = 0 BY LagZero
  <2>3. QED BY <1>2, <2>1, <2>2
<1>5. PICK x \in Nat : x = l[p][k] BY <1>3, CountersType
<1>6. PICK a \in Nat : a = Total(l, k, S) BY <1>3, CountersTotal
<1>7. CASE p \in S
  <2>1. Total(m, k, S) = Replaced(Total(l, k, S), l[p][k], m[p][k])
    BY <1>3, <1>4, <1>7, CountersDiffer
  <2>2. Total(m, k, S) = a - x + 0 BY <1>4, <1>5, <1>6, <2>1 DEF Replaced
  <2>3. Total(m, k, S) <= a BY <1>5, <1>6, <2>2
  <2>4. QED BY <1>1, <1>2, <1>6, <2>3
<1>8. CASE p \notin S
  <2>1. Total(m, k, S) = Total(l, k, S) BY <1>4, <1>8, CountersElsewhere
  <2>2. QED BY <1>1, <1>2, <1>6, <2>1
<1>9. QED BY <1>7, <1>8

(* ... and the sum goes down by what is no longer on the way, no further. *)
LEMMA DrainedSum ==
  ASSUME NEW d \in Counters, NEW e \in Counters, NEW o \in Counters,
         NEW p \in Cpus, NEW k \in Idx, NEW M, M \ {p} = {} \ {p},
         Same(e, k, d, k, Cpus \ {p}), e[p][k] = o[p][k],
         NEW S, S \subseteq Cpus, NEW n \in Nat, NEW z \in Nat,
         n + Total(Lag(d, o, {}), k, S) <= Count(z + Total(d, k, S))
  PROVE  n + Total(Lag(e, o, M), k, S) <= Count(z + Total(e, k, S))
<1>1. PICK l : l = Lag(d, o, {}) OBVIOUS
<1>2. PICK m : m = Lag(e, o, M) OBVIOUS
<1>3. l \in Counters /\ m \in Counters BY <1>1, <1>2, LagType
<1>4. Same(m, k, l, k, Cpus \ {p}) /\ m[p][k] = 0
  <2>1. Same(Lag(e, o, M), k, l, k, Cpus \ {p}) BY <1>1, LagOthers
  <2>2. Lag(e, o, M)[p][k] = 0 BY LagZero
  <2>3. QED BY <1>2, <2>1, <2>2
<1>5. e[p][k] = Count(d[p][k] - l[p][k]) BY <1>1, LagRest
<1>6. PICK x \in Nat : x = l[p][k] BY <1>3, CountersType
<1>7. PICK y \in Nat : y = d[p][k] BY CountersType
<1>8. PICK a \in Nat : a = Total(l, k, S) BY <1>3, CountersTotal
<1>9. PICK t \in Nat : t = Total(d, k, S) BY CountersTotal
<1>10. n + a <= Count(z + t) BY <1>1, <1>8, <1>9
<1>11. PICK v \in 0 .. COUNT_RANGE - 1 : v = Count(z + t)
  <2>1. z + t \in Int OBVIOUS
  <2>2. QED BY <2>1, CountType
<1>12. CASE p \in S
  <2>1. Total(m, k, S) = Replaced(Total(l, k, S), l[p][k], m[p][k])
    BY <1>3, <1>4, <1>12, CountersDiffer
  <2>2. Total(m, k, S) = a - x + 0 BY <1>4, <1>6, <1>8, <2>1 DEF Replaced
  <2>3. x <= a BY <1>3, <1>6, <1>8, <1>12, CountersAbove
  <2>4. Total(e, k, S) = Replaced(Total(d, k, S), d[p][k], e[p][k])
    BY <1>12, CountersDiffer
  <2>5. Total(e, k, S) = t - y + Count(y - x)
    BY <1>5, <1>6, <1>7, <1>9, <2>4 DEF Replaced
  <2>6. v - x \in 0 .. COUNT_RANGE - 1 BY <1>10, <1>11, <2>3, CountRange
  <2>7. Count(z + Total(e, k, S)) = v - x
    <3>1. y - x \in Int /\ z + t - y \in Int /\ -x \in Int /\ z + t \in Int OBVIOUS
    <3>2. PICK q \in Int : q = Count(y - x) BY <3>1, CountType
    <3>3. z + (t - y + q) = (z + t - y) + q BY <3>2
    <3>4. Count((z + t - y) + q) = Count((z + t - y) + (y - x))
      BY <3>1, <3>2, CountInner
    <3>5. (z + t - y) + (y - x) = (z + t) + (-x) OBVIOUS
    <3>6. Count(v + (-x)) = Count((z + t) + (-x)) BY <1>11, <3>1, CountInner
    <3>7. v + (-x) = v - x OBVIOUS
    <3>8. Count(v - x) = v - x BY <2>6, CountSmall
    <3>9. QED BY <2>5, <3>2, <3>3, <3>4, <3>5, <3>6, <3>7, <3>8
  <2>8. n + (a - x + 0) <= v - x BY <1>10, <1>11
  <2>9. QED BY <1>2, <2>2, <2>7, <2>8
<1>13. CASE p \notin S
  <2>1. Total(m, k, S) = Total(l, k, S) BY <1>4, <1>13, CountersElsewhere
  <2>2. Total(e, k, S) = Total(d, k, S) BY <1>13, CountersElsewhere
  <2>3. QED BY <1>1, <1>2, <2>1, <2>2
<1>14. QED BY <1>12, <1>13

(* A step of CPU p, seen with index k. *)
LEMMA CpuStep ==
  ASSUME SrcuTypeOK, NEW p \in Cpus, Switch(p) \/ \E i \in Idx : Drain(p, i),
         NEW k \in Idx, NEW h \in Updaters
  PROVE  /\ UNCHANGED <<own, rstep, ridx, upc, uidx, unread, sum>>
         /\ \/ Same(c', k, c, k, Cpus) /\ need'[h] = need[h]
            \/ /\ Same(c', k, c, k, Cpus \ {p}) /\ c'[p][k] = own[p][k]
               /\ need'[h] \ {p} = need[h] \ {p}
<1>1. CASE Switch(p)
  <2>1. c' = [c EXCEPT ![p] = own[p]] /\ need'[h] = need[h] \ {p}
    BY <1>1 DEF Switch
  <2>2. Same(c', k, c, k, Cpus \ {p}) /\ c'[p][k] = own[p][k]
    BY <2>1 DEF SrcuTypeOK, Counters, Same
  <2>3. QED BY <1>1, <2>1, <2>2 DEF Switch, scanVars
<1>2. ASSUME NEW i \in Idx, Drain(p, i)
      PROVE  /\ UNCHANGED <<own, rstep, ridx, upc, uidx, unread, sum>>
             /\ need' = need
             /\ \/ Same(c', k, c, k, Cpus)
                \/ Same(c', k, c, k, Cpus \ {p}) /\ c'[p][k] = own[p][k]
  <2>1. c' = [c EXCEPT ![p][i] = own[p][i]] BY <1>2 DEF Drain
  <2>2. i # k => Same(c', k, c, k, Cpus) BY <2>1 DEF SrcuTypeOK, Counters, Same
  <2>3. i = k => Same(c', k, c, k, Cpus \ {p}) /\ c'[p][k] = own[p][k]
    BY <2>1 DEF SrcuTypeOK, Counters, Same
  <2>4. QED BY <1>2, <2>2, <2>3 DEF Drain, readVars, updaterVars, scanVars
<1>3. QED BY <1>1, <1>2

LEMMA CpuCounts ==
  ASSUME SrcuTypeOK, UpdatersOK, IndexOK, BehindOK, SumOK, NEW p \in Cpus,
         Switch(p) \/ \E i \in Idx : Drain(p, i)
  PROVE  BehindOK' /\ SumOK'
<1>1. SrcuTypeOK' BY CpuType
<1>2. c \in Counters /\ own \in Counters /\ c' \in Counters
  BY <1>1 DEF SrcuTypeOK
<1>3. UNCHANGED <<own, rstep, ridx, upc, uidx, unread, sum>>
  BY DEF Switch, Drain, readVars, updaterVars, scanVars
<1>4. PICK k : k = uidx OBVIOUS
<1>5. Cardinality(At(k)) \in Nat /\ Cardinality(In(k)) \in Nat /\ Cardinality(Readers) \in Nat
  <2>1. At(k) \subseteq Readers /\ In(k) \subseteq Readers BY DEF At, In
  <2>2. QED BY <2>1, ReaderSets
<1>6. ASSUME NEW h \in Updaters, Flipped(h)
      PROVE  Cardinality(At(k)) + Total(Lag(c', own, need'[h]), k, Cpus)
               <= Cardinality(Readers)
  <2>1. k \in Idx BY <1>4, <1>6 DEF IndexOK
  <2>2. PICK N : N = need[h] OBVIOUS
  <2>3. PICK M : M = need'[h] OBVIOUS
  <2>4. PICK a : a = Total(Lag(c, own, N), k, Cpus) OBVIOUS
  <2>5. PICK b : b = Total(Lag(c', own, M), k, Cpus) OBVIOUS
  <2>6. Cardinality(At(k)) + a <= Cardinality(Readers)
    BY <1>4, <1>6, <2>2, <2>4 DEF BehindOK
  <2>7. a \in Nat /\ b \in Nat
    <3>1. Lag(c, own, N) \in Counters /\ Lag(c', own, M) \in Counters
      BY <1>2, LagType
    <3>2. QED BY <2>1, <2>4, <2>5, <3>1, CountersTotal
  <2>8. \/ Same(c', k, c, k, Cpus) /\ M = N
        \/ /\ Same(c', k, c, k, Cpus \ {p}) /\ c'[p][k] = own[p][k]
           /\ M \ {p} = N \ {p}
    BY <2>1, <2>2, <2>3, CpuStep
  <2>9. b <= a
    <3>1. CASE Same(c', k, c, k, Cpus) /\ M = N
      <4>1. Same(Lag(c', own, N), k, Lag(c, own, N), k, Cpus)
        BY <2>1, <3>1, LagSame
      <4>2. b = a BY <2>4, <2>5, <3>1, <4>1, CountersSame
      <4>3. QED BY <2>7, <4>2
    <3>2. CASE /\ Same(c', k, c, k, Cpus \ {p}) /\ c'[p][k] = own[p][k]
               /\ M \ {p} = N \ {p}
      BY <1>2, <2>1, <2>4, <2>5, <3>2, DrainedLag
    <3>3. QED BY <2>8, <3>1, <3>2
  <2>10. Cardinality(At(k)) + b <= Cardinality(Readers) BY <1>5, <2>6, <2>7, <2>9
  <2>11. QED BY <2>3, <2>5, <2>10
<1>7. ASSUME NEW h \in Updaters, upc[h] = "scan"
      PROVE  Cardinality(In(k)) + Total(Lag(c', own, need'[h]), k, unread)
               <= Count(sum + Total(c', k, unread))
  <2>1. need[h] = {} /\ k \in Idx BY <1>4, <1>7 DEF UpdatersOK, IndexOK, Flipped
  <2>2. PICK M : M = need'[h] OBVIOUS
  <2>3. PICK S : S = unread OBVIOUS
  <2>4. PICK z : z = sum OBVIOUS
  <2>5. PICK n : n = Cardinality(In(k)) OBVIOUS
  <2>6. S \subseteq Cpus /\ z \in Nat /\ n \in Nat
    BY <1>5, <2>3, <2>4, <2>5, CountRange DEF SrcuTypeOK
  <2>7. n + Total(Lag(c, own, {}), k, S) <= Count(z + Total(c, k, S))
    BY <1>4, <1>7, <2>1, <2>3, <2>4, <2>5 DEF SumOK
  <2>8. \/ Same(c', k, c, k, Cpus) /\ M = {}
        \/ /\ Same(c', k, c, k, Cpus \ {p}) /\ c'[p][k] = own[p][k]
           /\ M \ {p} = {} \ {p}
    BY <2>1, <2>2, CpuStep
  <2>9. n + Total(Lag(c', own, M), k, S) <= Count(z + Total(c', k, S))
    <3>1. CASE Same(c', k, c, k, Cpus) /\ M = {}
      <4>1. Same(Lag(c', own, {}), k, Lag(c, own, {}), k, Cpus)
        BY <2>1, <3>1, LagSame
      <4>2. Total(Lag(c', own, {}), k, S) = Total(Lag(c, own, {}), k, S)
        BY <2>6, <4>1, CountersSame
      <4>3. Total(c', k, S) = Total(c, k, S) BY <2>6, <3>1, CountersSame
      <4>4. QED BY <2>7, <3>1, <4>2, <4>3
    <3>2. CASE /\ Same(c', k, c, k, Cpus \ {p}) /\ c'[p][k] = own[p][k]
               /\ M \ {p} = {} \ {p}
      BY <1>2, <2>1, <2>6, <2>7, <3>2, DrainedSum
    <3>3. QED BY <2>8, <3>1, <3>2
  <2>10. QED BY <2>2, <2>3, <2>4, <2>5, <2>9
<1>8. At(k)' = At(k) /\ In(k)' = In(k) BY <1>3 DEF At, In
<1>9. BehindOK'
  <2>1. \A h \in Updaters : Flipped(h)' <=> Flipped(h) BY <1>3 DEF Flipped
  <2>2. QED BY <1>3, <1>4, <1>6, <1>8, <2>1 DEF BehindOK, At
<1>10. SumOK' BY <1>3, <1>4, <1>7, <1>8 DEF SumOK, In
<1>11. QED BY <1>9, <1>10

(* The scan starts: the sum it would find now is the readers it must find  *)
(* and those who have left but whose leaving is on its way.                *)
LEMMA StartSum ==
  ASSUME SrcuTypeOK, IndexOK, OwnExact, BehindOK, NEW u \in Updaters, Flipped(u),
         need[u] = {}, NEW k, k = uidx
  PROVE  Cardinality(In(k)) + Total(Lag(c, own, {}), k, Cpus)
           <= Count(0 + Total(c, k, Cpus))
<1>1. k \in Idx /\ c \in Counters /\ own \in Counters BY DEF IndexOK, SrcuTypeOK
<1>2. PICK n : n = Cardinality(In(k)) OBVIOUS
<1>3. PICK a : a = Total(Lag(c, own, {}), k, Cpus) OBVIOUS
<1>4. PICK t : t = Total(own, k, Cpus) OBVIOUS
<1>5. PICK v : v = Total(c, k, Cpus) OBVIOUS
<1>6. a \in Nat /\ t \in Nat /\ v \in Nat
  <2>1. Lag(c, own, {}) \in Counters BY <1>1, LagType
  <2>2. QED BY <1>1, <1>3, <1>4, <1>5, <2>1, CountersTotal
<1>7. n \in Nat /\ n + a \in 0 .. COUNT_RANGE - 1
  <2>1. In(k) \subseteq At(k) /\ At(k) \subseteq Readers BY DEF In, At
  <2>2. /\ IsFiniteSet(At(k)) /\ Cardinality(At(k)) \in Nat
        /\ Cardinality(Readers) \in Nat /\ COUNT_RANGE \in Nat
        /\ Cardinality(Readers) < COUNT_RANGE
    BY <2>1, ReaderSets
  <2>3. n \in Nat /\ n <= Cardinality(At(k))
    BY <1>2, <2>1, <2>2, FS_Subset, FS_CardinalityType
  <2>4. Cardinality(At(k)) + a <= Cardinality(Readers) BY <1>3 DEF BehindOK
  <2>5. QED BY <1>6, <2>2, <2>3, <2>4
<1>8. Count(t) = n BY <1>1, <1>2, <1>4 DEF OwnExact
<1>9. Count(v) = Count(t + a) BY <1>1, <1>3, <1>4, <1>5, LagTotal
<1>10. Count(Count(t) + a) = Count(t + a)
  <2>1. t \in Int /\ a \in Int BY <1>6
  <2>2. QED BY <2>1, CountInner
<1>11. Count(n + a) = n + a BY <1>7, CountSmall
<1>12. 0 + v = v BY <1>6
<1>13. Count(0 + v) = n + a BY <1>8, <1>9, <1>10, <1>11, <1>12
<1>14. n + a <= Count(0 + v) BY <1>6, <1>7, <1>13
<1>15. QED BY <1>2, <1>3, <1>5, <1>14

(* One CPU's counter is added: the sum and what is left of it agree. *)
LEMMA AddCounter ==
  ASSUME NEW d \in Counters, NEW l \in Counters, NEW k \in Idx, NEW S, S \subseteq Cpus,
         NEW p \in S, NEW n \in Nat, NEW z \in Nat,
         n + Total(l, k, S) <= Count(z + Total(d, k, S))
  PROVE  n + Total(l, k, S \ {p}) <= Count(Count(z + d[p][k]) + Total(d, k, S \ {p}))
<1>1. p \in Cpus /\ S \ {p} \subseteq Cpus OBVIOUS
<1>2. PICK x \in Nat : x = d[p][k] BY <1>1, CountersType
<1>3. PICK y \in Nat : y = l[p][k] BY <1>1, CountersType
<1>4. PICK t \in Nat : t = Total(d, k, S \ {p}) BY <1>1, CountersTotal
<1>5. PICK a \in Nat : a = Total(l, k, S \ {p}) BY <1>1, CountersTotal
<1>6. Total(d, k, S) = x + t BY <1>2, <1>4, CountersTake
<1>7. Total(l, k, S) = y + a BY <1>3, <1>5, CountersTake
<1>8. PICK v \in Int : v = Count(z + (x + t))
  <2>1. z + (x + t) \in Int OBVIOUS
  <2>2. QED BY <2>1, CountType
<1>9. Count(Count(z + x) + t) = v
  <2>1. z + x \in Int /\ t \in Int /\ (z + x) + t = z + (x + t) OBVIOUS
  <2>2. Count(Count(z + x) + t) = Count((z + x) + t) BY <2>1, CountInner
  <2>3. QED BY <1>8, <2>1, <2>2
<1>10. n + (y + a) <= v BY <1>6, <1>7, <1>8
<1>11. n + a <= v BY <1>10
<1>12. QED BY <1>2, <1>4, <1>5, <1>9, <1>11

LEMMA UpdaterCounts ==
  ASSUME SrcuTypeOK, UpdatersOK, IndexOK, OwnExact, BehindOK, SumOK,
         NEW u \in Updaters, Enter(u) \/ TakeMutex(u) \/ Synchronize(u)
  PROVE  BehindOK' /\ SumOK'
<1>1. UNCHANGED <<c, own, rstep, ridx>>
  BY DEF Enter, TakeMutex, Synchronize, Flip, ScanStart, ScanDone, Leave, ScanCpu,
         counterVars, readVars
<1>2. \A i : In(i)' = In(i) /\ At(i)' = At(i) BY <1>1 DEF In, At
<1>3. PICK k : k = uidx OBVIOUS
<1>4. c \in Counters /\ own \in Counters BY DEF SrcuTypeOK
<1>5. CASE Enter(u) \/ TakeMutex(u) \/ Leave(u)
  <2>1. /\ UNCHANGED <<uidx, unread, sum>>
        /\ \A h \in Updaters : upc'[h] \in {"sched2", "scan"} =>
             upc'[h] = upc[h] /\ need'[h] = need[h]
    BY <1>5 DEF Enter, TakeMutex, Leave, Goto, scanVars, SrcuTypeOK
  <2>2. ASSUME NEW h \in Updaters, Flipped(h)'
        PROVE  Cardinality(At(uidx)') + Total(Lag(c, own, need'[h]), uidx, Cpus)
                 <= Cardinality(Readers)
    BY <1>2, <2>1, <2>2 DEF BehindOK, Flipped
  <2>3. ASSUME NEW h \in Updaters, upc'[h] = "scan"
        PROVE  Cardinality(In(uidx)') + Total(Lag(c, own, need'[h]), uidx, unread)
                 <= Count(sum + Total(c, uidx, unread))
    BY <1>2, <2>1, <2>3 DEF SumOK
  <2>4. BehindOK' BY <1>1, <2>1, <2>2 DEF BehindOK, At
  <2>5. SumOK' BY <1>1, <2>1, <2>3 DEF SumOK, In
  <2>6. QED BY <2>4, <2>5
<1>6. CASE Flip(u)
  <2>1. \A v \in Updaters : upc[v] \in Holding => v = u
    BY <1>6, OneHolder DEF Flip, Holding
  <2>2. /\ upc'[u] = "sched2" /\ need'[u] = Cpus
        /\ \A v \in Updaters \ {u} : upc'[v] = upc[v]
    BY <1>6 DEF Flip, SecondSched, Goto, SrcuTypeOK
  <2>3. \A v \in Updaters : ~(upc'[v] = "scan") /\ (Flipped(v)' => v = u)
    BY <2>1, <2>2 DEF Holding, Flipped
  <2>4. PICK i : i = uidx' OBVIOUS
  <2>5. i \in Idx BY <1>6, <2>4 DEF Flip, SrcuTypeOK
  <2>6. Total(Lag(c, own, Cpus), i, Cpus) = 0
    <3>1. \A p \in Cpus : Lag(c, own, Cpus)[p][i] = 0 BY <2>5 DEF Lag
    <3>2. IsFiniteSet(Cpus) BY SrcuAssumption
    <3>3. QED BY <3>1, <3>2, TotalZero
  <2>7. Cardinality(At(i)') + 0 <= Cardinality(Readers)
    <3>1. At(i)' \subseteq Readers BY DEF At
    <3>2. QED BY <3>1, ReaderSets
  <2>8. BehindOK' BY <1>1, <2>2, <2>3, <2>4, <2>6, <2>7 DEF BehindOK, At
  <2>9. SumOK' BY <2>3 DEF SumOK
  <2>10. QED BY <2>8, <2>9
<1>7. CASE ScanDone(u)
  <2>1. \A v \in Updaters : upc[v] \in Holding => v = u
    BY <1>7, OneHolder DEF ScanDone, Holding
  <2>2. upc'[u] = "sched3" /\ \A v \in Updaters \ {u} : upc'[v] = upc[v]
    BY <1>7 DEF ScanDone, Goto, SrcuTypeOK
  <2>3. \A v \in Updaters : ~(upc'[v] = "scan") /\ ~Flipped(v)'
    BY <2>1, <2>2 DEF Holding, Flipped
  <2>4. QED BY <2>3 DEF BehindOK, SumOK
<1>8. CASE ScanStart(u)
  <2>1. /\ Flipped(u) /\ need[u] = {} /\ UNCHANGED <<need, uidx>>
        /\ unread' = Cpus /\ sum' = 0
        /\ upc'[u] = "scan" /\ \A v \in Updaters \ {u} : upc'[v] = upc[v]
    BY <1>8 DEF ScanStart, UpdatersOK, Flipped, Goto, SrcuTypeOK
  <2>2. \A v \in Updaters : upc[v] \in Holding => v = u
    BY <2>1, OneHolder DEF Flipped, Holding
  <2>3. \A v \in Updaters : Flipped(v)' => v = u /\ Flipped(v)
    BY <2>1, <2>2 DEF Flipped, Holding
  <2>4. BehindOK'
    <3>1. Cardinality(At(k)) + Total(Lag(c, own, need[u]), k, Cpus)
            <= Cardinality(Readers)
      BY <1>3, <2>1 DEF BehindOK
    <3>2. QED BY <1>1, <1>2, <1>3, <2>1, <2>3, <3>1 DEF BehindOK, At
  <2>5. SumOK'
    <3>1. Cardinality(In(k)) + Total(Lag(c, own, {}), k, Cpus)
            <= Count(0 + Total(c, k, Cpus))
      BY <1>3, <2>1, StartSum
    <3>2. \A v \in Updaters : upc'[v] = "scan" => v = u
      BY <2>3 DEF Flipped
    <3>3. QED BY <1>1, <1>2, <1>3, <2>1, <3>1, <3>2 DEF SumOK, In
  <2>6. QED BY <2>4, <2>5
<1>9. ASSUME NEW p \in Cpus, ScanCpu(u, p) PROVE BehindOK' /\ SumOK'
  <2>1. /\ upc[u] = "scan" /\ need[u] = {} /\ UNCHANGED <<upc, need, uidx>>
        /\ p \in unread /\ unread' = unread \ {p} /\ sum' = Count(sum + c[p][k])
    BY <1>3, <1>9 DEF ScanCpu, UpdatersOK
  <2>2. \A v \in Updaters : upc[v] \in Holding => v = u
    BY <2>1, OneHolder DEF Holding
  <2>3. BehindOK' BY <1>1, <1>2, <2>1 DEF BehindOK, Flipped, At
  <2>4. SumOK'
    <3>1. PICK l : l = Lag(c, own, need[u]) OBVIOUS
    <3>2. PICK S : S = unread OBVIOUS
    <3>3. PICK z : z = sum OBVIOUS
    <3>4. PICK n : n = Cardinality(In(k)) OBVIOUS
    <3>5. l \in Counters BY <1>4, <3>1, LagType
    <3>6. S \subseteq Cpus /\ p \in S /\ z \in Nat
      BY <2>1, <3>2, <3>3, CountRange DEF SrcuTypeOK
    <3>7. n \in Nat
      <4>1. In(k) \subseteq Readers BY DEF In
      <4>2. QED BY <3>4, <4>1, ReaderSets
    <3>8. k \in Idx BY <1>3, <2>1 DEF IndexOK, Flipped
    <3>9. n + Total(l, k, S) <= Count(z + Total(c, k, S))
      BY <1>3, <2>1, <3>1, <3>2, <3>3, <3>4 DEF SumOK
    <3>10. n + Total(l, k, S \ {p}) <= Count(Count(z + c[p][k]) + Total(c, k, S \ {p}))
      BY <1>4, <3>5, <3>6, <3>7, <3>8, <3>9, AddCounter
    <3>11. \A v \in Updaters : upc[v] = "scan" => v = u BY <2>2 DEF Holding
    <3>12. Cardinality(In(k)') + Total(Lag(c', own', need'[u]), k, unread')
             <= Count(sum' + Total(c', k, unread'))
      BY <1>1, <1>2, <2>1, <3>1, <3>2, <3>3, <3>4, <3>10
    <3>13. QED BY <1>3, <2>1, <3>11, <3>12 DEF SumOK, In
  <2>5. QED BY <2>3, <2>4
<1>10. QED BY <1>5, <1>6, <1>7, <1>8, <1>9 DEF Synchronize
-------------------------------------------------------------------------------
LEMMA SrcuInvInit == ASSUME SrcuInit PROVE SrcuInv
<1> USE DEF SrcuInit, init_srcu_struct
<1>1. SrcuTypeOK
  <2>1. 0 \in 0 .. COUNT_RANGE - 1 BY CountRange
  <2>2. INT_RANGE \in Nat /\ INT_RANGE >= 6 BY SrcuAssumption
  <2>3. QED BY <2>1, <2>2 DEF SrcuTypeOK, Counters, Objects, UpdaterPcs
<1>2. UpdatersOK BY SrcuConstants DEF UpdatersOK, Holding
<1>3. ReadersOK BY DEF ReadersOK
<1>4. \A u \in Updaters : upc[u] = "idle" OBVIOUS
<1>5. IndexOK BY <1>4 DEF IndexOK, Flipped
<1>6. OwnExact
  <2>1. ASSUME NEW i \in Idx PROVE Count(Total(own, i, Cpus)) = Cardinality(In(i))
    <3>1. \A p \in Cpus : own[p][i] = 0 OBVIOUS
    <3>2. IsFiniteSet(Cpus) BY SrcuAssumption
    <3>3. Total(own, i, Cpus) = 0 BY <3>1, <3>2, TotalZero
    <3>4. Count(0) = 0 BY CountRange, CountSmall
    <3>5. In(i) = {} BY DEF In
    <3>6. Cardinality({}) = 0 BY FS_EmptySet
    <3>7. QED BY <3>3, <3>4, <3>5, <3>6
  <2>2. QED BY <2>1 DEF OwnExact
<1>7. BehindOK /\ SumOK BY <1>4 DEF BehindOK, SumOK, Flipped
<1>8. GraceOK
  <2>1. \A r \in Readers, u \in Updaters : ref[r] # u /\ late[r] # u BY SrcuConstants
  <2>2. QED BY <2>1 DEF GraceOK, GracePeriod, Sched1OK, SafeOK, HelpedOK, Safe
<1>9. QED BY <1>1, <1>2, <1>3, <1>5, <1>6, <1>7, <1>8 DEF SrcuInv

LEMMA SrcuInvNext == ASSUME SrcuInv, SrcuNext PROVE SrcuInv'
<1> USE DEF SrcuInv
<1>1. UpdatersOK' /\ ReadersOK' BY UpdatersStep, ReadersStep
<1>2. ASSUME NEW r \in Readers, NEW p \in Cpus, Reader(r, p) PROVE SrcuInv'
  <2>1. SrcuTypeOK' BY <1>2, ReaderType
  <2>2. IndexOK' BY <1>2, ReaderIndex
  <2>3. OwnExact' BY <1>2, ReaderOwnExact
  <2>4. BehindOK' /\ SumOK' BY <1>2, ReaderCounts
  <2>5. GraceOK' BY <1>2, ReaderGrace
  <2>6. QED BY <1>1, <2>1, <2>2, <2>3, <2>4, <2>5
<1>3. ASSUME NEW p \in Cpus, Switch(p) \/ \E i \in Idx : Drain(p, i) PROVE SrcuInv'
  <2>1. SrcuTypeOK' BY <1>3, CpuType
  <2>2. IndexOK' BY <1>3, CpuIndex
  <2>3. UNCHANGED <<own, rstep, ridx>> BY <1>3 DEF Switch, Drain, readVars
  <2>4. OwnExact' BY <2>3, OthersOwnExact
  <2>5. BehindOK' /\ SumOK' BY <1>3, CpuCounts
  <2>6. GraceOK' BY <1>3, CpuGrace
  <2>7. QED BY <1>1, <2>1, <2>2, <2>4, <2>5, <2>6
<1>4. ASSUME NEW u \in Updaters, Enter(u) \/ TakeMutex(u) \/ Synchronize(u)
      PROVE  SrcuInv'
  <2>1. SrcuTypeOK' BY <1>4, UpdaterType
  <2>2. IndexOK' BY <1>4, UpdaterIndex
  <2>3. UNCHANGED <<own, rstep, ridx>>
    BY <1>4 DEF Enter, TakeMutex, Synchronize, Flip, ScanStart, ScanDone, Leave, ScanCpu,
                counterVars, readVars
  <2>4. OwnExact' BY <2>3, OthersOwnExact
  <2>5. BehindOK' /\ SumOK' BY <1>4, UpdaterCounts
  <2>6. GraceOK' BY <1>4, UpdaterGrace
  <2>7. QED BY <1>1, <2>1, <2>2, <2>4, <2>5, <2>6
<1>5. QED BY <1>2, <1>3, <1>4 DEF SrcuNext

LEMMA SrcuInvStutter == ASSUME SrcuInv, UNCHANGED srcuVars PROVE SrcuInv'
<1> USE DEF srcuVars, SrcuInv
<1>1. SrcuTypeOK' /\ UpdatersOK' /\ ReadersOK' /\ IndexOK'
  BY DEF SrcuTypeOK, UpdatersOK, ReadersOK, IndexOK, Flipped
<1>2. OwnExact' /\ BehindOK' /\ SumOK'
  BY DEF OwnExact, BehindOK, SumOK, In, At, Flipped
<1>3. GraceOK'
  BY DEF GraceOK, GracePeriod, Sched1OK, SafeOK, HelpedOK, Safe, SomeFlipped, Flipped
<1>4. QED BY <1>1, <1>2, <1>3

LEMMA SrcuInvariant == SrcuSpec => []SrcuInv
<1>1. SrcuInit => SrcuInv BY SrcuInvInit
<1>2. SrcuInv /\ [SrcuNext]_srcuVars => SrcuInv' BY SrcuInvNext, SrcuInvStutter
<1>3. QED BY <1>1, <1>2, PTL DEF SrcuSpec

(* The counters stay in their range, wherever the readers that move them   *)
(* come from, and the updaters' and readers' state is well formed          *)
(* (srcu.c:109-138, 154-206).                                              *)
THEOREM SrcuTypeCorrect == SrcuSpec => []SrcuTypeOK
<1>1. SrcuInv => SrcuTypeOK BY DEF SrcuInv
<1>2. QED BY <1>1, SrcuInvariant, PTL

(* Whatever the number of CPUs, readers and updaters, and however late the *)
(* counters reach memory: when synchronize_srcu() has returned, no reader  *)
(* has or still uses what was replaced before the call (srcu.c:154-206).   *)
THEOREM GracePeriodCorrect == SrcuSpec => []GracePeriod
<1>1. SrcuInv => GracePeriod BY DEF SrcuInv, GraceOK
<1>2. QED BY <1>1, SrcuInvariant, PTL

(* Whatever readers do while srcu_readers_active_idx() adds up the         *)
(* counters, which wrap, one CPU after the other, its sum covers all that  *)
(* are in a critical section under the old index (srcu.c:58-67, 195-204).  *)
THEOREM SumCoversCorrect == SrcuSpec => []SumCovers
<1>1. ASSUME SrcuInv, NEW u \in Updaters, upc[u] = "scan"
      PROVE  Count(sum + Total(c, uidx, unread))
               >= Cardinality({r \in Readers : rstep[r] = "in" /\ ridx[r] = uidx})
  <2>1. need[u] = {} /\ uidx \in Idx BY <1>1 DEF SrcuInv, UpdatersOK, IndexOK, Flipped
  <2>2. c \in Counters /\ own \in Counters /\ unread \subseteq Cpus /\ sum \in Nat
    BY <1>1, CountRange DEF SrcuInv, SrcuTypeOK
  <2>3. PICK a \in Nat : a = Total(Lag(c, own, need[u]), uidx, unread)
    <3>1. Lag(c, own, need[u]) \in Counters BY <2>2, LagType
    <3>2. QED BY <2>1, <2>2, <3>1, CountersTotal
  <2>4. PICK n \in Nat : n = Cardinality(In(uidx))
    <3>1. In(uidx) \subseteq Readers BY DEF In
    <3>2. QED BY <3>1, ReaderSets
  <2>5. PICK v \in Int : v = Count(sum + Total(c, uidx, unread))
    <3>1. sum + Total(c, uidx, unread) \in Int BY <2>1, <2>2, CountersTotal
    <3>2. QED BY <3>1, CountType
  <2>6. n + a <= v BY <1>1, <2>3, <2>4, <2>5 DEF SrcuInv, SumOK
  <2>7. v >= n BY <2>6
  <2>8. QED BY <2>4, <2>5, <2>7 DEF In
<1>2. SrcuInv => SumCovers BY <1>1 DEF SumCovers
<1>3. QED BY <1>2, SrcuInvariant, PTL

(* "All srcu_read_lock() calls using the old counters have completed" when *)
(* the loop begins to wait for the readers (srcu.c:195-201).               *)
OldLocksDone ==
  \A u \in Updaters, r \in Readers :
    upc[u] = "scan" /\ rstep[r] = "lock" => ridx[r] # uidx

(* What the second synchronize_sched() is for, as the comment behind it    *)
(* says (srcu.c:193-201).                                                  *)
THEOREM OldLocksDoneCorrect == SrcuSpec => []OldLocksDone
<1>1. SrcuInv => OldLocksDone
  BY DEF SrcuInv, UpdatersOK, IndexOK, Flipped, OldLocksDone
<1>2. QED BY <1>1, SrcuInvariant, PTL

(* The sum of srcu_readers_active(), once the counters have reached        *)
(* memory, is the number of readers that are inside, however they          *)
(* migrated and however often a counter wrapped: the WARN_ON of            *)
(* cleanup_srcu_struct() fires iff there is one (srcu.c:77-99).            *)
QuietSum ==
  c = own =>
    \A i, j \in Idx : i # j =>
      Count(Count(Total(c, i, Cpus)) + Count(Total(c, j, Cpus)))
        = Cardinality({r \in Readers : rstep[r] = "in"})

(* The counters of all CPUs, added up, are exact although none of them     *)
(* means anything by itself (srcu.c:77-80, 95-97).                         *)
THEOREM QuietSumCorrect == SrcuSpec => []QuietSum
<1>1. ASSUME SrcuInv, c = own, NEW i \in Idx, NEW j \in Idx, i # j
      PROVE  Count(Count(Total(c, i, Cpus)) + Count(Total(c, j, Cpus)))
               = Cardinality({r \in Readers : rstep[r] = "in"})
  <2>1. /\ Count(Total(c, i, Cpus)) = Cardinality(In(i))
        /\ Count(Total(c, j, Cpus)) = Cardinality(In(j))
    BY <1>1 DEF SrcuInv, OwnExact
  <2>2. PICK R : R = {r \in Readers : rstep[r] = "in"} OBVIOUS
  <2>3. R = In(i) \cup In(j) /\ In(i) \cap In(j) = {} /\ R \subseteq Readers
    <3>1. PICK x, y \in Idx : x # y /\ Idx = {x, y} BY SrcuAssumption
    <3>2. Idx = {i, j} BY <1>1, <3>1
    <3>3. \A r \in Readers : rstep[r] = "in" => ridx[r] = i \/ ridx[r] = j
      BY <1>1, <3>2 DEF SrcuInv, ReadersOK, SrcuTypeOK
    <3>4. QED BY <1>1, <2>2, <3>3 DEF In
  <2>4. IsFiniteSet(In(i)) /\ IsFiniteSet(In(j)) BY <2>3, ReaderSets
  <2>5. Cardinality(R) = Cardinality(In(i)) + Cardinality(In(j))
    <3>1. Cardinality(In(i)) \in Nat /\ Cardinality(In(j)) \in Nat
      BY <2>4, FS_CardinalityType
    <3>2. Cardinality(In(i) \cup In(j)) =
            Cardinality(In(i)) + Cardinality(In(j)) - Cardinality(In(i) \cap In(j))
      BY <2>4, FS_Union
    <3>3. Cardinality(In(i) \cap In(j)) = 0 BY <2>3, FS_EmptySet
    <3>4. QED BY <2>3, <3>1, <3>2, <3>3
  <2>6. Cardinality(R) \in 0 .. COUNT_RANGE - 1 BY <2>3, ReaderSets
  <2>7. Count(Cardinality(R)) = Cardinality(R) BY <2>6, CountSmall
  <2>8. QED BY <2>1, <2>2, <2>5, <2>7
<1>2. SrcuInv => QuietSum BY <1>1 DEF QuietSum
<1>3. QED BY <1>2, SrcuInvariant, PTL
===============================================================================
