---------------------------- MODULE KernelListProofs ----------------------------
(* What the list operations of KernelList do to the entries of a list. *)
EXTENDS KernelList, FiniteSetTheorems, WellFoundedInduction, TLAPS

(* A list is empty iff it has no entries; otherwise the first is one of them. *)
LEMMA ListEmpty ==
  ASSUME NEW S, NEW l \in Seq(S)
  PROVE  /\ list_empty(l) <=> Entries(l) = {}
         /\ ~list_empty(l) => list_first_entry(l) \in Entries(l)
         /\ Entries(l) \subseteq S
BY DEF list_empty, Entries, list_first_entry

(* Linking an entry adds it, and links nothing twice if it was not linked. *)
LEMMA ListAddTail ==
  ASSUME NEW S, NEW l \in Seq(S), NEW e \in S
  PROVE  /\ list_add_tail(e, l) \in Seq(S)
         /\ Entries(list_add_tail(e, l)) = Entries(l) \cup {e}
         /\ NoDuplicates(l) /\ e \notin Entries(l) => NoDuplicates(list_add_tail(e, l))
<1> DEFINE m == Append(l, e)
<1>1. /\ m \in Seq(S) /\ Len(m) = Len(l) + 1 /\ m[Len(l) + 1] = e
      /\ \A i \in 1 .. Len(l) : m[i] = l[i]
  OBVIOUS
<1>2. list_add_tail(e, l) = m
  BY DEF list_add_tail
<1>3. Len(l) \in Nat OBVIOUS
<1> HIDE DEF m
<1>4. Entries(m) = Entries(l) \cup {e}
  <2>1. ASSUME NEW x \in Entries(m) PROVE x \in Entries(l) \cup {e}
    BY <1>1, <1>3 DEF Entries
  <2>2. ASSUME NEW x \in Entries(l) PROVE x \in Entries(m)
    <3>1. PICK i \in 1 .. Len(l) : l[i] = x BY DEF Entries
    <3>2. i \in 1 .. Len(m) /\ m[i] = x BY <1>1, <1>3, <3>1
    <3>3. QED BY <3>2 DEF Entries
  <2>3. e \in Entries(m)
    <3>1. Len(l) + 1 \in 1 .. Len(m) BY <1>1, <1>3
    <3>2. QED BY <1>1, <3>1 DEF Entries
  <2>4. QED BY <2>1, <2>2, <2>3
<1>5. NoDuplicates(l) /\ e \notin Entries(l) => NoDuplicates(m)
  BY <1>1, <1>3 DEF NoDuplicates, Entries
<1>6. QED BY <1>1, <1>2, <1>4, <1>5

(* Unlinking an entry leaves a list of the same kind of entries. *)
LEMMA ListDelSeq ==
  ASSUME NEW S, NEW l \in Seq(S), NEW e
  PROVE  list_del(l, e) \in Seq(S)
<1> DEFINE n == Len(l) - 1
<1>1. CASE Len(l) = 0
  <2>1. list_del(l, e) \in [1 .. 0 -> S]
    BY <1>1 DEF list_del
  <2>2. QED BY <2>1
<1>2. CASE Len(l) > 0
  <2>1. n \in Nat /\ list_del(l, e) \in [1 .. n -> S]
    BY <1>2 DEF list_del
  <2>2. QED BY <2>1
<1>3. QED BY <1>1, <1>2

(* Linking an entry at the head does the same. *)
LEMMA ListAdd ==
  ASSUME NEW S, NEW l \in Seq(S), NEW e \in S
  PROVE  /\ list_add(e, l) \in Seq(S)
         /\ Entries(list_add(e, l)) = Entries(l) \cup {e}
         /\ NoDuplicates(l) /\ e \notin Entries(l) => NoDuplicates(list_add(e, l))
<1> DEFINE m == <<e>> \o l
<1>1. /\ m \in Seq(S) /\ Len(m) = Len(l) + 1 /\ m[1] = e
      /\ \A i \in 1 .. Len(l) : m[i + 1] = l[i]
  OBVIOUS
<1>2. list_add(e, l) = m
  BY DEF list_add
<1>3. Len(l) \in Nat OBVIOUS
<1> HIDE DEF m
<1>4. Entries(m) = Entries(l) \cup {e}
  <2>1. ASSUME NEW x \in Entries(m) PROVE x \in Entries(l) \cup {e}
    <3>1. PICK i \in 1 .. Len(m) : m[i] = x BY DEF Entries
    <3>2. CASE i = 1 BY <1>1, <3>1, <3>2
    <3>3. CASE i # 1
      <4>1. i - 1 \in 1 .. Len(l) /\ (i - 1) + 1 = i BY <1>1, <1>3, <3>1, <3>3
      <4>2. m[i] = l[i - 1] BY <1>1, <4>1
      <4>3. QED BY <3>1, <4>1, <4>2 DEF Entries
    <3>4. QED BY <3>2, <3>3
  <2>2. ASSUME NEW x \in Entries(l) PROVE x \in Entries(m)
    <3>1. PICK i \in 1 .. Len(l) : l[i] = x BY DEF Entries
    <3>2. m[i + 1] = x /\ i + 1 \in 1 .. Len(m) BY <1>1, <1>3, <3>1
    <3>3. QED BY <3>2 DEF Entries
  <2>3. e \in Entries(m)
    <3>1. 1 \in 1 .. Len(m) BY <1>1, <1>3
    <3>2. QED BY <1>1, <3>1 DEF Entries
  <2>4. QED BY <2>1, <2>2, <2>3
<1>5. ASSUME NoDuplicates(l), e \notin Entries(l) PROVE NoDuplicates(m)
  <2> SUFFICES ASSUME NEW i \in 1 .. Len(m), NEW j \in 1 .. Len(m), m[i] = m[j] PROVE i = j
    BY DEF NoDuplicates
  <2>1. \A k \in 1 .. Len(m) : k # 1 => k - 1 \in 1 .. Len(l) /\ m[k] = l[k - 1]
    <3> SUFFICES ASSUME NEW k \in 1 .. Len(m), k # 1
                 PROVE  k - 1 \in 1 .. Len(l) /\ m[k] = l[k - 1]
      OBVIOUS
    <3>1. k - 1 \in 1 .. Len(l) /\ (k - 1) + 1 = k BY <1>1, <1>3
    <3>2. QED BY <1>1, <3>1
  <2>2. \A k \in 1 .. Len(m) : k # 1 => m[k] # e BY <1>5, <2>1 DEF Entries
  <2>3. CASE i = 1 \/ j = 1 BY <1>1, <2>2, <2>3
  <2>4. CASE i # 1 /\ j # 1
    <3>1. i - 1 = j - 1 BY <1>5, <2>1, <2>4 DEF NoDuplicates
    <3>2. QED BY <1>1, <1>3, <3>1
  <2>5. QED BY <2>3, <2>4
<1>6. QED BY <1>1, <1>2, <1>4, <1>5

(* What unlinking does to the positions. *)
LEMMA ListDelAt ==
  ASSUME NEW S, NEW l \in Seq(S), NoDuplicates(l), NEW c \in 1 .. Len(l)
  PROVE  /\ list_del(l, l[c]) \in Seq(S) /\ Len(list_del(l, l[c])) = Len(l) - 1
         /\ \A j \in 1 .. (Len(l) - 1) :
              list_del(l, l[c])[j] = IF j < c THEN l[j] ELSE l[j + 1]
<1>1. Position(l, l[c]) = c BY DEF Position, NoDuplicates
<1>2. list_del(l, l[c]) = [j \in 1 .. (Len(l) - 1) |-> IF j < c THEN l[j] ELSE l[j + 1]]
  BY <1>1 DEF list_del
<1>3. Len(l) \in Nat /\ Len(l) - 1 \in Nat OBVIOUS
<1>4. list_del(l, l[c]) \in Seq(S) BY ListDelSeq
<1>5. QED BY <1>2, <1>3, <1>4

(* Unlinking a linked entry removes it and only it. *)
LEMMA ListDel ==
  ASSUME NEW S, NEW l \in Seq(S), NEW e \in Entries(l), NoDuplicates(l)
  PROVE  /\ Entries(list_del(l, e)) = Entries(l) \ {e}
         /\ NoDuplicates(list_del(l, e))
<1> DEFINE p == Position(l, e)
           d == list_del(l, e)
<1>1. p \in 1 .. Len(l) /\ l[p] = e
  BY DEF Position, Entries
<1>2. Len(l) \in Nat /\ Len(l) - 1 \in Nat
  BY <1>1
<1>3. /\ DOMAIN d = 1 .. (Len(l) - 1)
      /\ \A j \in 1 .. (Len(l) - 1) : d[j] = IF j < p THEN l[j] ELSE l[j + 1]
  BY DEF list_del
<1>4. d \in Seq(S) /\ Len(d) = Len(l) - 1
  BY <1>2, <1>3, ListDelSeq
<1> HIDE DEF p, d
<1>5. ASSUME NEW x \in Entries(d) PROVE x \in Entries(l) \ {e}
  <2>1. PICK j \in 1 .. (Len(l) - 1) : d[j] = x BY <1>4 DEF Entries
  <2>2. CASE j < p
    <3>1. x = l[j] /\ j \in 1 .. Len(l) /\ j # p BY <1>2, <1>3, <2>1, <2>2
    <3>2. QED BY <1>1, <3>1 DEF Entries, NoDuplicates
  <2>3. CASE ~(j < p)
    <3>1. x = l[j + 1] /\ j + 1 \in 1 .. Len(l) /\ j + 1 # p BY <1>1, <1>2, <1>3, <2>1, <2>3
    <3>2. QED BY <1>1, <3>1 DEF Entries, NoDuplicates
  <2>4. QED BY <2>2, <2>3
<1>6. ASSUME NEW x \in Entries(l) \ {e} PROVE x \in Entries(d)
  <2>1. PICK i \in 1 .. Len(l) : l[i] = x BY DEF Entries
  <2>2. i # p BY <1>1, <2>1
  <2>3. CASE i < p
    <3>1. i \in 1 .. (Len(l) - 1) /\ d[i] = x BY <1>1, <1>2, <1>3, <2>1, <2>3
    <3>2. QED BY <1>4, <3>1 DEF Entries
  <2>4. CASE i > p
    <3>1. i - 1 \in 1 .. (Len(l) - 1) BY <1>1, <1>2, <2>1, <2>4
    <3>2. d[i - 1] = x BY <1>1, <1>2, <1>3, <2>1, <2>4, <3>1
    <3>3. QED BY <1>4, <3>1, <3>2 DEF Entries
  <2>5. QED BY <1>1, <2>1, <2>2, <2>3, <2>4
<1>7. NoDuplicates(d)
  <2>1. SUFFICES ASSUME NEW i \in 1 .. (Len(l) - 1), NEW j \in 1 .. (Len(l) - 1), d[i] = d[j]
                 PROVE  i = j
    BY <1>4 DEF NoDuplicates
  <2> DEFINE at(k) == IF k < p THEN k ELSE k + 1
  <2>2. /\ at(i) \in 1 .. Len(l) /\ at(j) \in 1 .. Len(l)
        /\ d[i] = l[at(i)] /\ d[j] = l[at(j)]
    BY <1>1, <1>2, <1>3
  <2>3. at(i) = at(j)
    <3> HIDE DEF at
    <3>1. QED BY <2>1, <2>2 DEF NoDuplicates
  <2>4. QED BY <1>1, <2>3
<1>8. QED BY <1>5, <1>6, <1>7 DEF d

(* Unlinking the first entry is taking the tail. *)
LEMMA ListTail ==
  ASSUME NEW S, NEW l \in Seq(S), NoDuplicates(l), ~list_empty(l)
  PROVE  /\ Tail(l) \in Seq(S)
         /\ Entries(Tail(l)) = Entries(l) \ {list_first_entry(l)}
         /\ NoDuplicates(Tail(l))
<1> DEFINE d == Tail(l)
<1>1. /\ d \in Seq(S) /\ Len(l) \in Nat /\ Len(l) > 0 /\ Len(d) = Len(l) - 1
      /\ \A j \in 1 .. (Len(l) - 1) : d[j] = l[j + 1]
      /\ list_first_entry(l) = l[1]
  BY DEF list_empty, list_first_entry
<1> HIDE DEF d
<1>2. ASSUME NEW x \in Entries(d) PROVE x \in Entries(l) \ {l[1]}
  <2>1. PICK j \in 1 .. (Len(l) - 1) : d[j] = x BY <1>1 DEF Entries
  <2>2. x = l[j + 1] /\ j + 1 \in 1 .. Len(l) /\ j + 1 # 1 /\ 1 \in 1 .. Len(l)
    BY <1>1, <2>1
  <2>3. QED BY <2>2 DEF Entries, NoDuplicates
<1>3. ASSUME NEW x \in Entries(l) \ {l[1]} PROVE x \in Entries(d)
  <2>1. PICK i \in 1 .. Len(l) : l[i] = x BY DEF Entries
  <2>2. i - 1 \in 1 .. (Len(l) - 1) BY <1>1, <2>1
  <2>3. d[i - 1] = x BY <1>1, <2>1, <2>2
  <2>4. QED BY <1>1, <2>2, <2>3 DEF Entries
<1>4. NoDuplicates(d)
  BY <1>1 DEF NoDuplicates
<1>5. QED BY <1>1, <1>2, <1>3, <1>4 DEF d
-------------------------------------------------------------------------------
(* A set of naturals has a least element. *)
LEMMA LeastNatural ==
  ASSUME NEW T, T \subseteq Nat, T # {}
  PROVE  \E x \in T : \A y \in T : x <= y
<1> DEFINE R == OpToRel(<, Nat)
<1>1. PICK x \in T : \A y \in T : ~ (<<y, x>> \in R)
  BY NatLessThanWellFounded, WFMin
<1>2. \A a, b \in Nat : <<a, b>> \in R <=> a < b
  BY DEF OpToRel
<1> HIDE DEF R
<1>3. ASSUME NEW y \in T PROVE x <= y
  <2>1. x \in Nat /\ y \in Nat OBVIOUS
  <2>2. ~ (<<y, x>> \in R) BY <1>1
  <2>3. ~ (y < x) BY <1>2, <2>1, <2>2
  <2>4. QED BY <2>1, <2>3
<1>4. QED BY <1>3
-------------------------------------------------------------------------------
(* The first n entries of a list, and what is left without them. *)
First(l, n) == {l[i] : i \in 1 .. n}
Drop(l, n)  == SubSeq(l, n + 1, Len(l))

LEMMA DropSeq ==
  ASSUME NEW S, NEW l \in Seq(S), NEW n \in 0 .. Len(l)
  PROVE  /\ Drop(l, n) \in Seq(S)
         /\ Len(Drop(l, n)) = Len(l) - n
         /\ \A j \in 1 .. (Len(l) - n) : Drop(l, n)[j] = l[n + j]
BY DEF Drop

LEMMA DropEntries ==
  ASSUME NEW S, NEW l \in Seq(S), NoDuplicates(l), NEW n \in 0 .. Len(l)
  PROVE  /\ Entries(Drop(l, n)) = Entries(l) \ First(l, n)
         /\ NoDuplicates(Drop(l, n))
         /\ First(l, n) \subseteq Entries(l)
<1> DEFINE m == Drop(l, n)
<1>1. Len(l) \in Nat /\ n \in Nat /\ n <= Len(l) OBVIOUS
<1>2. Len(m) = Len(l) - n /\ \A j \in 1 .. (Len(l) - n) : m[j] = l[n + j]
  BY DropSeq
<1> HIDE DEF m
<1>3. ASSUME NEW x \in Entries(m) PROVE x \in Entries(l) \ First(l, n)
  <2>1. PICK j \in 1 .. (Len(l) - n) : m[j] = x BY <1>2 DEF Entries
  <2>2. x = l[n + j] /\ n + j \in 1 .. Len(l) /\ n + j > n BY <1>1, <1>2, <2>1
  <2>3. ASSUME NEW i \in 1 .. n, l[i] = x PROVE FALSE
    <3>1. i \in 1 .. Len(l) /\ i # n + j BY <1>1, <2>1
    <3>2. QED BY <2>2, <2>3, <3>1 DEF NoDuplicates
  <2>4. QED BY <2>2, <2>3 DEF Entries, First
<1>4. ASSUME NEW x \in Entries(l) \ First(l, n) PROVE x \in Entries(m)
  <2>1. PICK i \in 1 .. Len(l) : l[i] = x BY DEF Entries
  <2>2. i > n BY <1>1, <2>1 DEF First
  <2>3. i - n \in 1 .. (Len(l) - n) /\ i = n + (i - n) BY <1>1, <2>1, <2>2
  <2>4. m[i - n] = x BY <1>2, <2>1, <2>3
  <2>5. QED BY <1>2, <2>3, <2>4 DEF Entries
<1>5. NoDuplicates(m)
  <2> SUFFICES ASSUME NEW i \in 1 .. (Len(l) - n), NEW j \in 1 .. (Len(l) - n), m[i] = m[j]
               PROVE  i = j
    BY <1>2 DEF NoDuplicates
  <2>1. n + i \in 1 .. Len(l) /\ n + j \in 1 .. Len(l) BY <1>1
  <2>2. l[n + i] = l[n + j] BY <1>2
  <2>3. n + i = n + j BY <2>1, <2>2 DEF NoDuplicates
  <2>4. QED BY <1>1, <2>3
<1>6. First(l, n) \subseteq Entries(l) BY <1>1 DEF First, Entries
<1>7. QED BY <1>3, <1>4, <1>5, <1>6 DEF m

LEMMA FirstCount ==
  ASSUME NEW S, NEW l \in Seq(S), NoDuplicates(l), NEW n \in 0 .. Len(l)
  PROVE  IsFiniteSet(First(l, n)) /\ Cardinality(First(l, n)) = n
<1> DEFINE f == [i \in 1 .. n |-> l[i]]
<1>1. n \in Nat /\ \A i \in 1 .. n : i \in 1 .. Len(l) OBVIOUS
<1>2. f \in Bijection(1 .. n, First(l, n))
  <2>1. f \in [1 .. n -> First(l, n)] BY DEF First
  <2>2. \A i, j \in 1 .. n : f[i] = f[j] => i = j BY <1>1 DEF NoDuplicates
  <2>3. \A x \in First(l, n) : \E i \in 1 .. n : f[i] = x BY DEF First
  <2>4. f \in Injection(1 .. n, First(l, n)) BY <2>1, <2>2 DEF Injection, IsInjective
  <2>5. f \in Surjection(1 .. n, First(l, n)) BY <2>1, <2>3 DEF Surjection
  <2>6. QED BY <2>4, <2>5 DEF Bijection
<1>3. ExistsBijection(1 .. n, First(l, n)) BY <1>2 DEF ExistsBijection
<1>4. Cardinality(First(l, n)) = n BY <1>1, <1>3, FS_CountingElements
<1>5. IsFiniteSet(1 .. n) BY <1>1, FS_Interval
<1>6. QED BY <1>3, <1>4, <1>5, FS_Bijection

(* The first n entries, and no more, are of kind P. *)
Leading(l, P, n) ==
  /\ n \in 0 .. Len(l)
  /\ \A i \in 1 .. n : l[i] \in P
  /\ n < Len(l) => l[n + 1] \notin P

(* There is exactly one such number. *)
LEMMA LeadingFacts ==
  ASSUME NEW S, NEW l \in Seq(S), NEW P
  PROVE  /\ \E n : Leading(l, P, n)
         /\ \A n, m : Leading(l, P, n) /\ Leading(l, P, m) => n = m
<1> DEFINE W == {i \in 1 .. Len(l) : l[i] \notin P}
<1>1. Len(l) \in Nat OBVIOUS
<1>2. \E n : Leading(l, P, n)
  <2>1. CASE W = {}
    <3>1. Leading(l, P, Len(l)) BY <1>1, <2>1 DEF Leading
    <3>2. QED BY <3>1
  <2>2. CASE W # {}
    <3>1. PICK m \in W : \A j \in W : m <= j
      <4>1. W \subseteq Nat BY <1>1
      <4> HIDE DEF W
      <4>2. QED BY <2>2, <4>1, LeastNatural
    <3>2. m \in 1 .. Len(l) /\ l[m] \notin P BY <3>1
    <3>3. ASSUME NEW i \in 1 .. m - 1 PROVE l[i] \in P
      <4>1. i \in 1 .. Len(l) /\ ~(m <= i) BY <1>1, <3>2
      <4>2. i \notin W BY <3>1, <4>1
      <4>3. QED BY <1>1, <4>1, <4>2
    <3>4. m - 1 \in 0 .. Len(l) /\ (m - 1) + 1 = m BY <1>1, <3>2
    <3>5. Leading(l, P, m - 1) BY <3>2, <3>3, <3>4 DEF Leading
    <3>6. QED BY <3>5
  <2>3. QED BY <2>1, <2>2
<1>3. ASSUME NEW n, NEW m, Leading(l, P, n), Leading(l, P, m), n < m PROVE FALSE
  <2>1. n \in Nat /\ m \in Nat /\ n < Len(l) /\ n + 1 \in 1 .. m BY <1>1, <1>3 DEF Leading
  <2>2. l[n + 1] \notin P /\ l[n + 1] \in P BY <1>3, <2>1 DEF Leading
  <2>3. QED BY <2>2
<1>4. ASSUME NEW n, NEW m, Leading(l, P, n), Leading(l, P, m) PROVE n = m
  <2>1. n \in Nat /\ m \in Nat BY <1>1, <1>4 DEF Leading
  <2>2. ~(n < m) /\ ~(m < n) BY <1>3, <1>4
  <2>3. QED BY <2>1, <2>2
<1>5. QED BY <1>2, <1>4
-------------------------------------------------------------------------------
(* Entry e is linked at most once. *)
Once(l, e) == \A i, j \in 1 .. Len(l) : l[i] = e /\ l[j] = e => i = j

LEMMA OnceEach ==
  ASSUME NEW l
  PROVE  NoDuplicates(l) <=> \A e : Once(l, e)
BY DEF NoDuplicates, Once

LEMMA OnceAddTail ==
  ASSUME NEW S, NEW l \in Seq(S), NEW e \in S, NEW x, x # e, Once(l, x)
  PROVE  Once(list_add_tail(e, l), x)
<1> DEFINE m == Append(l, e)
<1>1. /\ Len(m) = Len(l) + 1 /\ m[Len(l) + 1] = e
      /\ \A i \in 1 .. Len(l) : m[i] = l[i]
  OBVIOUS
<1>2. Len(l) \in Nat OBVIOUS
<1> HIDE DEF m
<1>3. \A i \in 1 .. Len(m) : m[i] = x => i \in 1 .. Len(l) /\ l[i] = x BY <1>1, <1>2
<1>4. Once(m, x) BY <1>3 DEF Once
<1>5. QED BY <1>4 DEF list_add_tail, m

LEMMA OnceTail ==
  ASSUME NEW S, NEW l \in Seq(S), ~list_empty(l), NEW x, Once(l, x)
  PROVE  /\ Once(Tail(l), x) /\ Tail(l) \in Seq(S) /\ Entries(Tail(l)) \subseteq Entries(l)
         /\ list_first_entry(l) = x => x \notin Entries(Tail(l))
<1> DEFINE d == Tail(l)
<1>1. /\ d \in Seq(S) /\ Len(l) \in Nat /\ Len(l) > 0 /\ Len(d) = Len(l) - 1
      /\ \A j \in 1 .. (Len(l) - 1) : d[j] = l[j + 1]
      /\ list_first_entry(l) = l[1]
  BY DEF list_empty, list_first_entry
<1> HIDE DEF d
<1>2. \A j \in 1 .. Len(d) : j + 1 \in 1 .. Len(l) /\ j + 1 # 1 /\ d[j] = l[j + 1] BY <1>1
<1>3. Once(d, x)
  <2> SUFFICES ASSUME NEW i \in 1 .. Len(d), NEW j \in 1 .. Len(d), d[i] = x, d[j] = x
               PROVE  i = j
    BY DEF Once
  <2>1. i + 1 = j + 1 BY <1>2 DEF Once
  <2>2. QED BY <1>1, <2>1
<1>4. Entries(d) \subseteq Entries(l) BY <1>2 DEF Entries
<1>5. list_first_entry(l) = x => x \notin Entries(d)
  <2>1. 1 \in 1 .. Len(l) BY <1>1
  <2>2. QED BY <1>1, <1>2, <2>1 DEF Entries, Once
<1>6. QED BY <1>1, <1>3, <1>4, <1>5 DEF d

(* Unlinking an entry that may be linked twice. *)
LEMMA OnceDel ==
  ASSUME NEW S, NEW l \in Seq(S), NEW e \in Entries(l), NEW x, Once(l, x)
  PROVE  /\ Once(list_del(l, e), x) /\ Entries(list_del(l, e)) \subseteq Entries(l)
<1> DEFINE p == Position(l, e)
           d == list_del(l, e)
<1>1. p \in 1 .. Len(l) /\ l[p] = e BY DEF Entries, Position
<1>2. Len(l) \in Nat /\ Len(l) - 1 \in Nat BY <1>1
<1>3. /\ DOMAIN d = 1 .. (Len(l) - 1)
      /\ \A j \in 1 .. (Len(l) - 1) : d[j] = IF j < p THEN l[j] ELSE l[j + 1]
  BY DEF list_del
<1>4. d \in Seq(S) BY ListDelSeq
<1>5. Len(d) = Len(l) - 1 BY <1>2, <1>3, <1>4
<1> HIDE DEF p, d
<1>6. \A j \in 1 .. Len(d) : \E k \in 1 .. Len(l) :
        /\ k = IF j < p THEN j ELSE j + 1
        /\ d[j] = l[k]
  BY <1>1, <1>2, <1>3, <1>5
<1>7. Once(d, x)
  <2> SUFFICES ASSUME NEW i \in 1 .. Len(d), NEW j \in 1 .. Len(d), d[i] = x, d[j] = x
               PROVE  i = j
    BY DEF Once
  <2>1. PICK k \in 1 .. Len(l) : k = (IF i < p THEN i ELSE i + 1) /\ d[i] = l[k] BY <1>6
  <2>2. PICK n \in 1 .. Len(l) : n = (IF j < p THEN j ELSE j + 1) /\ d[j] = l[n] BY <1>6
  <2>3. k = n BY <2>1, <2>2 DEF Once
  <2>4. QED BY <1>1, <1>2, <1>5, <2>1, <2>2, <2>3
<1>8. Entries(d) \subseteq Entries(l) BY <1>6 DEF Entries
<1>9. QED BY <1>7, <1>8 DEF d

(* Linking entry e before position n. *)
list_insert(l, n, e) == SubSeq(l, 1, n - 1) \o <<e>> \o SubSeq(l, n, Len(l))

LEMMA ListInsert ==
  ASSUME NEW S, NEW l \in Seq(S), NEW e \in S, NEW n \in 1 .. Len(l) + 1
  PROVE  /\ list_insert(l, n, e) \in Seq(S) /\ Len(list_insert(l, n, e)) = Len(l) + 1
         /\ \A j \in 1 .. Len(l) + 1 :
              list_insert(l, n, e)[j] = IF j < n THEN l[j] ELSE IF j = n THEN e ELSE l[j - 1]
<1> DEFINE a == SubSeq(l, 1, n - 1)
           b == SubSeq(l, n, Len(l))
           ae == a \o <<e>>
           m == ae \o b
<1>1. Len(l) \in Nat /\ n \in Nat /\ n >= 1 /\ n <= Len(l) + 1 OBVIOUS
<1>2. a \in Seq(S) /\ Len(a) = n - 1 /\ \A j \in 1 .. n - 1 : a[j] = l[j]
  <2>1. n - 1 \in 0 .. Len(l) BY <1>1
  <2>2. \A j \in 1 .. n - 1 : l[j] \in S BY <1>1
  <2>3. QED BY <1>1, <2>1, <2>2
<1>3. b \in Seq(S) /\ Len(b) = Len(l) + 1 - n /\ \A j \in 1 .. Len(b) : b[j] = l[n + j - 1]
  <2>1. \A j \in n .. Len(l) : l[j] \in S BY <1>1
  <2>2. QED BY <1>1, <2>1
<1> HIDE DEF a, b
<1>4. ae \in Seq(S) /\ Len(ae) = n /\ ae[n] = e /\ \A j \in 1 .. n - 1 : ae[j] = l[j]
  BY <1>1, <1>2
<1> HIDE DEF ae
<1>5. /\ m \in Seq(S) /\ Len(m) = Len(l) + 1
      /\ \A j \in 1 .. n : m[j] = ae[j]
      /\ \A j \in 1 .. Len(b) : m[n + j] = b[j]
  BY <1>1, <1>3, <1>4
<1> HIDE DEF m
<1>6. ASSUME NEW j \in 1 .. Len(l) + 1
      PROVE  m[j] = IF j < n THEN l[j] ELSE IF j = n THEN e ELSE l[j - 1]
  <2>1. CASE j < n BY <1>1, <1>4, <1>5, <2>1
  <2>2. CASE j = n BY <1>1, <1>4, <1>5, <2>2
  <2>3. CASE j > n
    <3>1. j - n \in 1 .. Len(b) /\ n + (j - n) = j /\ n + (j - n) - 1 = j - 1
      BY <1>1, <1>3, <2>3
    <3>2. m[j] = b[j - n] BY <1>5, <3>1
    <3>3. b[j - n] = l[j - 1] BY <1>3, <3>1
    <3>4. QED BY <1>1, <2>3, <3>2, <3>3
  <2>4. QED BY <1>1, <2>1, <2>2, <2>3
<1>7. QED BY <1>5, <1>6 DEF m, ae, a, b, list_insert

LEMMA InsertEntries ==
  ASSUME NEW S, NEW l \in Seq(S), NEW e \in S, NEW n \in 1 .. Len(l) + 1
  PROVE  /\ Entries(list_insert(l, n, e)) = Entries(l) \cup {e}
         /\ \A x : x # e /\ Once(l, x) => Once(list_insert(l, n, e), x)
         /\ e \notin Entries(l) => Once(list_insert(l, n, e), e)
<1> DEFINE m == list_insert(l, n, e)
<1>1. Len(l) \in Nat /\ n \in Nat /\ n >= 1 /\ n <= Len(l) + 1 OBVIOUS
<1>2. /\ Len(m) = Len(l) + 1
      /\ \A j \in 1 .. Len(l) + 1 : m[j] = IF j < n THEN l[j] ELSE IF j = n THEN e ELSE l[j - 1]
  BY ListInsert
<1> HIDE DEF m
<1>3. \A j \in 1 .. Len(m) :
        \/ j = n /\ m[j] = e
        \/ j # n /\ \E k \in 1 .. Len(l) : k = (IF j < n THEN j ELSE j - 1) /\ m[j] = l[k]
  <2> SUFFICES ASSUME NEW j \in 1 .. Len(m), j # n
               PROVE  \E k \in 1 .. Len(l) : k = (IF j < n THEN j ELSE j - 1) /\ m[j] = l[k]
    BY <1>1, <1>2
  <2>1. CASE j < n BY <1>1, <1>2, <2>1
  <2>2. CASE j > n
    <3>1. j - 1 \in 1 .. Len(l) BY <1>1, <1>2, <2>2
    <3>2. QED BY <1>1, <1>2, <2>2, <3>1
  <2>3. QED BY <1>1, <2>1, <2>2
<1>4. Entries(m) \subseteq Entries(l) \cup {e} BY <1>3 DEF Entries
<1>5. \A k \in 1 .. Len(l) : \E j \in 1 .. Len(m) : m[j] = l[k]
  <2> SUFFICES ASSUME NEW k \in 1 .. Len(l) PROVE \E j \in 1 .. Len(m) : m[j] = l[k] OBVIOUS
  <2>1. CASE k < n BY <1>1, <1>2, <2>1
  <2>2. CASE k >= n
    <3>1. k + 1 \in 1 .. Len(m) /\ k + 1 > n /\ (k + 1) - 1 = k BY <1>1, <1>2, <2>2
    <3>2. m[k + 1] = l[k] BY <1>1, <1>2, <3>1
    <3>3. QED BY <3>1, <3>2
  <2>3. QED BY <1>1, <2>1, <2>2
<1>6. e \in Entries(m)
  <2>1. n \in 1 .. Len(m) /\ m[n] = e BY <1>1, <1>2
  <2>2. QED BY <2>1 DEF Entries
<1>7. Entries(m) = Entries(l) \cup {e} BY <1>4, <1>5, <1>6 DEF Entries
<1>8. ASSUME NEW x, x # e, Once(l, x) PROVE Once(m, x)
  <2> SUFFICES ASSUME NEW i \in 1 .. Len(m), NEW j \in 1 .. Len(m), m[i] = x, m[j] = x
               PROVE  i = j
    BY DEF Once
  <2>1. PICK k \in 1 .. Len(l) : i # n /\ k = (IF i < n THEN i ELSE i - 1) /\ m[i] = l[k]
    BY <1>3, <1>8
  <2>2. PICK g \in 1 .. Len(l) : j # n /\ g = (IF j < n THEN j ELSE j - 1) /\ m[j] = l[g]
    BY <1>3, <1>8
  <2>3. k = g BY <1>8, <2>1, <2>2 DEF Once
  <2>4. QED BY <1>1, <1>2, <2>1, <2>2, <2>3
<1>9. ASSUME e \notin Entries(l) PROVE Once(m, e)
  <2>1. \A j \in 1 .. Len(m) : m[j] = e => j = n BY <1>3, <1>9 DEF Entries
  <2>2. QED BY <2>1 DEF Once
<1>10. QED BY <1>7, <1>8, <1>9 DEF m

-------------------------------------------------------------------------------
(* t is linked somewhere ahead of u. *)
Precedes(l, t, u) == \E i, j \in 1 .. Len(l) : i < j /\ l[i] = t /\ l[j] = u

LEMMA PrecedesEntries ==
  ASSUME NEW l, NEW t, NEW u, Precedes(l, t, u)
  PROVE  t \in Entries(l) /\ u \in Entries(l)
BY DEF Precedes, Entries

(* A new entry comes behind all others, whose order stays. *)
LEMMA PrecedesAddTail ==
  ASSUME NEW S, NEW l \in Seq(S), NEW e \in S, NEW t, NEW u
  PROVE  /\ Precedes(l, t, u) => Precedes(list_add_tail(e, l), t, u)
         /\ t \in Entries(l) => Precedes(list_add_tail(e, l), t, e)
<1> DEFINE m == list_add_tail(e, l)
<1>1. /\ Len(m) = Len(l) + 1 /\ m[Len(l) + 1] = e /\ Len(l) \in Nat
      /\ \A i \in 1 .. Len(l) : m[i] = l[i]
  BY DEF list_add_tail
<1> HIDE DEF m
<1>2. ASSUME Precedes(l, t, u) PROVE Precedes(m, t, u)
  <2>1. PICK i, j \in 1 .. Len(l) : i < j /\ l[i] = t /\ l[j] = u BY <1>2 DEF Precedes
  <2>2. i \in 1 .. Len(m) /\ j \in 1 .. Len(m) BY <1>1
  <2>3. QED BY <1>1, <2>1, <2>2 DEF Precedes
<1>3. ASSUME t \in Entries(l) PROVE Precedes(m, t, e)
  <2>1. PICK i \in 1 .. Len(l) : l[i] = t BY <1>3 DEF Entries
  <2>2. i \in 1 .. Len(m) /\ Len(l) + 1 \in 1 .. Len(m) /\ i < Len(l) + 1 BY <1>1
  <2>3. QED BY <1>1, <2>1, <2>2 DEF Precedes
<1>4. QED BY <1>2, <1>3 DEF m

(* Taking the first entry keeps the order of the others. *)
LEMMA PrecedesTail ==
  ASSUME NEW S, NEW l \in Seq(S), ~list_empty(l), NoDuplicates(l), NEW t, NEW u, Precedes(l, t, u)
  PROVE  u # list_first_entry(l) /\ (t # list_first_entry(l) => Precedes(Tail(l), t, u))
<1> DEFINE d == Tail(l)
<1>1. /\ Len(l) \in Nat /\ Len(l) > 0 /\ Len(d) = Len(l) - 1
      /\ \A k \in 1 .. (Len(l) - 1) : d[k] = l[k + 1]
      /\ list_first_entry(l) = l[1] /\ 1 \in 1 .. Len(l)
  BY DEF list_empty, list_first_entry
<1> HIDE DEF d
<1>2. PICK i, j \in 1 .. Len(l) : i < j /\ l[i] = t /\ l[j] = u BY DEF Precedes
<1>3. u # l[1] BY <1>1, <1>2 DEF NoDuplicates
<1>4. ASSUME t # l[1] PROVE Precedes(d, t, u)
  <2>1. i - 1 \in 1 .. Len(d) /\ j - 1 \in 1 .. Len(d) /\ i - 1 < j - 1 BY <1>1, <1>2, <1>4
  <2>2. d[i - 1] = l[i] /\ d[j - 1] = l[j] BY <1>1, <2>1
  <2>3. QED BY <1>2, <2>1, <2>2 DEF Precedes
<1>5. QED BY <1>1, <1>3, <1>4 DEF d

(* So does unlinking an entry from the middle. *)
LEMMA PrecedesDel ==
  ASSUME NEW S, NEW l \in Seq(S), NoDuplicates(l), NEW e \in Entries(l), NEW t, NEW u,
         Precedes(l, t, u), t # e, u # e
  PROVE  Precedes(list_del(l, e), t, u)
<1> DEFINE d == list_del(l, e)
<1>1. PICK c \in 1 .. Len(l) : l[c] = e BY DEF Entries
<1>2. /\ Len(l) \in Nat /\ Len(d) = Len(l) - 1
      /\ \A j \in 1 .. (Len(l) - 1) : d[j] = IF j < c THEN l[j] ELSE l[j + 1]
  <2>1. list_del(l, l[c]) = d BY <1>1
  <2>2. /\ Len(list_del(l, l[c])) = Len(l) - 1 /\ Len(l) \in Nat
        /\ \A j \in 1 .. (Len(l) - 1) :
             list_del(l, l[c])[j] = IF j < c THEN l[j] ELSE l[j + 1]
    BY ListDelAt
  <2>3. QED BY <2>1, <2>2
<1> HIDE DEF d
<1>3. PICK i, j \in 1 .. Len(l) : i < j /\ l[i] = t /\ l[j] = u BY DEF Precedes
<1>4. i # c /\ j # c BY <1>1, <1>3
<1>5. PICK x : x = IF i < c THEN i ELSE i - 1 OBVIOUS
<1>6. PICK y : y = IF j < c THEN j ELSE j - 1 OBVIOUS
<1>7. x \in 1 .. Len(d) /\ y \in 1 .. Len(d) /\ x < y BY <1>2, <1>3, <1>4, <1>5, <1>6
<1>8. d[x] = t BY <1>2, <1>3, <1>4, <1>5, <1>7
<1>9. d[y] = u BY <1>2, <1>3, <1>4, <1>6, <1>7
<1>10. QED BY <1>7, <1>8, <1>9 DEF Precedes, d


(* An entry that is linked at position n keeps the order of the others and *)
(* comes behind the ones before n.                                         *)
LEMMA PrecedesInsert ==
  ASSUME NEW S, NEW l \in Seq(S), NEW e \in S, NEW n \in 1 .. Len(l) + 1, NEW t, NEW u
  PROVE  /\ Precedes(l, t, u) => Precedes(list_insert(l, n, e), t, u)
         /\ \A k \in 1 .. Len(l) : k < n => Precedes(list_insert(l, n, e), l[k], e)
<1> DEFINE m == list_insert(l, n, e)
<1>1. Len(l) \in Nat /\ n \in Nat /\ n >= 1 /\ n <= Len(l) + 1 OBVIOUS
<1>2. /\ Len(m) = Len(l) + 1
      /\ \A j \in 1 .. Len(l) + 1 : m[j] = IF j < n THEN l[j] ELSE IF j = n THEN e ELSE l[j - 1]
  BY ListInsert
<1> HIDE DEF m
<1>3. \A k \in 1 .. Len(l) : \E j \in 1 .. Len(m) : m[j] = l[k] /\ j = (IF k < n THEN k ELSE k + 1)
  <2> SUFFICES ASSUME NEW k \in 1 .. Len(l)
               PROVE  \E j \in 1 .. Len(m) : m[j] = l[k] /\ j = (IF k < n THEN k ELSE k + 1)
    OBVIOUS
  <2>1. CASE k < n BY <1>1, <1>2, <2>1
  <2>2. CASE k >= n
    <3>1. k + 1 \in 1 .. Len(m) /\ k + 1 > n /\ (k + 1) - 1 = k BY <1>1, <1>2, <2>2
    <3>2. m[k + 1] = l[k] BY <1>1, <1>2, <3>1
    <3>3. QED BY <1>1, <2>2, <3>1, <3>2
  <2>3. QED BY <1>1, <2>1, <2>2
<1>4. ASSUME Precedes(l, t, u) PROVE Precedes(m, t, u)
  <2>1. PICK i, j \in 1 .. Len(l) : i < j /\ l[i] = t /\ l[j] = u BY <1>4 DEF Precedes
  <2>2. PICK a \in 1 .. Len(m) : m[a] = l[i] /\ a = (IF i < n THEN i ELSE i + 1) BY <1>3
  <2>3. PICK b \in 1 .. Len(m) : m[b] = l[j] /\ b = (IF j < n THEN j ELSE j + 1) BY <1>3
  <2>4. a < b BY <1>1, <2>1, <2>2, <2>3
  <2>5. QED BY <2>1, <2>2, <2>3, <2>4 DEF Precedes
<1>5. ASSUME NEW k \in 1 .. Len(l), k < n PROVE Precedes(m, l[k], e)
  <2>1. k \in 1 .. Len(m) /\ n \in 1 .. Len(m) /\ m[k] = l[k] /\ m[n] = e BY <1>1, <1>2, <1>5
  <2>2. QED BY <1>5, <2>1 DEF Precedes
<1>6. QED BY <1>4, <1>5 DEF m
===============================================================================
