----------------------------- MODULE Heap_proofs -----------------------------
(***************************************************************************)
(* Theorems about the heap, for a pool of any size, any sizes asked for    *)
(* and any number of objects.                                              *)
(*                                                                         *)
(* The inductive invariant IInv is that the heap is whole and that         *)
(* references lead to objects.  A heap is whole when its blocks tile the   *)
(* pool and each list holds the free blocks of its class, once; between    *)
(* two steps of an operation a block may be on no list (Lists(h, X)).  The *)
(* chapters follow this: size classes grow with sizes, what happens to     *)
(* lists, what happens to tiles; then each part of an operation (a block   *)
(* is cut, taken, freed, joined, collected) makes a whole heap of a whole  *)
(* one and leaves what else is in use alone (Gives); then the operations.  *)
(*                                                                         *)
(* All of it holds until the heap is harmed, which is part of the          *)
(* properties: a block that grows by exactly the next one and its header   *)
(* makes a size that wraps around (allocator.cpp:120), and tryAlloc looks  *)
(* at the first block of a class only (allocator.cpp:72).                  *)
(***************************************************************************)
EXTENDS Heap, FiniteSetTheorems, SequenceTheorems, WellFoundedInduction, TLAPS

-------------------------------------------------------------------------------
(* Numbers. *)

Less == {p \in Nat \X Nat : p[1] < p[2]}

\* A set of naturals that is not empty has a least element.
LEMMA Least ==
    ASSUME NEW T \in SUBSET Nat, T # {}
    PROVE  \E m \in T : \A k \in T : m <= k
<1>1. IsWellFoundedOn(Less, Nat)
  BY NatLessThanWellFounded DEF OpToRel, Less
<1>2. PICK m \in T : \A k \in T : ~(<<k, m>> \in Less)
  BY <1>1, WFMin, Zenon
<1>3. ASSUME NEW k \in T, k < m PROVE FALSE
  <2>1. <<k, m>> \in Less
    BY <1>3 DEF Less
  <2> QED  BY <2>1, <1>2
<1>4. \A k \in T : m <= k
  BY <1>3
<1> QED  BY <1>4

\* One that has a bound has a greatest one, too.
LEMMA Greatest ==
    ASSUME NEW T \in SUBSET Nat, T # {}, NEW n \in Nat, \A k \in T : k <= n
    PROVE  \E m \in T : \A k \in T : k <= m
<1> DEFINE D == {k \in Nat : n - k \in T}
<1>1. PICK x \in T : TRUE
  OBVIOUS
<1>2. n - x \in D
  BY <1>1
<1>3. PICK d \in D : \A k \in D : d <= k
  BY <1>2, Least
<1>4. n - d \in T /\ d \in Nat
  BY <1>3
<1>5. ASSUME NEW k \in T PROVE k <= n - d
  <2>1. n - k \in D
    OBVIOUS
  <2> QED  BY <2>1, <1>3, <1>4
<1> QED  BY <1>4, <1>5

\* What Min gives.
LEMMA MinIs ==
    ASSUME NEW T \in SUBSET Nat, T # {}
    PROVE  Min(T) \in T /\ \A k \in T : Min(T) <= k
BY Least DEF Min

-------------------------------------------------------------------------------
(* The size classes. *)

Power(i) == 2^i

LEMMA Powers ==
    /\ Power(0) = 1 /\ Power(1) = 2 /\ Power(2) = 4 /\ Power(3) = 8
    /\ Power(4) = 16 /\ Power(5) = 32 /\ Power(6) = 64 /\ Power(7) = 128
    /\ Power(8) = 256 /\ Power(9) = 512 /\ Power(10) = 1024 /\ Power(11) = 2048
    /\ Power(12) = 4096 /\ Power(13) = 8192 /\ Power(14) = 16384 /\ Power(15) = 32768
    /\ Power(16) = 65536 /\ Power(17) = 131072 /\ Power(18) = 262144 /\ Power(19) = 524288
    /\ Power(20) = 1048576 /\ Power(21) = 2097152 /\ Power(22) = 4194304 /\ Power(23) = 8388608
    /\ Power(24) = 16777216 /\ Power(25) = 33554432 /\ Power(26) = 67108864 /\ Power(27) = 134217728
    /\ Power(28) = 268435456 /\ Power(29) = 536870912 /\ Power(30) = 1073741824
BY SMT DEF Power

LEMMA PowerIs ==
    ASSUME NEW i \in 0 .. 30
    PROVE  Power(i) \in Nat \ {0} /\ (i < 30 => Power(i + 1) = 2 * Power(i))
<1>1. i = 0 \/ i = 1 \/ i = 2 \/ i = 3 \/ i = 4 \/ i = 5 \/ i = 6 \/ i = 7 \/
      i = 8 \/ i = 9 \/ i = 10 \/ i = 11 \/ i = 12 \/ i = 13 \/ i = 14 \/ i = 15 \/
      i = 16 \/ i = 17 \/ i = 18 \/ i = 19 \/ i = 20 \/ i = 21 \/ i = 22 \/ i = 23 \/
      i = 24 \/ i = 25 \/ i = 26 \/ i = 27 \/ i = 28 \/ i = 29 \/ i = 30
  OBVIOUS
<1> QED  BY <1>1, Powers, SMTT(20)

LEMMA WordIs == Word = Power(30) /\ Word \in Nat /\ Word > 15
BY Powers, SMT DEF Word

LEMMA EightIs == Power(3) = 8
BY Powers, SMT

LEMMA PowersGrow ==
    ASSUME NEW i \in 0 .. 30, NEW j \in 0 .. 30, i < j
    PROVE  2 * Power(i) <= Power(j)
<1> DEFINE Bad == {k \in Nat : i < k /\ k <= 30 /\ Power(k) < 2 * Power(i)}
<1>1. \A k \in 0 .. 30 : Power(k) \in Nat
  BY PowerIs
<1>2. ASSUME Bad # {} PROVE FALSE
  <2>1. PICK m \in Bad : \A k \in Bad : m <= k
    BY <1>2, Least
  <2>2. m - 1 \in 0 .. 29 /\ m = (m - 1) + 1
    BY <2>1
  <2>3. Power(m) = 2 * Power(m - 1)
    BY <2>2, PowerIs
  <2>4. m # i + 1
    BY <2>1, PowerIs
  <2>5. m - 1 \notin Bad
    BY <2>1
  <2>6. Power(m - 1) >= 2 * Power(i)
    BY <1>1, <2>1, <2>2, <2>4, <2>5
  <2> QED  BY <1>1, <2>1, <2>2, <2>3, <2>6
<1>3. j \notin Bad
  BY <1>2
<1> QED  BY <1>1, <1>3

\* The first bit of a number.
LEMMA FirstBit ==
    ASSUME NEW n \in 8 .. Word - 1
    PROVE  Log2(n) \in 3 .. 29 /\ Power(Log2(n)) <= n /\ n < 2 * Power(Log2(n))
<1> DEFINE T == {k \in Nat : k <= 30 /\ n < Power(k)}
<1>1. PICK m \in T : \A k \in T : m <= k
  <2>1. 30 \in T
    BY WordIs
  <2> QED  BY <2>1, Least
<1>2. m >= 4
  <2>1. ASSUME m < 3 PROVE FALSE
    BY <1>1, <2>1, PowerIs, PowersGrow, EightIs
  <2> QED  BY <1>1, <2>1, EightIs
<1>3. m - 1 \in 3 .. 29 /\ m = (m - 1) + 1 /\ n < Power((m - 1) + 1)
  BY <1>1, <1>2
<1>4. Power(m - 1) <= n
  <2>1. m - 1 \notin T
    BY <1>1, <1>3
  <2> QED  BY <2>1, <1>3, PowerIs
<1>5. \E i \in 0 .. 30 : Power(i) <= n /\ n < Power(i + 1)
  BY <1>3, <1>4
<1>6. Log2(n) \in 0 .. 30 /\ Power(Log2(n)) <= n /\ n < Power(Log2(n) + 1)
  BY <1>5 DEF Log2, Power
<1> DEFINE i == Log2(n)
<1> HIDE DEF i
<1>7. i \in 3 .. 29
  <2>1. i \notin 0 .. 2
    <3>1. SUFFICES ASSUME i \in 0 .. 2 PROVE FALSE
      OBVIOUS
    <3>2. i + 1 <= 3 /\ i + 1 \in 0 .. 30 /\ Power(i + 1) \in Nat
      BY <3>1, PowerIs
    <3>3. Power(i + 1) <= Power(3)
      BY <3>2, PowersGrow, EightIs
    <3> QED  BY <1>6, <3>2, <3>3, EightIs DEF i
  <2>2. i # 30
    BY <1>6, WordIs DEF i
  <2> QED  BY <1>6, <2>1, <2>2 DEF i
<1>8. Power(i + 1) = 2 * Power(i)
  BY <1>7, PowerIs
<1> QED  BY <1>6, <1>7, <1>8 DEF i

LEMMA Quotients ==
    ASSUME NEW p \in Nat \ {0}, NEW m \in Nat, NEW n \in Nat, m <= n
    PROVE  /\ m \div p \in Nat /\ m \div p <= n \div p
           /\ 8 * p <= m /\ m < 16 * p => m \div p \in 8 .. 15
<1> DEFINE q == m \div p
           r == n \div p
<1>1. q \in Nat /\ q * p <= m /\ m < (q + 1) * p
  BY SMT
<1>2. r \in Nat /\ r * p <= n /\ n < (r + 1) * p
  BY SMT
<1> HIDE DEF q, r
<1>3. q <= r
  <2>1. SUFFICES ASSUME r + 1 <= q PROVE FALSE
    BY <1>1, <1>2
  <2>2. (r + 1) * p <= q * p
    BY <1>1, <1>2, <2>1
  <2>3. (r + 1) * p \in Nat /\ q * p \in Nat
    BY <1>1, <1>2
  <2> QED  BY <1>1, <1>2, <2>2, <2>3
<1>4. ASSUME 8 * p <= m, m < 16 * p PROVE q \in 8 .. 15
  BY <1>1, <1>4
<1> QED  BY <1>1, <1>3, <1>4 DEF q, r

\* The class of a block: exact below eight words, then by the three bits behind the first.
LEMMA LargeSlot ==
    ASSUME NEW n \in 8 .. Word - 1
    PROVE  /\ n \div Power(Log2(n) - 3) \in 8 .. 15
           /\ Slot(n) = 8 * Log2(n) - 24 + (n \div Power(Log2(n) - 3))
<1> DEFINE i == Log2(n)
           p == Power(i - 3)
           q == n \div p
<1>1. Slot(n) = 8 * (i + 2) + (q % 8) - 32
  BY DEF Slot, Power
<1>2. i \in 3 .. 29 /\ Power(i) <= n /\ n < 2 * Power(i)
  BY FirstBit
<1> HIDE DEF i
<1>3. Power(i) = 8 * p /\ p \in Nat \ {0}
  <2>1. i - 3 \in 0 .. 26 /\ (i - 3) + 1 = i - 2 /\ (i - 2) + 1 = i - 1 /\ (i - 1) + 1 = i
    BY <1>2
  <2> QED  BY <2>1, PowerIs
<1> HIDE DEF p
<1>4. q \in 8 .. 15
  <2>1. n \in Nat /\ n <= n /\ 8 * p <= n /\ n < 16 * p
    BY <1>2, <1>3, WordIs
  <2> QED  BY <1>3, <2>1, Quotients
<1> HIDE DEF q
<1>5. q % 8 = q - 8
  BY <1>4
<1>6. Slot(n) = 8 * i - 24 + q
  BY <1>1, <1>2, <1>4, <1>5
<1> QED  BY <1>4, <1>6 DEF i, p, q

\* A larger block is of the same class or a higher one.
LEMMA SlotsInOrder ==
    ASSUME NEW m \in 1 .. Word - 1, NEW n \in 1 .. Word - 1
    PROVE  Slot(m) \in Nat /\ (m <= n => Slot(m) <= Slot(n))
<1>1. ASSUME NEW x \in 8 .. Word - 1 PROVE Slot(x) \in Nat /\ Slot(x) >= 8
  <2>1. Log2(x) \in 3 .. 29
    BY FirstBit
  <2> QED  BY <2>1, LargeSlot
<1>2. ASSUME NEW x \in 1 .. 7 PROVE Slot(x) = x
  BY DEF Slot
<1>3. ASSUME m \in 8 .. Word - 1, n \in 8 .. Word - 1, m <= n PROVE Slot(m) <= Slot(n)
  <2>1. Log2(m) \in 3 .. 29 /\ Power(Log2(m)) <= m /\ m < 2 * Power(Log2(m))
    BY <1>3, FirstBit
  <2>2. Log2(n) \in 3 .. 29 /\ Power(Log2(n)) <= n /\ n < 2 * Power(Log2(n))
    BY <1>3, FirstBit
  <2>3. /\ m \div Power(Log2(m) - 3) \in 8 .. 15
        /\ Slot(m) = 8 * Log2(m) - 24 + (m \div Power(Log2(m) - 3))
    BY <1>3, LargeSlot
  <2>4. /\ n \div Power(Log2(n) - 3) \in 8 .. 15
        /\ Slot(n) = 8 * Log2(n) - 24 + (n \div Power(Log2(n) - 3))
    BY <1>3, LargeSlot
  <2>5. Log2(m) <= Log2(n)
    <3>1. SUFFICES ASSUME Log2(n) < Log2(m) PROVE FALSE
      BY <2>1, <2>2
    <3>2. 2 * Power(Log2(n)) <= Power(Log2(m))
      BY <2>1, <2>2, <3>1, PowersGrow
    <3>3. Power(Log2(n)) \in Nat /\ Power(Log2(m)) \in Nat
      BY <2>1, <2>2, PowerIs
    <3> QED  BY <1>3, <2>1, <2>2, <3>2, <3>3, WordIs
  <2>6. CASE Log2(m) = Log2(n)
    <3>1. Log2(m) - 3 \in 0 .. 30
      BY <2>1
    <3>2. Power(Log2(m) - 3) \in Nat \ {0}
      BY <3>1, PowerIs
    <3>3. m \div Power(Log2(m) - 3) <= n \div Power(Log2(m) - 3)
      BY <1>3, <3>2, Quotients, m \in Nat, n \in Nat, WordIs
    <3> QED  BY <2>1, <2>3, <2>4, <2>6, <3>3
  <2>7. CASE Log2(m) + 1 <= Log2(n)
    BY <2>1, <2>2, <2>3, <2>4, <2>7
  <2> QED  BY <2>1, <2>2, <2>5, <2>6, <2>7
<1>4. /\ m \in 1 .. 7 \/ m \in 8 .. Word - 1
      /\ n \in 1 .. 7 \/ n \in 8 .. Word - 1
  BY WordIs
<1> QED  BY <1>1, <1>2, <1>3, <1>4, WordIs

LEMMA BlockClass ==
    ASSUME NEW n \in 1 .. Pool - 1
    PROVE  Slot(n) \in Classes
<1>1. n \in 1 .. Word - 1 /\ Pool - 1 \in 1 .. Word - 1 /\ n <= Pool - 1
  BY PoolAssumption, WordIs
<1>2. Slot(n) \in Nat /\ Slot(Pool - 1) \in Nat /\ Slot(n) <= Slot(Pool - 1)
  BY <1>1, SlotsInOrder
<1> QED  BY <1>2 DEF Classes

LEMMA ClassesAre == Classes \in SUBSET Nat
<1>1. Pool - 1 \in 1 .. Word - 1
  BY PoolAssumption, WordIs
<1>2. Slot(Pool - 1) \in Nat
  BY <1>1, SlotsInOrder
<1> QED  BY <1>2 DEF Classes

-------------------------------------------------------------------------------
(* Lists. *)

\* A list holds each of a set, once.
Holds(s, S) ==
    /\ s \in Seq(S)
    /\ \A m, n \in 1 .. Len(s) : s[m] = s[n] => m = n
    /\ \A b \in S : \E n \in 1 .. Len(s) : s[n] = b

LEMMA HoldsNats ==
    ASSUME NEW S \in SUBSET Nat, NEW s, Holds(s, S)
    PROVE  s \in Seq(Nat)
<1>1. s \in Seq(S)
  BY DEF Holds
<1>2. \A n \in 1 .. Len(s) : s[n] \in S
  BY <1>1
<1>3. \A n \in 1 .. Len(s) : s[n] \in Nat
  BY <1>2
<1> QED  BY <1>1, <1>3

LEMMA HoldsNone == Holds(<<>>, {})
BY DEF Holds

LEMMA HoldsOnce ==
    ASSUME NEW S, NEW s, Holds(s, S), NEW m \in 1 .. Len(s), NEW n \in 1 .. Len(s), s[m] = s[n]
    PROVE  m = n
BY DEF Holds

LEMMA HoldsPushed ==
    ASSUME NEW S, NEW s, Holds(s, S), NEW b, b \notin S
    PROVE  Holds(<<b>> \o s, S \cup {b})
<1> DEFINE t == <<b>> \o s
           T == S \cup {b}
<1>1. s \in Seq(S) /\ s \in Seq(T) /\ <<b>> \in Seq(T) /\ Len(s) \in Nat
  BY DEF Holds
<1>2. t \in Seq(T) /\ Len(t) = Len(s) + 1
  BY <1>1
<1>3. /\ t[1] = b
      /\ \A n \in 2 .. Len(s) + 1 : t[n] = s[n - 1] /\ n - 1 \in 1 .. Len(s)
  BY <1>1
<1>4. \A n \in 1 .. Len(s) : t[n + 1] = s[n] /\ n + 1 \in 2 .. Len(s) + 1 /\ s[n] \in S
  BY <1>1
<1> HIDE DEF t
<1>5. ASSUME NEW m \in 1 .. Len(t), NEW n \in 1 .. Len(t), t[m] = t[n] PROVE m = n
  <2>1. CASE m = 1 /\ n = 1
    BY <2>1
  <2>2. CASE m # 1 /\ n # 1
    <3>1. m - 1 \in 1 .. Len(s) /\ n - 1 \in 1 .. Len(s) /\ s[m - 1] = s[n - 1]
      BY <1>1, <1>2, <1>3, <1>5, <2>2
    <3>2. m - 1 = n - 1
      BY <3>1, HoldsOnce
    <3> QED  BY <3>2
  <2>3. CASE m = 1 /\ n # 1
    BY <1>1, <1>2, <1>3, <1>4, <1>5, <2>3
  <2>4. CASE m # 1 /\ n = 1
    BY <1>1, <1>2, <1>3, <1>4, <1>5, <2>4
  <2> QED  BY <2>1, <2>2, <2>3, <2>4
<1>6. ASSUME NEW c \in T PROVE \E n \in 1 .. Len(t) : t[n] = c
  <2>1. CASE c = b
    BY <1>1, <1>2, <1>3, <2>1
  <2>2. CASE c \in S
    <3>1. PICK n \in 1 .. Len(s) : s[n] = c
      BY <2>2 DEF Holds
    <3> QED  BY <1>1, <1>2, <1>4, <3>1
  <2> QED  BY <2>1, <2>2
<1> QED  BY <1>2, <1>5, <1>6 DEF Holds, t

LEMMA HoldsTail ==
    ASSUME NEW S, NEW s, Holds(s, S), s # <<>>
    PROVE  Head(s) \in S /\ Holds(Tail(s), S \ {Head(s)})
<1> DEFINE t == Tail(s)
           b == Head(s)
<1>1. s \in Seq(S) /\ Len(s) \in Nat \ {0} /\ b = s[1] /\ b \in S
  BY DEF Holds
<1>2. t \in Seq(S) /\ Len(t) = Len(s) - 1 /\ \A n \in 1 .. Len(t) : t[n] = s[n + 1]
  BY <1>1
<1> HIDE DEF t, b
<1>3. ASSUME NEW n \in 1 .. Len(t), t[n] = b PROVE FALSE
  <2>1. n + 1 \in 1 .. Len(s) /\ 1 \in 1 .. Len(s) /\ s[n + 1] = s[1]
    BY <1>1, <1>2, <1>3
  <2>2. n + 1 = 1
    BY <2>1, HoldsOnce
  <2> QED  BY <2>2
<1>4. t \in Seq(S \ {b})
  <2>1. \A n \in 1 .. Len(t) : t[n] \in S \ {b}
    BY <1>2, <1>3
  <2> QED  BY <1>2, <2>1
<1>5. ASSUME NEW m \in 1 .. Len(t), NEW n \in 1 .. Len(t), t[m] = t[n] PROVE m = n
  <2>1. m + 1 \in 1 .. Len(s) /\ n + 1 \in 1 .. Len(s) /\ s[m + 1] = s[n + 1]
    BY <1>1, <1>2, <1>5
  <2>2. m + 1 = n + 1
    BY <2>1, HoldsOnce
  <2> QED  BY <2>2
<1>6. ASSUME NEW c \in S \ {b} PROVE \E n \in 1 .. Len(t) : t[n] = c
  <2>1. PICK n \in 1 .. Len(s) : s[n] = c
    BY DEF Holds
  <2>2. n - 1 \in 1 .. Len(t) /\ t[n - 1] = s[(n - 1) + 1] /\ (n - 1) + 1 = n
    BY <1>1, <1>2, <2>1
  <2> QED  BY <2>1, <2>2
<1> QED  BY <1>1, <1>4, <1>5, <1>6 DEF Holds, t, b

\* A list without one of its blocks, wherever it stands.
LEMMA HoldsOthers ==
    ASSUME NEW S, NEW s, Holds(s, S), NEW k \in 1 .. Len(s)
    PROVE  Holds([m \in 1 .. Len(s) - 1 |-> IF m < k THEN s[m] ELSE s[m + 1]], S \ {s[k]})
<1> DEFINE t == [m \in 1 .. Len(s) - 1 |-> IF m < k THEN s[m] ELSE s[m + 1]]
           at(m) == IF m < k THEN m ELSE m + 1
<1>1. s \in Seq(S) /\ Len(s) \in Nat \ {0} /\ k \in Nat
  BY DEF Holds
<1>2. \A m \in 1 .. Len(s) - 1 : at(m) \in 1 .. Len(s) /\ at(m) # k /\ t[m] = s[at(m)]
  BY <1>1
<1>3. t \in Seq(S \ {s[k]}) /\ Len(t) = Len(s) - 1
  <2>1. ASSUME NEW m \in 1 .. Len(s) - 1 PROVE t[m] \in S \ {s[k]}
    <3>1. at(m) \in 1 .. Len(s) /\ at(m) # k /\ t[m] = s[at(m)] /\ s[at(m)] \in S
      BY <1>1, <1>2
    <3>2. s[at(m)] # s[k]
      BY <3>1, HoldsOnce
    <3> QED  BY <3>1, <3>2
  <2>2. t \in [1 .. Len(s) - 1 -> S \ {s[k]}] /\ Len(s) - 1 \in Nat
    BY <1>1, <2>1
  <2> HIDE DEF t
  <2> QED  BY <2>2
<1>4. ASSUME NEW m \in 1 .. Len(t), NEW n \in 1 .. Len(t), t[m] = t[n] PROVE m = n
  <2>1. at(m) = at(n)
    <3>1. at(m) \in 1 .. Len(s) /\ at(n) \in 1 .. Len(s) /\ s[at(m)] = s[at(n)]
      BY <1>2, <1>3, <1>4
    <3> HIDE DEF at
    <3> QED  BY <3>1, HoldsOnce
  <2> QED  BY <1>1, <1>3, <2>1
<1>5. ASSUME NEW c \in S \ {s[k]} PROVE \E n \in 1 .. Len(t) : t[n] = c
  <2>1. PICK n \in 1 .. Len(s) : s[n] = c
    BY DEF Holds
  <2> DEFINE m == IF n < k THEN n ELSE n - 1
  <2>2. m \in 1 .. Len(s) - 1 /\ at(m) = n
    BY <1>1, <2>1
  <2> QED  BY <1>2, <1>3, <2>1, <2>2
<1> QED  BY <1>3, <1>4, <1>5 DEF Holds

\* Blocks are put in front of a list one by one: each of them once.
Falls(s) == \A m, n \in DOMAIN s : m < n => s[m] > s[n]

LEMMA FallsOnce ==
    ASSUME NEW S \in SUBSET Nat, IsFiniteSet(S), NEW s \in [1 .. Cardinality(S) -> S], Falls(s)
    PROVE  Holds(s, S)
<1> DEFINE k == Cardinality(S)
<1>1. k \in Nat /\ IsFiniteSet(1 .. k) /\ Cardinality(1 .. k) = k
  <2>1. k \in Nat
    BY FS_CardinalityType
  <2>2. IsFiniteSet(1 .. k) /\ Cardinality(1 .. k) = IF 1 <= k THEN k - 1 + 1 ELSE 0
    BY <2>1, FS_Interval
  <2> QED  BY <2>1, <2>2
<1> HIDE DEF k
<1>2. s \in [1 .. k -> S] /\ s \in Seq(S) /\ Len(s) = k
  BY <1>1 DEF k
<1>3. \A m, n \in 1 .. k : s[m] = s[n] => m = n
  <2>1. \A m, n \in 1 .. k : m < n => s[m] > s[n]
    BY <1>2 DEF Falls
  <2>2. \A m \in 1 .. k : s[m] \in Nat
    BY <1>2
  <2> QED  BY <1>1, <2>1, <2>2
<1>4. s \in Injection(1 .. k, S)
  BY <1>2, <1>3 DEF Injection, IsInjective
<1>5. s \in Surjection(1 .. k, S)
  BY <1>1, <1>4, FS_Injection DEF k
<1> QED  BY <1>2, <1>3, <1>5 DEF Holds, Surjection

LEMMA FallsExists ==
    ASSUME NEW S \in SUBSET (0 .. Pool - 1)
    PROVE  IsFiniteSet(S) /\ \E s \in [1 .. Cardinality(S) -> S] : Falls(s)
<1> DEFINE Good(T) == \E s \in [1 .. Cardinality(T) -> T] : Falls(s)
           Bad == {k \in Nat : \E T \in SUBSET (0 .. Pool - 1) : Cardinality(T) = k /\ ~Good(T)}
<1>1. \A T \in SUBSET (0 .. Pool - 1) : IsFiniteSet(T) /\ Cardinality(T) \in Nat /\ T \in SUBSET Nat
  <2>1. IsFiniteSet(0 .. Pool - 1)
    BY FS_Interval, PoolAssumption
  <2> TAKE T \in SUBSET (0 .. Pool - 1)
  <2>2. IsFiniteSet(T)
    BY <2>1, FS_Subset
  <2>3. Cardinality(T) \in Nat
    BY <2>2, FS_CardinalityType
  <2>4. T \in SUBSET Nat
    BY PoolAssumption
  <2> QED  BY <2>2, <2>3, <2>4
<1>2. ASSUME Bad # {} PROVE FALSE
  <2>1. PICK k \in Bad : \A j \in Bad : k <= j
    BY <1>2, Least
  <2>2. PICK T \in SUBSET (0 .. Pool - 1) : Cardinality(T) = k /\ ~Good(T)
    BY <2>1
  <2>3. T # {}
    <3>1. SUFFICES ASSUME T = {} PROVE FALSE
      OBVIOUS
    <3>2. Cardinality(T) = 0
      BY <3>1, FS_EmptySet
    <3> DEFINE e == [n \in 1 .. 0 |-> 0]
    <3>3. e \in [1 .. Cardinality(T) -> T] /\ Falls(e)
      BY <3>2 DEF Falls
    <3> QED  BY <2>2, <3>3
  <2>4. PICK x \in T : \A y \in T : x <= y
    BY <1>1, <2>3, Least
  <2>5. Cardinality(T \ {x}) = k - 1 /\ k - 1 \in Nat
    <3>1. Cardinality(T \ {x}) = Cardinality(T) - 1 /\ Cardinality(T \ {x}) \in Nat
      BY <1>1, <2>4, FS_RemoveElement
    <3> QED  BY <2>2, <3>1
  <2>6. Good(T \ {x})
    <3>1. k - 1 \notin Bad
      BY <2>1, <2>5
    <3> HIDE DEF Good
    <3> QED  BY <2>2, <2>5, <3>1
  <2>7. PICK s \in [1 .. k - 1 -> T \ {x}] : Falls(s)
    BY <2>5, <2>6
  <2> DEFINE t == [n \in 1 .. k |-> IF n = k THEN x ELSE s[n]]
  <2>8. t \in [1 .. Cardinality(T) -> T]
    BY <2>2, <2>4, <2>5, <2>7
  <2>9. Falls(t)
    <3>1. ASSUME NEW m \in 1 .. k, NEW n \in 1 .. k, m < n PROVE t[m] > t[n]
      <4>1. m \in 1 .. k - 1 /\ t[m] = s[m] /\ s[m] \in T \ {x}
        BY <2>5, <2>7, <3>1
      <4>2. CASE n = k
        <5>1. t[n] = x /\ s[m] >= x /\ s[m] # x /\ s[m] \in Nat /\ x \in Nat
          BY <1>1, <2>2, <2>4, <4>1, <4>2
        <5> QED  BY <4>1, <5>1
      <4>3. CASE n # k
        <5>1. n \in 1 .. k - 1 /\ t[n] = s[n]
          BY <2>5, <4>3
        <5>2. s[m] > s[n]
          BY <2>7, <3>1, <4>1, <5>1 DEF Falls
        <5> QED  BY <4>1, <5>1, <5>2
      <4> QED  BY <4>2, <4>3
    <3>2. DOMAIN t = 1 .. k
      OBVIOUS
    <3> HIDE DEF t
    <3> QED  BY <3>1, <3>2 DEF Falls
  <2> HIDE DEF t
  <2> QED  BY <2>2, <2>8, <2>9
<1>3. Cardinality(S) \notin Bad
  BY <1>2
<1> HIDE DEF Good
<1>4. Good(S)
  BY <1>1, <1>3
<1> QED  BY <1>1, <1>4 DEF Good

LEMMA HoldsListed ==
    ASSUME NEW S \in SUBSET (0 .. Pool - 1)
    PROVE  Holds(Listed(S), S)
<1>1. IsFiniteSet(S) /\ \E s \in [1 .. Cardinality(S) -> S] : Falls(s)
  BY FallsExists
<1>2. Listed(S) = CHOOSE s \in [1 .. Cardinality(S) -> S] : Falls(s)
  BY DEF Listed, Falls
<1>3. Listed(S) \in [1 .. Cardinality(S) -> S] /\ Falls(Listed(S))
  BY <1>1, <1>2
<1> QED  BY <1>1, <1>3, FallsOnce, PoolAssumption

-------------------------------------------------------------------------------
(* Blocks that follow each other. *)

Behind(f, b) == b + 1 + f[b]

\* Blocks with these sizes fill the pool.
Tiles(f) ==
    /\ f \in [DOMAIN f -> Nat \ {0}]
    /\ DOMAIN f \in SUBSET (0 .. Pool - 1)
    /\ 0 \in DOMAIN f
    /\ \A b \in DOMAIN f : Behind(f, b) \in DOMAIN f \cup {Pool}
    /\ \A b \in DOMAIN f \cup {Pool} : b # 0 => \E p \in DOMAIN f : Behind(f, p) = b
    /\ \A b, c \in DOMAIN f : b < c => Behind(f, b) <= c

LEMMA InPool ==
    ASSUME NEW f, Tiles(f), NEW b \in DOMAIN f
    PROVE  /\ b \in 0 .. Pool - 1 /\ b \in Nat /\ f[b] \in Nat \ {0} /\ f[b] \in 1 .. Pool - 1
           /\ Behind(f, b) \in Nat /\ b + 2 <= Behind(f, b) /\ Behind(f, b) <= Pool
           /\ Slot(f[b]) \in Classes
<1>1. b \in 0 .. Pool - 1 /\ f[b] \in Nat \ {0}
  BY DEF Tiles
<1>2. Behind(f, b) \in 0 .. Pool
  BY PoolAssumption DEF Tiles
<1>3. f[b] \in 1 .. Pool - 1
  BY <1>1, <1>2, PoolAssumption DEF Behind
<1> QED  BY <1>1, <1>2, <1>3, BlockClass, PoolAssumption DEF Behind

\* A block is cut in two.
LEMMA SplitTiles ==
    ASSUME NEW f, Tiles(f), NEW b \in DOMAIN f, NEW s \in Nat \ {0}, s + 2 <= f[b],
           NEW n, n = b + 1 + s, NEW r, r = f[b] - s - 1, NEW g, g = With(With(f, b, s), n, r)
    PROVE  /\ Tiles(g)
           /\ n \notin DOMAIN f /\ DOMAIN g = DOMAIN f \cup {n} /\ g[b] = s /\ g[n] = r
           /\ \A c \in DOMAIN f \ {b} : g[c] = f[c]
<1>1. b \in Nat /\ f[b] \in Nat \ {0} /\ Behind(f, b) \in Nat /\ Behind(f, b) <= Pool
  BY InPool
<1>2. n \in Nat /\ r \in Nat \ {0} /\ b < n /\ n < Behind(f, b) /\ n + 1 + r = Behind(f, b)
  BY <1>1 DEF Behind
<1>3. n \notin DOMAIN f
  <2>1. SUFFICES ASSUME n \in DOMAIN f PROVE FALSE
    OBVIOUS
  <2>2. Behind(f, b) <= n
    BY <1>2, <2>1 DEF Tiles
  <2> QED  BY <1>1, <1>2, <2>2
<1>4. /\ DOMAIN g = DOMAIN f \cup {n} /\ g[b] = s /\ g[n] = r
      /\ \A c \in DOMAIN f \ {b} : g[c] = f[c]
      /\ g = [c \in DOMAIN g |-> g[c]]
  BY <1>1, <1>2, <1>3 DEF With
<1>5. \A c \in DOMAIN f \ {b} : Behind(g, c) = Behind(f, c)
  BY <1>4 DEF Behind
<1>6. Behind(g, b) = n /\ Behind(g, n) = Behind(f, b)
  BY <1>2, <1>4 DEF Behind
<1>7. Tiles(g)
  <2>1. g \in [DOMAIN g -> Nat \ {0}]
    <3>1. \A c \in DOMAIN g : g[c] \in Nat \ {0}
      BY <1>2, <1>4 DEF Tiles
    <3> QED  BY <1>4, <3>1
  <2>2. DOMAIN g \in SUBSET (0 .. Pool - 1) /\ 0 \in DOMAIN g
    BY <1>1, <1>2, <1>4, PoolAssumption DEF Tiles
  <2>3. \A c \in DOMAIN g : Behind(g, c) \in DOMAIN g \cup {Pool}
    BY <1>4, <1>5, <1>6 DEF Tiles
  <2>4. ASSUME NEW c \in DOMAIN g \cup {Pool}, c # 0 PROVE \E p \in DOMAIN g : Behind(g, p) = c
    <3>1. CASE c = n
      BY <1>4, <1>6, <3>1
    <3>2. CASE c # n
      <4>1. PICK p \in DOMAIN f : Behind(f, p) = c
        BY <1>4, <2>4, <3>2 DEF Tiles
      <4> QED  BY <1>4, <1>5, <1>6, <4>1
    <3> QED  BY <3>1, <3>2
  <2>5. ASSUME NEW c \in DOMAIN g, NEW d \in DOMAIN g, c < d PROVE Behind(g, c) <= d
    <3>1. /\ \A x \in DOMAIN f : x \in Nat /\ Behind(f, x) \in Nat /\ x < Behind(f, x)
          /\ \A x, y \in DOMAIN f : x < y => Behind(f, x) <= y
      BY InPool DEF Tiles
    <3>2. CASE c = n /\ d # n
      <4>1. b < d
        BY <1>1, <1>2, <1>4, <2>5, <3>1, <3>2
      <4> QED  BY <1>4, <1>6, <3>1, <3>2, <4>1
    <3>3. CASE d = n /\ c # n
      <4>1. c = b \/ c < b
        <5>1. SUFFICES ASSUME b < c PROVE FALSE
          BY <1>1, <1>4, <3>1, <3>3
        <5>2. Behind(f, b) <= c /\ c \in Nat
          BY <1>4, <3>1, <3>3, <5>1
        <5> QED  BY <1>1, <1>2, <2>5, <3>3, <5>2
      <4>2. CASE c = b
        BY <1>2, <1>6, <3>3, <4>2
      <4>3. CASE c < b
        BY <1>1, <1>2, <1>4, <1>5, <3>1, <3>3, <4>3
      <4> QED  BY <4>1, <4>2, <4>3
    <3>4. CASE c # n /\ d # n
      BY <1>1, <1>2, <1>4, <1>5, <1>6, <2>5, <3>1, <3>4
    <3>5. CASE c = n /\ d = n
      BY <1>2, <2>5, <3>5
    <3> QED  BY <3>2, <3>3, <3>4, <3>5
  <2> QED  BY <2>1, <2>2, <2>3, <2>4, <2>5 DEF Tiles
<1> QED  BY <1>3, <1>4, <1>7

\* A block takes over the one that follows it.
LEMMA JoinTiles ==
    ASSUME NEW f, Tiles(f), NEW b \in DOMAIN f, Behind(f, b) \in DOMAIN f,
           NEW g, g = With([c \in DOMAIN f \ {Behind(f, b)} |-> f[c]], b, f[b] + 1 + f[Behind(f, b)])
    PROVE  /\ Tiles(g)
           /\ b # Behind(f, b) /\ DOMAIN g = DOMAIN f \ {Behind(f, b)}
           /\ g[b] = f[b] + 1 + f[Behind(f, b)]
           /\ \A c \in DOMAIN g \ {b} : g[c] = f[c]
<1> DEFINE n == Behind(f, b)
<1>1. /\ \A x \in DOMAIN f : /\ x \in Nat /\ f[x] \in Nat \ {0} /\ Behind(f, x) \in Nat
                             /\ x < Behind(f, x) /\ Behind(f, x) <= Pool
      /\ \A x, y \in DOMAIN f : x < y => Behind(f, x) <= y
      /\ n \in DOMAIN f /\ b < n
  BY InPool DEF Tiles
<1>2. /\ DOMAIN g = DOMAIN f \ {n} /\ g[b] = f[b] + 1 + f[n]
      /\ \A c \in DOMAIN g \ {b} : g[c] = f[c]
      /\ g = [c \in DOMAIN g |-> g[c]]
  BY <1>1 DEF With
<1>3. \A c \in DOMAIN g \ {b} : Behind(g, c) = Behind(f, c)
  BY <1>2 DEF Behind
<1>4. Behind(g, b) = Behind(f, n)
  BY <1>1, <1>2 DEF Behind
<1> HIDE DEF n
<1>5. b \in DOMAIN g /\ \A c \in DOMAIN g : c \in DOMAIN f
  BY <1>1, <1>2
<1>6. \A x, y \in DOMAIN f : Behind(f, x) = Behind(f, y) => x = y
  <2> SUFFICES ASSUME NEW x \in DOMAIN f, NEW y \in DOMAIN f, Behind(f, x) = Behind(f, y), x < y
               PROVE  FALSE
    BY <1>1
  <2>1. Behind(f, x) <= y
    BY <1>1
  <2> QED  BY <1>1, <2>1
<1>7. Behind(f, b) = n
  BY DEF n
<1>8. \A c \in DOMAIN g \ {b} : Behind(f, c) # n
  BY <1>5, <1>6, <1>7
<1>9. Tiles(g)
  <2>1. g \in [DOMAIN g -> Nat \ {0}]
    <3>1. \A c \in DOMAIN g : g[c] \in Nat \ {0}
      BY <1>1, <1>2, <1>5
    <3> QED  BY <1>2, <3>1
  <2>2. DOMAIN g \in SUBSET (0 .. Pool - 1) /\ 0 \in DOMAIN g
    BY <1>1, <1>2, PoolAssumption DEF Tiles
  <2>3. \A c \in DOMAIN g : Behind(g, c) \in DOMAIN g \cup {Pool}
    <3>1. \A c \in DOMAIN f : Behind(f, c) \in DOMAIN f \cup {Pool}
      BY DEF Tiles
    <3>2. Behind(f, n) # n
      BY <1>1
    <3> QED  BY <1>1, <1>2, <1>3, <1>4, <1>5, <1>8, <3>1, <3>2
  <2>4. ASSUME NEW c \in DOMAIN g \cup {Pool}, c # 0 PROVE \E p \in DOMAIN g : Behind(g, p) = c
    <3>1. PICK p \in DOMAIN f : Behind(f, p) = c
      BY <1>5, <2>4 DEF Tiles
    <3>2. p # b
      <4>1. n # Pool /\ n \notin DOMAIN g
        BY <1>1, <1>2, PoolAssumption DEF Tiles
      <4> QED  BY <1>7, <2>4, <3>1, <4>1
    <3> QED  BY <1>2, <1>3, <1>4, <1>5, <3>1, <3>2
  <2>5. ASSUME NEW c \in DOMAIN g, NEW d \in DOMAIN g, c < d PROVE Behind(g, c) <= d
    <3>1. CASE c # b
      BY <1>1, <1>3, <1>5, <2>5, <3>1
    <3>2. CASE c = b
      <4>1. n <= d /\ d # n
        BY <1>1, <1>2, <1>5, <1>7, <2>5, <3>2
      <4>2. n < d
        BY <1>1, <1>5, <4>1
      <4> QED  BY <1>1, <1>4, <1>5, <3>2, <4>2
    <3> QED  BY <3>1, <3>2
  <2> QED  BY <2>1, <2>2, <2>3, <2>4, <2>5 DEF Tiles
<1> QED  BY <1>1, <1>2, <1>9 DEF n

\* Of the blocks those of D remain; those that are not in K take over what follows
\* them up to the next of D.
Remain(f, D, K, g) ==
    /\ Tiles(f) /\ D \in SUBSET DOMAIN f /\ 0 \in D /\ K \in SUBSET D
    /\ \A b \in K : Behind(f, b) \in D \cup {Pool}
    /\ g = [b \in D |-> IF b \in K THEN f[b] ELSE Min({p \in D \cup {Pool} : p > b}) - b - 1]

LEMMA CoverTiles ==
    ASSUME NEW f, NEW D, NEW K, NEW g, Remain(f, D, K, g)
    PROVE  Tiles(g)
<1> DEFINE end(b) == Min({p \in D \cup {Pool} : p > b})
<1>a. Tiles(f) /\ D \in SUBSET DOMAIN f /\ 0 \in D /\ K \in SUBSET D
      /\ \A b \in K : Behind(f, b) \in D \cup {Pool}
  BY DEF Remain
<1>1. /\ \A x \in DOMAIN f : /\ x \in Nat /\ f[x] \in Nat \ {0} /\ Behind(f, x) \in Nat
                             /\ x + 2 <= Behind(f, x) /\ Behind(f, x) <= Pool /\ x < Pool
      /\ \A x, y \in DOMAIN f : x < y => Behind(f, x) <= y
      /\ Pool \in Nat /\ \A x \in D : x \in DOMAIN f
  BY <1>a, InPool, PoolAssumption DEF Tiles
<1>2. ASSUME NEW b \in D
      PROVE  end(b) \in D \cup {Pool} /\ end(b) > b /\ \A p \in D \cup {Pool} : p > b => end(b) <= p
  <2> DEFINE T == {p \in D \cup {Pool} : p > b}
  <2>1. T \in SUBSET Nat /\ T # {}
    BY <1>1, <1>a
  <2>2. Min(T) \in T /\ \A k \in T : Min(T) <= k
    BY <2>1, MinIs
  <2> QED  BY <2>2
<1>3. \A b \in D : Behind(f, b) <= end(b)
  BY <1>1, <1>2
<1> HIDE DEF end
<1>4. DOMAIN g = D /\ g = [c \in DOMAIN g |-> g[c]]
      /\ \A b \in D : g[b] = IF b \in K THEN f[b] ELSE end(b) - b - 1
  BY DEF end, Remain
<1>5. \A b \in D : Behind(g, b) = IF b \in K THEN Behind(f, b) ELSE end(b)
  <2> SUFFICES ASSUME NEW b \in D PROVE Behind(g, b) = IF b \in K THEN Behind(f, b) ELSE end(b)
    OBVIOUS
  <2>1. b \in Nat /\ end(b) \in Nat
    BY <1>1, <1>2
  <2> QED  BY <1>4, <2>1 DEF Behind
<1>6. \A b \in D : /\ Behind(g, b) \in D \cup {Pool} /\ Behind(g, b) > b
                   /\ \A c \in D \cup {Pool} : b < c => Behind(g, b) <= c
  <2> TAKE b \in D
  <2>1. CASE b \in K
    <3>1. b \in DOMAIN f /\ Behind(g, b) = Behind(f, b) /\ Behind(f, b) \in D \cup {Pool}
      BY <1>5, <1>a, <2>1
    <3>2. b \in Nat /\ Behind(f, b) \in Nat /\ b + 2 <= Behind(f, b) /\ Behind(f, b) <= Pool
      BY <1>1, <3>1
    <3>3. \A c \in D : b < c => Behind(f, b) <= c
      BY <1>1, <3>1
    <3>4. \A c \in D \cup {Pool} : b < c => Behind(f, b) <= c
      BY <3>2, <3>3
    <3>5. Behind(f, b) > b
      BY <3>2
    <3> QED  BY <3>1, <3>4, <3>5
  <2>2. CASE b \notin K
    BY <1>2, <1>5, <2>2
  <2> QED  BY <2>1, <2>2
<1>7. Tiles(g)
  <2>1. \A b \in D : g[b] \in Nat \ {0}
    BY <1>1, <1>a, <1>2, <1>3, <1>4
  <2>2. g \in [DOMAIN g -> Nat \ {0}]
    BY <1>4, <2>1
  <2>3. DOMAIN g \in SUBSET (0 .. Pool - 1)
    BY <1>4, <1>a DEF Tiles
  <2>4. ASSUME NEW c \in D \cup {Pool}, c # 0 PROVE \E p \in D : Behind(g, p) = c
    <3> DEFINE T == {p \in D : p < c}
    <3>1. T \in SUBSET Nat /\ 0 \in T /\ c \in Nat /\ \A k \in T : k <= c
      BY <1>1, <1>a, <2>4
    <3>2. PICK p \in T : \A k \in T : k <= p
      BY <3>1, Greatest
    <3>3. Behind(g, p) <= c /\ Behind(g, p) > p /\ Behind(g, p) \in D \cup {Pool}
      BY <1>6, <3>2
    <3>4. Behind(g, p) \in Nat /\ c <= Pool
      BY <1>1, <3>3
    <3>5. Behind(g, p) = c
      <4>1. SUFFICES ASSUME Behind(g, p) < c PROVE FALSE
        BY <3>1, <3>3, <3>4
      <4>2. Behind(g, p) \in T
        BY <1>1, <3>3, <3>4, <4>1
      <4>3. Behind(g, p) <= p /\ p \in Nat
        BY <3>1, <3>2, <4>2
      <4> QED  BY <3>3, <3>4, <4>3
    <3> QED  BY <3>2, <3>5
  <2> QED  BY <1>4, <1>6, <1>a, <2>2, <2>3, <2>4 DEF Tiles
<1> QED  BY <1>7

-------------------------------------------------------------------------------
(* Headers and lists. *)

Kinds == {"free", "static", "gc"}

Record(h) ==
    h = [size |-> h.size, use |-> h.use, table |-> h.table, ref |-> h.ref, weak |-> h.weak]

Shape(h) ==
    /\ Record(h)
    /\ Tiles(h.size)
    /\ h.use \in [DOMAIN h.size -> Kinds]
    /\ h.table \in [Classes -> Seq(Nat)]

FreeOf(f, g, i) == {b \in DOMAIN f : g[b] = "free" /\ Slot(f[b]) = i}

\* The lists hold the free blocks, but for those of a set that are not on them now.
Lists(h, X) == \A i \in Classes : Holds(h.table[i], FreeOf(h.size, h.use, i) \ X)

Whole(h) == Shape(h) /\ Lists(h, {})

\* A block is changed, in use or free: whatever else is in use stays.
Gives(h, k, b, u) ==
    /\ Whole(k)
    /\ b \in DOMAIN k.size /\ k.use[b] = u
    /\ Used(k) \ {b} = Used(h) \ {b}
    /\ \A c \in Used(h) \ {b} : k.size[c] = h.size[c] /\ k.use[c] = h.use[c]
    /\ k.ref = h.ref /\ k.weak = h.weak

LEMMA HeaderIs ==
    ASSUME NEW h, Record(h), NEW b, NEW s, NEW u, NEW k, k = Header(h, b, s, u)
    PROVE  /\ Record(k) /\ k.size = With(h.size, b, s) /\ k.use = With(h.use, b, u)
           /\ k.table = h.table /\ k.ref = h.ref /\ k.weak = h.weak
<1>1. k = [size |-> With(h.size, b, s), use |-> With(h.use, b, u), table |-> h.table,
           ref |-> h.ref, weak |-> h.weak]
  BY DEF Header, Record
<1> QED  BY <1>1 DEF Record

LEMMA TableChanged ==
    ASSUME NEW h, Record(h), NEW t, NEW k, k = [h EXCEPT !.table = t]
    PROVE  /\ Record(k) /\ k.table = t
           /\ k.size = h.size /\ k.use = h.use /\ k.ref = h.ref /\ k.weak = h.weak
<1>1. k = [size |-> h.size, use |-> h.use, table |-> t, ref |-> h.ref, weak |-> h.weak]
  BY DEF Record
<1> QED  BY <1>1 DEF Record

LEMMA NewFreeIs ==
    ASSUME NEW h, Record(h), NEW b, NEW s, Slot(s) \in Classes,
           NEW k, k = NewFree(h, b, s)
    PROVE  /\ Record(k) /\ k.size = With(h.size, b, s) /\ k.use = With(h.use, b, "free")
           /\ k.table = [h.table EXCEPT ![Slot(s)] = <<b>> \o h.table[Slot(s)]]
           /\ k.ref = h.ref /\ k.weak = h.weak
<1> DEFINE g == Header(h, b, s, "free")
<1>1. /\ Record(g) /\ g.size = With(h.size, b, s) /\ g.use = With(h.use, b, "free")
      /\ g.table = h.table /\ g.ref = h.ref /\ g.weak = h.weak
  BY HeaderIs
<1> HIDE DEF g
<1>2. g.size[b] = s
  BY <1>1 DEF With
<1>3. k = [g EXCEPT !.table[Slot(s)] = <<b>> \o @]
  BY <1>2 DEF NewFree, Push, g
<1> DEFINE t == [g.table EXCEPT ![Slot(s)] = <<b>> \o g.table[Slot(s)]]
<1>4. k = [g EXCEPT !.table = t]
  BY <1>3
<1>5. t = [h.table EXCEPT ![Slot(s)] = <<b>> \o h.table[Slot(s)]]
  BY <1>1
<1> HIDE DEF t
<1>6. /\ Record(k) /\ k.table = t
      /\ k.size = g.size /\ k.use = g.use /\ k.ref = g.ref /\ k.weak = g.weak
  BY <1>1, <1>4, TableChanged
<1> QED  BY <1>1, <1>5, <1>6

\* A block that was on no list is cut in two, the first part in use.
LEMMA CutIs ==
    ASSUME NEW h, Shape(h), NEW b \in Blocks(h), Lists(h, {b}),
           NEW s \in Nat \ {0}, s + 2 <= h.size[b], NEW u \in {"static", "gc"},
           NEW k, k = NewFree(Header(h, b, s, u), b + 1 + s, h.size[b] - s - 1)
    PROVE  Gives(h, k, b, u) /\ k.size[b] = s
<1> DEFINE n == b + 1 + s
           r == h.size[b] - s - 1
           g == Header(h, b, s, u)
<1>1. /\ Record(g) /\ g.size = With(h.size, b, s) /\ g.use = With(h.use, b, u)
      /\ g.table = h.table /\ g.ref = h.ref /\ g.weak = h.weak
  BY HeaderIs DEF Shape
<1>a. k = NewFree(g, n, r)
  OBVIOUS
<1> HIDE DEF g
<1>2. Slot(r) \in Classes
  <2>1. h.size[b] \in 1 .. Pool - 1
    BY InPool DEF Shape, Blocks
  <2>2. r \in 1 .. Pool - 1
    BY <2>1, PoolAssumption
  <2> QED  BY <2>2, BlockClass
<1> HIDE DEF n, r
<1>3. /\ Record(k) /\ k.size = With(g.size, n, r) /\ k.use = With(g.use, n, "free")
      /\ k.table = [g.table EXCEPT ![Slot(r)] = <<n>> \o g.table[Slot(r)]]
      /\ k.ref = g.ref /\ k.weak = g.weak
  <2>1. Record(g) /\ Slot(r) \in Classes /\ k = NewFree(g, n, r)
    BY <1>1, <1>2, <1>a
  <2> QED  BY <2>1, NewFreeIs
<1>4. /\ Tiles(k.size) /\ n \notin DOMAIN h.size /\ DOMAIN k.size = DOMAIN h.size \cup {n}
      /\ k.size[b] = s /\ k.size[n] = r
      /\ \A c \in DOMAIN h.size \ {b} : k.size[c] = h.size[c]
  <2>1. Tiles(h.size) /\ b \in DOMAIN h.size
    BY DEF Shape, Blocks
  <2>2. n = b + 1 + s /\ r = h.size[b] - s - 1 /\ k.size = With(With(h.size, b, s), n, r)
    BY <1>1, <1>3 DEF n, r
  <2> DEFINE f == h.size
             x == k.size
  <2>3. /\ Tiles(f) /\ b \in DOMAIN f /\ s + 2 <= f[b] /\ n = b + 1 + s /\ r = f[b] - s - 1
        /\ x = With(With(f, b, s), n, r)
    BY <2>1, <2>2
  <2> HIDE DEF f, x
  <2>4. /\ Tiles(x)
        /\ n \notin DOMAIN f /\ DOMAIN x = DOMAIN f \cup {n} /\ x[b] = s /\ x[n] = r
        /\ \A c \in DOMAIN f \ {b} : x[c] = f[c]
    BY <2>3, SplitTiles
  <2> QED  BY <2>4 DEF f, x
<1>5. /\ k.use \in [DOMAIN k.size -> Kinds] /\ k.use[b] = u /\ k.use[n] = "free"
      /\ \A c \in DOMAIN h.size \ {b} : k.use[c] = h.use[c]
  <2>1. DOMAIN h.use = DOMAIN h.size /\ \A c \in DOMAIN h.size : h.use[c] \in Kinds
    BY DEF Shape
  <2>2. g.use = [c \in DOMAIN h.size |-> IF c = b THEN u ELSE h.use[c]]
    BY <1>1, <2>1 DEF With, Blocks
  <2>3. k.use = [c \in DOMAIN h.size \cup {n} |-> IF c = n THEN "free" ELSE g.use[c]]
    BY <1>3, <2>2 DEF With
  <2>4. \A c \in DOMAIN k.size : k.use[c] = IF c = n THEN "free" ELSE IF c = b THEN u ELSE h.use[c]
    BY <1>4, <2>2, <2>3
  <2>5. \A c \in DOMAIN k.size : k.use[c] \in Kinds
    BY <1>4, <2>1, <2>4 DEF Kinds
  <2>6. k.use \in [DOMAIN k.size -> Kinds]
    BY <1>4, <2>3, <2>5
  <2> QED  BY <1>4, <2>4, <2>6 DEF Blocks
<1>6. ASSUME NEW i \in Classes
      PROVE  FreeOf(k.size, k.use, i) =
               (FreeOf(h.size, h.use, i) \ {b}) \cup (IF i = Slot(r) THEN {n} ELSE {})
  BY <1>4, <1>5 DEF FreeOf, Blocks
<1>7. h.table \in [Classes -> Seq(Nat)] /\ n \in Nat
  <2>1. b \in Nat
    BY InPool DEF Shape, Blocks
  <2> QED  BY <2>1 DEF Shape, n
<1>8. \A i \in Classes : k.table[i] = IF i = Slot(r) THEN <<n>> \o h.table[i] ELSE h.table[i]
  <2>1. k.table = [h.table EXCEPT ![Slot(r)] = <<n>> \o h.table[Slot(r)]] /\ DOMAIN h.table = Classes
    BY <1>1, <1>3, <1>7
  <2> QED  BY <2>1
<1>9. k.table \in [Classes -> Seq(Nat)]
  <2>1. <<n>> \o h.table[Slot(r)] \in Seq(Nat)
    BY <1>2, <1>7
  <2> DEFINE l == <<n>> \o h.table[Slot(r)]
  <2>2. k.table = [h.table EXCEPT ![Slot(r)] = l] /\ l \in Seq(Nat)
    BY <1>1, <1>3, <2>1
  <2> HIDE DEF l
  <2> QED  BY <1>7, <2>2
<1>10. Lists(k, {})
  <2> SUFFICES ASSUME NEW i \in Classes PROVE Holds(k.table[i], FreeOf(k.size, k.use, i))
    BY DEF Lists
  <2> DEFINE F == FreeOf(h.size, h.use, i) \ {b}
  <2>1. Holds(h.table[i], F)
    BY DEF Lists
  <2>2. n \notin F
    BY <1>4 DEF FreeOf
  <2> HIDE DEF F
  <2>3. CASE i = Slot(r)
    <3>1. Holds(<<n>> \o h.table[i], F \cup {n})
      BY <2>1, <2>2, HoldsPushed
    <3> QED  BY <1>6, <1>8, <2>3, <3>1 DEF F
  <2>4. CASE i # Slot(r)
    <3>1. FreeOf(k.size, k.use, i) = F
      BY <1>6, <2>4 DEF F
    <3> QED  BY <1>8, <2>1, <2>4, <3>1
  <2> QED  BY <2>3, <2>4
<1>11. Used(k) \ {b} = Used(h) \ {b}
  BY <1>4, <1>5 DEF Used, Blocks
<1> QED  BY <1>1, <1>3, <1>4, <1>5, <1>9, <1>10, <1>11 DEF Gives, Whole, Shape, Used, Blocks

\* A block that was on no list is taken as it is.
LEMMA TakenIs ==
    ASSUME NEW h, Shape(h), NEW b \in Blocks(h), Lists(h, {b}), NEW u \in {"static", "gc"},
           NEW k, k = Header(h, b, h.size[b], u)
    PROVE  Gives(h, k, b, u) /\ k.size[b] = h.size[b]
<1>1. /\ Record(k) /\ k.size = With(h.size, b, h.size[b]) /\ k.use = With(h.use, b, u)
      /\ k.table = h.table /\ k.ref = h.ref /\ k.weak = h.weak
  BY HeaderIs DEF Shape
<1>2. DOMAIN h.use = DOMAIN h.size /\ (\A c \in DOMAIN h.size : h.use[c] \in Kinds)
      /\ h.size = [c \in DOMAIN h.size |-> h.size[c]]
  BY DEF Shape, Tiles
<1>3. k.size = h.size
  <2>1. k.size = [c \in DOMAIN h.size |-> h.size[c]]
    BY <1>1 DEF With, Blocks
  <2> QED  BY <1>2, <2>1
<1>4. k.use = [c \in DOMAIN h.size |-> IF c = b THEN u ELSE h.use[c]]
  BY <1>1, <1>2 DEF With, Blocks
<1>5. k.use \in [DOMAIN k.size -> Kinds] /\ k.use[b] = u
      /\ \A c \in DOMAIN h.size \ {b} : k.use[c] = h.use[c]
  BY <1>2, <1>3, <1>4 DEF Kinds, Blocks
<1>6. \A i \in Classes : FreeOf(k.size, k.use, i) = FreeOf(h.size, h.use, i) \ {b}
  BY <1>3, <1>5 DEF FreeOf, Blocks
<1>7. Lists(k, {})
  BY <1>1, <1>6 DEF Lists
<1>8. Used(k) \ {b} = Used(h) \ {b}
  BY <1>3, <1>5 DEF Used, Blocks
<1> QED  BY <1>1, <1>3, <1>5, <1>7, <1>8 DEF Gives, Whole, Shape, Used, Blocks

\* A block that was in use is given back.
LEMMA FreedIs ==
    ASSUME NEW h, Whole(h), NEW b \in Used(h), NEW k, k = Freed(h, b)
    PROVE  Gives(h, k, b, "free")
<1> DEFINE s == h.size[b]
<1>1. k = NewFree(h, b, s) /\ Record(h) /\ b \in DOMAIN h.size /\ h.use[b] # "free"
  BY DEF Freed, Whole, Shape, Used, Blocks
<1>2. Slot(s) \in Classes /\ b \in Nat
  BY <1>1, InPool DEF Whole, Shape
<1> HIDE DEF s
<1>3. /\ Record(k) /\ k.size = With(h.size, b, s) /\ k.use = With(h.use, b, "free")
      /\ k.table = [h.table EXCEPT ![Slot(s)] = <<b>> \o h.table[Slot(s)]]
      /\ k.ref = h.ref /\ k.weak = h.weak
  BY <1>1, <1>2, NewFreeIs
<1>4. DOMAIN h.use = DOMAIN h.size /\ (\A c \in DOMAIN h.size : h.use[c] \in Kinds)
      /\ h.size = [c \in DOMAIN h.size |-> h.size[c]] /\ h.table \in [Classes -> Seq(Nat)]
  BY DEF Whole, Shape, Tiles
<1>5. k.size = h.size
  <2>1. k.size = [c \in DOMAIN h.size |-> h.size[c]]
    BY <1>1, <1>3 DEF With, s
  <2> QED  BY <1>4, <2>1
<1>6. k.use = [c \in DOMAIN h.size |-> IF c = b THEN "free" ELSE h.use[c]]
  BY <1>1, <1>3, <1>4 DEF With
<1>7. k.use \in [DOMAIN k.size -> Kinds] /\ k.use[b] = "free"
      /\ \A c \in DOMAIN h.size \ {b} : k.use[c] = h.use[c]
  BY <1>1, <1>4, <1>5, <1>6 DEF Kinds
<1>8. \A i \in Classes :
         FreeOf(k.size, k.use, i) =
           FreeOf(h.size, h.use, i) \cup (IF i = Slot(s) THEN {b} ELSE {})
  BY <1>1, <1>5, <1>7 DEF FreeOf, s
<1>9. \A i \in Classes : k.table[i] = IF i = Slot(s) THEN <<b>> \o h.table[i] ELSE h.table[i]
  BY <1>2, <1>3, <1>4
<1>10. k.table \in [Classes -> Seq(Nat)]
  <2>1. <<b>> \o h.table[Slot(s)] \in Seq(Nat)
    BY <1>2, <1>4
  <2> QED  BY <1>3, <1>4, <2>1
<1>11. Lists(k, {})
  <2> SUFFICES ASSUME NEW i \in Classes PROVE Holds(k.table[i], FreeOf(k.size, k.use, i))
    BY DEF Lists
  <2> DEFINE F == FreeOf(h.size, h.use, i)
  <2>1. Holds(h.table[i], F)
    BY DEF Lists, Whole
  <2>2. b \notin F
    BY <1>1 DEF FreeOf
  <2> HIDE DEF F
  <2>3. CASE i = Slot(s)
    <3>1. Holds(<<b>> \o h.table[i], F \cup {b})
      BY <2>1, <2>2, HoldsPushed
    <3> QED  BY <1>8, <1>9, <2>3, <3>1 DEF F
  <2>4. CASE i # Slot(s)
    <3>1. FreeOf(k.size, k.use, i) = F
      BY <1>8, <2>4 DEF F
    <3> QED  BY <1>9, <2>1, <2>4, <3>1
  <2> QED  BY <2>3, <2>4
<1>12. Used(k) \ {b} = Used(h) \ {b}
  BY <1>5, <1>7 DEF Used, Blocks
<1> QED
  BY <1>1, <1>3, <1>5, <1>7, <1>10, <1>11, <1>12 DEF Gives, Whole, Shape, Used, Blocks

-------------------------------------------------------------------------------
(* Blocks that are handed out. *)

\* What a request gives: nothing, and nothing has changed, or a block that was free.
Allocates(h, r, size, u) ==
    \/ r.at = NULL /\ r.heap = h
    \/ /\ r.at \in Blocks(h) /\ h.use[r.at] = "free"
       /\ Gives(h, r.heap, r.at, u)
       /\ ~r.harm => h.size[r.at] >= size
       /\ r.heap.size[r.at] = size \/ r.heap.size[r.at] = h.size[r.at]

LEMMA Fields ==
    ASSUME NEW x, NEW y, NEW z, NEW r, r = [at |-> x, heap |-> y, harm |-> z]
    PROVE  r.at = x /\ r.heap = y /\ r.harm = z
OBVIOUS

LEMMA TryAllocIs ==
    ASSUME NEW h, Whole(h), NEW size \in Nat \ {0}, NEW u \in {"static", "gc"},
           NEW r, r = TryAlloc(h, size, u)
    PROVE  /\ Allocates(h, r, size, u)
           /\ r.at = NULL => \A i \in Classes : i >= Slot(size) => h.table[i] = <<>>
<1> DEFINE lists == {i \in Classes : i >= Slot(size) /\ h.table[i] # <<>>}
           i == Min(lists)
           b == Head(h.table[i])
           taken == [h EXCEPT !.table[i] = Tail(@)]
<1>1. CASE lists = {}
  <2>1. r = [at |-> NULL, heap |-> h, harm |-> FALSE]
    BY <1>1 DEF TryAlloc
  <2> QED  BY <1>1, <2>1 DEF Allocates
<1>2. CASE lists # {}
  <2>1. i \in lists
    BY <1>2, ClassesAre, MinIs
  <2>2. r = [at |-> b,
             heap |-> IF TooSmall(h.size[b], size) THEN Header(taken, b, h.size[b], u)
                      ELSE NewFree(Header(taken, b, size, u), b + 1 + size, Rest(h.size[b], size)),
             harm |-> h.size[b] < size]
    BY <1>2 DEF TryAlloc
  <2> HIDE DEF lists, i
  <2>3. i \in Classes /\ i >= Slot(size) /\ h.table[i] # <<>>
    BY <2>1 DEF lists
  <2> DEFINE t == [h.table EXCEPT ![i] = Tail(h.table[i])]
  <2>4. taken = [h EXCEPT !.table = t]
    OBVIOUS
  <2> HIDE DEF taken, t
  <2>a. Record(h)
    BY DEF Whole, Shape
  <2>5. /\ Record(taken) /\ taken.table = t
        /\ taken.size = h.size /\ taken.use = h.use /\ taken.ref = h.ref /\ taken.weak = h.weak
    BY <2>a, <2>4, TableChanged
  <2>6. h.table \in [Classes -> Seq(Nat)]
    BY DEF Whole, Shape
  <2>7. \A j \in Classes : t[j] = IF j = i THEN Tail(h.table[j]) ELSE h.table[j]
    BY <2>6 DEF t
  <2>8. Holds(h.table[i], FreeOf(h.size, h.use, i))
    BY <2>3 DEF Whole, Lists
  <2>9. b \in FreeOf(h.size, h.use, i) /\ Holds(Tail(h.table[i]), FreeOf(h.size, h.use, i) \ {b})
    <3> DEFINE F == FreeOf(h.size, h.use, i)
               l == h.table[i]
    <3>1. Holds(l, F) /\ l # <<>>
      BY <2>3, <2>8
    <3> HIDE DEF F, l
    <3>2. Head(l) \in F /\ Holds(Tail(l), F \ {Head(l)})
      BY <3>1, HoldsTail
    <3> QED  BY <3>2 DEF F, l
  <2> HIDE DEF b
  <2>10. b \in DOMAIN h.size /\ h.use[b] = "free" /\ Slot(h.size[b]) = i
    BY <2>9 DEF FreeOf
  <2>11. Lists(taken, {b})
    <3> SUFFICES ASSUME NEW j \in Classes PROVE Holds(t[j], FreeOf(h.size, h.use, j) \ {b})
      BY <2>5 DEF Lists
    <3>1. CASE j = i
      BY <2>7, <2>9, <3>1
    <3>2. CASE j # i
      <4>1. FreeOf(h.size, h.use, j) \ {b} = FreeOf(h.size, h.use, j) \ {}
        BY <2>10, <3>2 DEF FreeOf
      <4> QED  BY <2>7, <3>2, <4>1 DEF Whole, Lists
    <3> QED  BY <3>1, <3>2
  <2>12. Shape(taken)
    <3>1. Tail(h.table[i]) \in Seq(Nat)
      BY <2>3, <2>6
    <3>2. t \in [Classes -> Seq(Nat)]
      BY <2>3, <2>6, <3>1 DEF t
    <3> QED  BY <2>5, <3>2 DEF Whole, Shape
  <2>13. b \in Blocks(taken) /\ taken.size[b] = h.size[b]
    BY <2>5, <2>10 DEF Blocks
  <2>14. ASSUME NEW k, Gives(taken, k, b, u) PROVE Gives(h, k, b, u)
    BY <2>5, <2>14 DEF Gives, Used, Blocks
  <2>b. ~r.harm => h.size[b] >= size
    <3> DEFINE y == IF TooSmall(h.size[b], size) THEN Header(taken, b, h.size[b], u)
                    ELSE NewFree(Header(taken, b, size, u), b + 1 + size, Rest(h.size[b], size))
               z == h.size[b] < size
    <3>0. r = [at |-> b, heap |-> y, harm |-> z]
      BY <2>2
    <3> HIDE DEF y, z
    <3>a. r.harm = z
      BY <3>0, Fields
    <3>1. r.harm = (h.size[b] < size)
      BY <3>a DEF z
    <3>2. h.size[b] \in Nat
      BY <2>10, InPool DEF Whole, Shape
    <3>3. ~r.harm => ~(h.size[b] < size)
      BY <3>1, Zenon
    <3> QED  BY <3>2, <3>3
  <2>15. CASE TooSmall(h.size[b], size)
    <3> DEFINE k == Header(taken, b, taken.size[b], u)
    <3>1. r.at = b /\ r.heap = k
      BY <2>2, <2>13, <2>15
    <3>2. Gives(taken, k, b, u) /\ k.size[b] = taken.size[b]
      BY <2>11, <2>12, <2>13, TakenIs
    <3> HIDE DEF k
    <3> QED  BY <2>b, <2>10, <2>13, <2>14, <3>1, <3>2, NullAssumption, InPool DEF Allocates, Blocks, Whole, Shape
  <2>16. CASE ~TooSmall(h.size[b], size)
    <3> DEFINE k == NewFree(Header(taken, b, size, u), b + 1 + size, taken.size[b] - size - 1)
    <3>1. r.at = b /\ r.heap = k
      BY <2>2, <2>13, <2>16 DEF Rest
    <3>2. size + 2 <= taken.size[b]
      <4>1. h.size[b] \in Nat
        BY <2>10, InPool DEF Whole, Shape
      <4> QED  BY <2>13, <2>16, <4>1 DEF TooSmall
    <3>3. Gives(taken, k, b, u) /\ k.size[b] = size
      BY <2>11, <2>12, <2>13, <3>2, CutIs
    <3> HIDE DEF k
    <3> QED  BY <2>b, <2>10, <2>14, <3>1, <3>3, NullAssumption, InPool DEF Allocates, Blocks, Whole, Shape
  <2> QED  BY <2>15, <2>16
<1> QED  BY <1>1, <1>2

\* A free block wherever it stands in its list is taken off it.
LEMMA UnlistedIs ==
    ASSUME NEW h, Whole(h), NEW b \in Blocks(h), h.use[b] = "free"
    PROVE  /\ Unlisted(h, b) \in [Classes -> Seq(Nat)]
           /\ \A i \in Classes : Holds(Unlisted(h, b)[i], FreeOf(h.size, h.use, i) \ {b})
<1> DEFINE j == Slot(h.size[b])
           l == h.table[j]
           F == FreeOf(h.size, h.use, j)
           n == CHOOSE m \in DOMAIN l : l[m] = b
           t == [m \in 1 .. Len(l) - 1 |-> IF m < n THEN l[m] ELSE l[m + 1]]
<1>1. Unlisted(h, b) = [h.table EXCEPT ![j] = t]
  BY DEF Unlisted
<1>2. j \in Classes /\ h.table \in [Classes -> Seq(Nat)]
  BY InPool DEF Whole, Shape, Blocks
<1>3. b \in F
  BY DEF FreeOf, Blocks
<1> HIDE DEF j
<1>4. Holds(l, F) /\ DOMAIN l = 1 .. Len(l)
  <2>1. Holds(l, F)
    BY <1>2 DEF Whole, Lists
  <2> QED  BY <2>1 DEF Holds
<1>5. F \in SUBSET Nat
  BY InPool DEF Whole, Shape, FreeOf
<1> HIDE DEF l, F
<1>6. \E m \in 1 .. Len(l) : l[m] = b
  BY <1>3, <1>4 DEF Holds
<1>7. n \in 1 .. Len(l) /\ l[n] = b
  BY <1>4, <1>6
<1> HIDE DEF n
<1>8. Holds([m \in 1 .. Len(l) - 1 |-> IF m < n THEN l[m] ELSE l[m + 1]], F \ {l[n]})
  BY <1>4, <1>7, HoldsOthers
<1>9. Holds(t, F \ {b})
  BY <1>7, <1>8
<1> HIDE DEF t
<1>10. t \in Seq(Nat)
  BY <1>5, <1>9, HoldsNats, F \ {b} \in SUBSET Nat
<1>11. \A i \in Classes : Unlisted(h, b)[i] = IF i = j THEN t ELSE h.table[i]
  BY <1>1, <1>2
<1>12. ASSUME NEW i \in Classes, i # j
       PROVE  Holds(h.table[i], FreeOf(h.size, h.use, i) \ {b})
  <2>1. FreeOf(h.size, h.use, i) \ {b} = FreeOf(h.size, h.use, i) \ {}
    BY <1>12 DEF FreeOf, j
  <2> QED  BY <2>1 DEF Whole, Lists
<1>13. ASSUME NEW i \in Classes PROVE Holds(Unlisted(h, b)[i], FreeOf(h.size, h.use, i) \ {b})
  <2>1. CASE i = j
    BY <1>9, <1>11, <2>1 DEF F
  <2>2. CASE i # j
    BY <1>11, <1>12, <2>2
  <2> QED  BY <2>1, <2>2
<1>14. Unlisted(h, b) \in [Classes -> Seq(Nat)]
  BY <1>1, <1>2, <1>10
<1> QED  BY <1>13, <1>14

\* The block that follows is taken over.
Only(h, f, n) == [c \in Blocks(h) \ {n} |-> f[c]]
Merged(h, n) ==
    [h EXCEPT !.table = Unlisted(h, n), !.size = Only(h, h.size, n), !.use = Only(h, h.use, n)]

LEMMA MergedIs ==
    ASSUME NEW h, Record(h), NEW n, NEW m, m = Merged(h, n)
    PROVE  /\ Record(m) /\ m.size = Only(h, h.size, n) /\ m.use = Only(h, h.use, n)
           /\ m.table = Unlisted(h, n) /\ m.ref = h.ref /\ m.weak = h.weak
<1> DEFINE s == Only(h, h.size, n)
           g == Only(h, h.use, n)
           t == Unlisted(h, n)
<1>1. m = [h EXCEPT !.table = t, !.size = s, !.use = g]
  BY DEF Merged
<1> HIDE DEF s, g, t
<1>2. m = [size |-> s, use |-> g, table |-> t, ref |-> h.ref, weak |-> h.weak]
  BY <1>1 DEF Record
<1>3. Record(m) /\ m.size = s /\ m.use = g /\ m.table = t /\ m.ref = h.ref /\ m.weak = h.weak
  BY <1>2 DEF Record
<1> QED  BY <1>3 DEF s, g, t

\* The last of two headers counts.
LEMMA HeaderTwice ==
    ASSUME NEW h, Record(h), NEW b, NEW x, NEW y, NEW u
    PROVE  Header(Header(h, b, x, u), b, y, u) = Header(h, b, y, u)
<1> DEFINE j == Header(h, b, x, u)
           k == Header(j, b, y, u)
           l == Header(h, b, y, u)
<1>1. /\ Record(j) /\ j.size = With(h.size, b, x) /\ j.use = With(h.use, b, u)
      /\ j.table = h.table /\ j.ref = h.ref /\ j.weak = h.weak
  BY HeaderIs
<1>2. /\ Record(l) /\ l.size = With(h.size, b, y) /\ l.use = With(h.use, b, u)
      /\ l.table = h.table /\ l.ref = h.ref /\ l.weak = h.weak
  BY HeaderIs
<1> HIDE DEF j
<1>3. /\ Record(k) /\ k.size = With(j.size, b, y) /\ k.use = With(j.use, b, u)
      /\ k.table = j.table /\ k.ref = j.ref /\ k.weak = j.weak
  BY <1>1, HeaderIs
<1> HIDE DEF k, l
<1>4. k.size = l.size /\ k.use = l.use
  BY <1>1, <1>2, <1>3 DEF With
<1> QED  BY <1>1, <1>2, <1>3, <1>4 DEF Record, j, k, l

LEMMA SmallRest ==
    ASSUME NEW d \in 0 .. Word - 1
    PROVE  d % Word = d
BY WordIs

LEMMA JoinedIs ==
    ASSUME NEW h, Whole(h), NEW b \in Blocks(h), h.use[b] = "static",
           NEW n \in Blocks(h), n = End(h, b), h.use[n] = "free",
           NEW k, k = Header(Merged(h, n), b, h.size[b] + h.size[n] + 1, "static")
    PROVE  Gives(h, k, b, "static") /\ k.size[b] = h.size[b] + h.size[n] + 1
<1> DEFINE m == Merged(h, n)
           t == Unlisted(h, n)
           x == h.size[b] + h.size[n] + 1
<1>1. /\ Record(m) /\ m.size = Only(h, h.size, n) /\ m.use = Only(h, h.use, n) /\ m.table = t
      /\ m.ref = h.ref /\ m.weak = h.weak
  <2>1. Record(h)
    BY DEF Whole, Shape
  <2> QED  BY <2>1, MergedIs
<1>2. t \in [Classes -> Seq(Nat)] /\ \A i \in Classes : Holds(t[i], FreeOf(h.size, h.use, i) \ {n})
  BY UnlistedIs
<1> HIDE DEF m, t
<1>3. /\ Record(k) /\ k.size = With(m.size, b, x) /\ k.use = With(m.use, b, "static")
      /\ k.table = m.table /\ k.ref = m.ref /\ k.weak = m.weak
  BY <1>1, HeaderIs DEF m
<1>4. x = h.size[b] + 1 + h.size[n] /\ n = Behind(h.size, b)
  BY InPool DEF End, Behind, Blocks, Whole, Shape
<1>5. /\ Tiles(k.size) /\ b # n /\ DOMAIN k.size = DOMAIN h.size \ {n} /\ k.size[b] = x
      /\ \A c \in DOMAIN k.size \ {b} : k.size[c] = h.size[c]
  <2> DEFINE f == h.size
             g == k.size
  <2>1. Tiles(f) /\ b \in DOMAIN f /\ Behind(f, b) \in DOMAIN f
    BY <1>4 DEF Whole, Shape, Blocks
  <2>2. g = With([c \in DOMAIN f \ {Behind(f, b)} |-> f[c]], b, f[b] + 1 + f[Behind(f, b)])
    BY <1>1, <1>3, <1>4 DEF Only, Blocks
  <2> HIDE DEF f, g
  <2>3. /\ Tiles(g)
        /\ b # Behind(f, b) /\ DOMAIN g = DOMAIN f \ {Behind(f, b)}
        /\ g[b] = f[b] + 1 + f[Behind(f, b)]
        /\ \A c \in DOMAIN g \ {b} : g[c] = f[c]
    BY <2>1, <2>2, JoinTiles
  <2> QED  BY <1>4, <2>3 DEF f, g
<1> HIDE DEF x
<1>6. k.use = [c \in DOMAIN h.size \ {n} |-> IF c = b THEN "static" ELSE h.use[c]]
  BY <1>1, <1>3, <1>5 DEF With, Only, Blocks
<1>7. /\ k.use \in [DOMAIN k.size -> Kinds] /\ k.use[b] = "static"
      /\ \A c \in DOMAIN k.size : k.use[c] = h.use[c]
  <2>1. \A c \in DOMAIN h.size : h.use[c] \in Kinds
    BY DEF Whole, Shape
  <2> QED  BY <1>5, <1>6, <2>1 DEF Kinds, Blocks
<1>8. \A i \in Classes : FreeOf(k.size, k.use, i) = FreeOf(h.size, h.use, i) \ {n}
  BY <1>5, <1>7 DEF FreeOf, Blocks
<1>9. Lists(k, {})
  BY <1>1, <1>2, <1>3, <1>8 DEF Lists
<1>10. Used(k) \ {b} = Used(h) \ {b}
  BY <1>5, <1>7 DEF Used, Blocks
<1> QED  BY <1>1, <1>2, <1>3, <1>5, <1>7, <1>9, <1>10 DEF Gives, Whole, Shape, Used, Blocks, x

\* A block grows in its place.  It is not grown by exactly the next and its header.
LEMMA ExpandedIs ==
    ASSUME NEW h, Whole(h), NEW b \in Blocks(h), h.use[b] = "static",
           NEW size \in Nat \ {0}, CanExpand(h, b, size), size > h.size[b],
           size # h.size[b] + h.size[End(h, b)] + 1,
           NEW k, k = Expanded(h, b, size)
    PROVE  Gives(h, k, b, "static") /\ k.size[b] >= size
<1> DEFINE n == End(h, b)
           both == h.size[b] + h.size[n]
           m == Merged(h, n)
           j == Header(m, b, h.size[b] + h.size[n] + 1, "static")
           rest == (both - size) % Word
<1>1. n \in Blocks(h) /\ h.use[n] = "free" /\ size <= h.size[b] + h.size[n] + 1
  <2>1. n = Behind(h.size, b) /\ n # Pool
    BY PoolAssumption DEF End, Behind, CanExpand
  <2> QED  BY <2>1 DEF CanExpand, Whole, Shape, Tiles, Blocks
<1>2. k = IF rest < 1 THEN Header(m, b, both + 1, "static")
          ELSE NewFree(Header(m, b, size, "static"), b + 1 + size, rest)
  BY DEF Expanded, Merged, Only
<1>3. h.size[b] \in 1 .. Pool - 1 /\ h.size[n] \in 1 .. Pool - 1 /\ b + 1 + h.size[b] = n
  BY <1>1, InPool DEF Whole, Shape, Blocks, End
<1>4. rest = both - size /\ rest \in Nat
  <2>1. h.size[n] + n < Pool
    <3>1. Behind(h.size, n) <= Pool /\ n \in Nat
      BY <1>1, InPool DEF Whole, Shape, Blocks
    <3> QED  BY <1>3, <3>1, PoolAssumption DEF Behind
  <2>2. both - size \in 0 .. Word - 1
    <3>1. b \in Nat
      BY InPool DEF Whole, Shape, Blocks
    <3> QED  BY <1>1, <1>3, <2>1, <3>1, PoolAssumption, WordIs
  <2>3. rest = both - size
    BY <2>2, SmallRest
  <2> QED  BY <2>2, <2>3
<1>5. Gives(h, j, b, "static") /\ j.size[b] = h.size[b] + h.size[n] + 1
  BY <1>1, JoinedIs
<1>6. CASE rest < 1
  BY <1>1, <1>2, <1>3, <1>4, <1>5, <1>6
<1>7. CASE ~(rest < 1)
  <2>1. Header(m, b, size, "static") = Header(j, b, size, "static")
    <3>1. Record(h)
      BY DEF Whole, Shape
    <3>2. Record(m)
      BY <3>1, MergedIs
    <3> HIDE DEF m
    <3> QED  BY <3>2, HeaderTwice
  <2> HIDE DEF j, m
  <2>2. k = NewFree(Header(j, b, size, "static"), b + 1 + size, j.size[b] - size - 1)
        /\ size + 2 <= j.size[b]
    <3>1. rest = j.size[b] - size - 1 /\ size + 2 <= j.size[b]
      BY <1>3, <1>4, <1>5, <1>7
    <3> HIDE DEF rest
    <3> QED  BY <1>2, <1>7, <2>1, <3>1
  <2>3. Shape(j) /\ b \in Blocks(j) /\ j.use[b] = "static"
    BY <1>5 DEF Gives, Whole, Blocks
  <2>4. Lists(j, {b})
    <3>1. \A i \in Classes : FreeOf(j.size, j.use, i) \ {b} = FreeOf(j.size, j.use, i) \ {}
      BY <2>3 DEF FreeOf
    <3> QED  BY <1>5, <3>1 DEF Lists, Gives, Whole
  <2>5. Gives(j, k, b, "static") /\ k.size[b] = size
    BY <2>2, <2>3, <2>4, CutIs
  <2> QED  BY <1>5, <2>5 DEF Gives
<1> QED  BY <1>6, <1>7

-------------------------------------------------------------------------------
(* The collection. *)

\* What is kept stays as it was, the rest is free, and no two free blocks are neighbours.
CollectedFrom(h, k) ==
    /\ Whole(k)
    /\ Used(k) = Kept(h)
    /\ \A b \in Kept(h) : b \in Used(h) /\ k.size[b] = h.size[b] /\ k.use[b] = h.use[b]
    /\ \A b \in Blocks(k) \ Kept(h) : End(k, b) \in Kept(h) \cup {Pool}
    /\ k.ref = [b \in Marked(h) |-> h.ref[b]]
    /\ k.weak = [b \in Marked(h) |-> WeakAfter(h, b)]

LEMMA CollectedIs ==
    ASSUME NEW h, Whole(h), NEW k, k = Collected(h)
    PROVE  CollectedFrom(h, k)
<1> DEFINE kept == Kept(h)
           free == {b \in Blocks(h) \ kept : ~Swallowed(h, b)}
           D == kept \cup free
           f == h.size
           g == k.size
<1>1. /\ Tiles(f) /\ DOMAIN f = Blocks(h) /\ h.use \in [DOMAIN f -> Kinds]
      /\ \A x \in DOMAIN f : /\ x \in Nat /\ Behind(f, x) \in Nat /\ x < Behind(f, x)
                             /\ Behind(f, x) <= Pool /\ End(h, x) = Behind(f, x)
      /\ \A x, y \in DOMAIN f : x < y => Behind(f, x) <= y
  <2>1. Tiles(f) /\ DOMAIN f = Blocks(h) /\ h.use \in [DOMAIN f -> Kinds]
    BY DEF Whole, Shape, Blocks
  <2>2. \A x \in DOMAIN f : End(h, x) = Behind(f, x)
    BY DEF End, Behind
  <2> HIDE DEF f
  <2>3. \A x \in DOMAIN f : /\ x \in Nat /\ Behind(f, x) \in Nat /\ x < Behind(f, x)
                            /\ Behind(f, x) <= Pool
    BY <2>1, InPool
  <2>4. \A x, y \in DOMAIN f : x < y => Behind(f, x) <= y
    BY <2>1 DEF Tiles
  <2> QED  BY <2>1, <2>2, <2>3, <2>4
<1>2. /\ kept \in SUBSET DOMAIN f /\ \A b \in kept : h.use[b] # "free"
      /\ kept \in SUBSET Used(h)
  BY <1>1 DEF Kept, Marked, Reachable, Objects, Used
<1>3. /\ k = [size |-> [b \in D |-> IF b \in kept THEN f[b]
                                    ELSE Min({p \in D \cup {Pool} : p > b}) - b - 1],
              use |-> [b \in D |-> IF b \in kept THEN h.use[b] ELSE "free"],
              table |-> [i \in Classes |-> Listed({b \in free : Slot(g[b]) = i})],
              ref |-> [b \in Marked(h) |-> h.ref[b]],
              weak |-> [b \in Marked(h) |-> WeakAfter(h, b)]]
  BY DEF Collected
<1>4. /\ Record(k)
      /\ k.size = [b \in D |-> IF b \in kept THEN f[b]
                                    ELSE Min({p \in D \cup {Pool} : p > b}) - b - 1]
      /\ k.use = [b \in D |-> IF b \in kept THEN h.use[b] ELSE "free"]
      /\ k.table = [i \in Classes |-> Listed({b \in free : Slot(g[b]) = i})]
      /\ k.ref = [b \in Marked(h) |-> h.ref[b]]
      /\ k.weak = [b \in Marked(h) |-> WeakAfter(h, b)]
  <2> HIDE DEF kept, D, free, f, g
  <2> QED  BY <1>3 DEF Record
<1>5. D \in SUBSET DOMAIN f /\ kept \in SUBSET D /\ 0 \in D
  <2>1. 0 \in DOMAIN f
    BY <1>1 DEF Tiles
  <2>2. ~Swallowed(h, 0)
    BY <1>1, <2>1 DEF Swallowed
  <2> QED  BY <1>1, <1>2, <2>1, <2>2
<1>6. \A x, y \in DOMAIN f : Behind(f, x) = Behind(f, y) => x = y
  <2> SUFFICES ASSUME NEW x \in DOMAIN f, NEW y \in DOMAIN f, Behind(f, x) = Behind(f, y), x < y
               PROVE  FALSE
    BY <1>1
  <2>1. Behind(f, x) <= y
    BY <1>1
  <2> QED  BY <1>1, <2>1
<1>7. \A b \in kept : Behind(f, b) \in D \cup {Pool}
  <2> SUFFICES ASSUME NEW b \in kept, Behind(f, b) \in DOMAIN f \ kept
               PROVE  ~Swallowed(h, Behind(f, b))
    BY <1>1, <1>2 DEF Tiles
  <2> QED  BY <1>1, <1>2, <1>6 DEF Swallowed
<1> HIDE DEF D, kept, free, f
<1>8. Tiles(g)
  <2>1. g = [b \in D |-> IF b \in kept THEN f[b] ELSE Min({p \in D \cup {Pool} : p > b}) - b - 1]
    BY <1>4
  <2>2. Remain(f, D, kept, g)
    BY <1>1, <1>5, <1>7, <2>1 DEF Remain
  <2> QED  BY <2>2, CoverTiles
<1>9. /\ DOMAIN g = D /\ \A b \in kept : g[b] = f[b] /\ k.use[b] = h.use[b]
      /\ \A b \in free : k.use[b] = "free" /\ b \notin kept
      /\ D = kept \cup free
  BY <1>4, <1>5 DEF D, free
<1>10. k.use \in [DOMAIN g -> Kinds]
  <2>1. \A b \in D : k.use[b] \in Kinds
    BY <1>1, <1>2, <1>5, <1>9 DEF Kinds
  <2> QED  BY <1>4, <1>9, <2>1
<1>11. \A i \in Classes : FreeOf(g, k.use, i) = {b \in free : Slot(g[b]) = i}
  <2>1. {b \in DOMAIN g : k.use[b] = "free"} = free
    BY <1>2, <1>9
  <2> QED  BY <2>1 DEF FreeOf
<1>12. ASSUME NEW i \in Classes PROVE Holds(k.table[i], FreeOf(g, k.use, i)) /\ k.table[i] \in Seq(Nat)
  <2> DEFINE F == FreeOf(g, k.use, i)
  <2>1. F \in SUBSET (0 .. Pool - 1)
    BY <1>8 DEF FreeOf, Tiles
  <2>2. k.table[i] = Listed(F)
    <3>1. k.table = [j \in Classes |-> Listed({b \in free : Slot(g[b]) = j})]
      BY <1>4
    <3>2. k.table[i] = Listed({b \in free : Slot(g[b]) = i})
      BY <3>1
    <3> QED  BY <1>11, <3>2
  <2> HIDE DEF F
  <2>3. Holds(Listed(F), F)
    BY <2>1, HoldsListed
  <2>4. F \in SUBSET Nat
    BY <2>1
  <2>5. Listed(F) \in Seq(Nat)
    BY <2>3, <2>4, HoldsNats
  <2> QED  BY <2>2, <2>3, <2>5 DEF F
<1>13. Whole(k)
  <2>1. k.table \in [Classes -> Seq(Nat)]
    BY <1>4, <1>12
  <2>2. Lists(k, {})
    BY <1>12 DEF Lists
  <2> QED  BY <1>4, <1>8, <1>10, <2>1, <2>2 DEF Whole, Shape
<1>14. Used(k) = kept
  BY <1>2, <1>9 DEF Used, Blocks
<1>15. ASSUME NEW b \in D \ kept PROVE End(k, b) \in kept \cup {Pool}
  <2> DEFINE e == Behind(g, b)
  <2>1. /\ e \in D \cup {Pool} /\ e > b /\ b \in Nat /\ e \in Nat /\ End(k, b) = e
        /\ \A p \in D : p > b => e <= p
    BY <1>8, <1>9, InPool DEF Tiles, End, Behind
  <2> HIDE DEF e
  <2>2. ASSUME e \in free PROVE FALSE
    <3>1. e \in DOMAIN f /\ e \notin kept /\ ~Swallowed(h, e) /\ e # 0
      BY <1>1, <2>1, <2>2 DEF free
    <3>2. PICK p \in DOMAIN f : Behind(f, p) = e
      BY <1>1, <3>1 DEF Tiles
    <3>3. p \in kept
      BY <1>1, <3>1, <3>2 DEF Swallowed, kept
    <3>4. p > b
      <4>1. p # b
        BY <3>3
      <4>2. ~(p < b)
        <5>1. b \in DOMAIN f
          BY <1>5
        <5> QED  BY <1>1, <2>1, <3>2, <5>1
      <4> QED  BY <1>1, <2>1, <3>2, <4>1, <4>2
    <3>5. e <= p
      BY <1>5, <2>1, <3>3, <3>4
    <3> QED  BY <1>1, <3>2, <3>5
  <2> QED  BY <1>9, <2>1, <2>2
<1> QED
  BY <1>2, <1>4, <1>9, <1>13, <1>14, <1>15 DEF CollectedFrom, Blocks, kept, f

-------------------------------------------------------------------------------
(* The invariant. *)

\* References lead to objects, and what the program holds are objects.
RefsOf(h, R) ==
    /\ h.ref \in [Objects(h) -> Objects(h) \cup {NULL}]
    /\ h.weak \in [Objects(h) -> Objects(h) \cup {NULL}]
    /\ R \in SUBSET Objects(h)

IInv == Whole(heap) /\ RefsOf(heap, roots)

\* What the program has got is in use, with the room that was asked for.
RoomOf(h, A) ==
    /\ A \in [DOMAIN A -> Nat]
    /\ \A b \in DOMAIN A : b \in Used(h) /\ A[b] <= h.size[b]

LEMMA InitWhole == ASSUME Init PROVE IInv /\ RoomOf(heap, asked) /\ ~harmed
<1> DEFINE f == [b \in {0} |-> Pool - 1]
           g == [b \in {0} |-> "free"]
           j == Slot(Pool - 1)
           t == [i \in Classes |-> IF i = j THEN <<0>> ELSE <<>>]
<1>1. heap = [size |-> f, use |-> g, table |-> t,
              ref |-> [b \in {} |-> NULL], weak |-> [b \in {} |-> NULL]]
      /\ roots = {} /\ asked = [b \in {} |-> 0]
  BY DEF Init
<1> HIDE DEF t
<1>2. /\ Record(heap) /\ heap.size = f /\ heap.use = g /\ heap.table = t
      /\ heap.ref = [b \in {} |-> NULL] /\ heap.weak = [b \in {} |-> NULL]
  BY <1>1 DEF Record
<1>3. Tiles(f)
  BY PoolAssumption DEF Tiles, Behind
<1>4. j \in Classes
  BY BlockClass, PoolAssumption
<1>5. \A i \in Classes : FreeOf(f, g, i) = IF i = j THEN {0} ELSE {}
  BY DEF FreeOf
<1>6. Holds(<<0>>, {0})
  <2>1. <<0>> \o <<>> = <<0>> /\ {} \cup {0} = {0}
    OBVIOUS
  <2>2. Holds(<<0>> \o <<>>, {} \cup {0})
    BY HoldsNone, HoldsPushed
  <2> QED  BY <2>1, <2>2
<1>7. ASSUME NEW i \in Classes PROVE Holds(t[i], FreeOf(f, g, i) \ {}) /\ t[i] \in Seq(Nat)
  <2>1. CASE i = j
    BY <1>5, <1>6, <2>1 DEF t
  <2>2. CASE i # j
    BY <1>5, <2>2, HoldsNone DEF t
  <2> QED  BY <2>1, <2>2
<1>8. t \in [Classes -> Seq(Nat)]
  BY <1>7 DEF t
<1>9. Whole(heap)
  <2>1. g \in [DOMAIN f -> Kinds]
    BY DEF Kinds
  <2> HIDE DEF f, g, j
  <2>2. Lists(heap, {})
    BY <1>2, <1>7 DEF Lists
  <2> QED  BY <1>2, <1>3, <1>8, <2>1, <2>2 DEF Whole, Shape
<1>10. Objects(heap) = {}
  BY <1>2 DEF Objects, Blocks
<1>11. RefsOf(heap, roots)
  BY <1>1, <1>2, <1>10 DEF RefsOf
<1>12. RoomOf(heap, asked)
  BY <1>1 DEF RoomOf
<1>13. ~harmed
  BY DEF Init
<1> QED  BY <1>9, <1>11, <1>12, <1>13 DEF IInv

\* What is marked are objects, with what their references lead to.
LEMMA MarkedIs ==
    ASSUME IInv
    PROVE  /\ Marked(heap) \in SUBSET Objects(heap) /\ roots \in SUBSET Marked(heap)
           /\ \A b \in Marked(heap) : heap.ref[b] # NULL => heap.ref[b] \in Marked(heap)
<1>1. Marked(heap) = {b \in Objects(heap) :
                         \A C \in SUBSET Objects(heap) : roots \subseteq C /\ Closed(heap, C) => b \in C}
  BY DEF Marked, Reachable
<1>2. roots \in SUBSET Objects(heap)
      /\ \A b \in Objects(heap) : heap.ref[b] # NULL => heap.ref[b] \in Objects(heap)
  BY DEF IInv, RefsOf
<1>3. ASSUME NEW b \in Marked(heap), heap.ref[b] # NULL PROVE heap.ref[b] \in Marked(heap)
  <2>1. heap.ref[b] \in Objects(heap) /\ b \in Objects(heap)
    BY <1>1, <1>2, <1>3
  <2>2. ASSUME NEW C \in SUBSET Objects(heap), roots \subseteq C, Closed(heap, C)
        PROVE  heap.ref[b] \in C
    <3>1. b \in C
      BY <1>1, <2>2
    <3> QED  BY <1>3, <2>2, <3>1 DEF Closed
  <2> QED  BY <1>1, <2>1, <2>2
<1> QED  BY <1>1, <1>2, <1>3

\* The heap before and after a collection, which a request may find.
Bases == {heap, Collected(heap)}

LEMMA BaseIs ==
    ASSUME IInv, NEW h \in Bases
    PROVE  /\ Whole(h) /\ RefsOf(h, roots)
           /\ \A b \in Kept(heap) : b \in Used(h) /\ h.size[b] = heap.size[b] /\ h.use[b] = heap.use[b]
<1>1. CASE h = heap
  <2>1. Kept(heap) \in SUBSET Used(heap)
    BY MarkedIs DEF Kept, Objects, Used
  <2> QED  BY <1>1, <2>1 DEF IInv
<1>2. CASE h = Collected(heap)
  <2>1. CollectedFrom(heap, h)
    BY <1>2, CollectedIs DEF IInv
  <2>2. Objects(h) = Marked(heap)
    <3>1. Used(h) = Kept(heap) /\ \A b \in Kept(heap) : h.use[b] = heap.use[b]
      BY <2>1 DEF CollectedFrom
    <3>2. Objects(h) = {b \in Used(h) : h.use[b] = "gc"}
      BY DEF Objects, Used
    <3>3. \A b \in Kept(heap) : b \in Marked(heap) <=> heap.use[b] = "gc"
      BY MarkedIs DEF Kept, Objects
    <3>4. Marked(heap) \in SUBSET Kept(heap)
      BY DEF Kept
    <3> QED  BY <3>1, <3>2, <3>3, <3>4
  <2>3. /\ h.ref = [b \in Marked(heap) |-> heap.ref[b]]
        /\ h.weak = [b \in Marked(heap) |-> WeakAfter(heap, b)]
    BY <2>1 DEF CollectedFrom
  <2>4. RefsOf(h, roots)
    <3>1. \A b \in Marked(heap) : heap.ref[b] \in Marked(heap) \cup {NULL}
      BY MarkedIs
    <3>2. \A b \in Marked(heap) : WeakAfter(heap, b) \in Marked(heap) \cup {NULL}
      BY DEF WeakAfter
    <3> QED  BY <2>2, <2>3, <3>1, <3>2, MarkedIs DEF RefsOf
  <2> QED  BY <2>1, <2>4 DEF CollectedFrom
<1> QED  BY <1>1, <1>2 DEF Bases

-------------------------------------------------------------------------------
(* The operations. *)

\* References are right when only blocks that are no objects have changed, or one has
\* become an object.
LEMMA GivesObjects ==
    ASSUME NEW h, NEW k, NEW b, NEW u \in Kinds, Gives(h, k, b, u), b \notin Objects(h)
    PROVE  Objects(k) = Objects(h) \cup (IF u = "gc" THEN {b} ELSE {})
<1>1. /\ Used(k) \ {b} = Used(h) \ {b} /\ b \in DOMAIN k.size /\ k.use[b] = u
      /\ \A c \in Used(h) \ {b} : k.use[c] = h.use[c]
  BY DEF Gives
<1>2. Objects(h) = {c \in Used(h) : h.use[c] = "gc"} /\ Objects(k) = {c \in Used(k) : k.use[c] = "gc"}
  BY DEF Objects, Used
<1>3. u # "free" => b \in Used(k)
  BY <1>1 DEF Used, Blocks
<1> HIDE DEF Used
<1>4. ASSUME NEW c, c # b PROVE c \in Objects(k) <=> c \in Objects(h)
  BY <1>1, <1>2, <1>4
<1>5. b \in Objects(k) <=> u = "gc"
  BY <1>1, <1>2, <1>3
<1> QED  BY <1>4, <1>5

LEMMA GivesRefs ==
    ASSUME NEW h, NEW k, NEW b, NEW u \in {"static", "free"}, Gives(h, k, b, u), b \notin Objects(h),
           RefsOf(h, roots)
    PROVE  RefsOf(k, roots)
<1>1. Objects(k) = Objects(h)
  BY GivesObjects DEF Kinds
<1> QED  BY <1>1 DEF RefsOf, Gives

\* A request that had an answer, or none.
LEMMA AllocIs ==
    ASSUME IInv, NEW size \in Nat \ {0}, NEW u \in {"static", "gc"}, NEW r, r = Alloc(size, u)
    PROVE  \E h \in Bases : Allocates(h, r, size, u)
<1> DEFINE first == TryAlloc(heap, size, u)
           c == Collected(heap)
           second == TryAlloc(c, size, u)
<1>1. heap \in Bases /\ c \in Bases
  BY DEF Bases
<1>2. Whole(heap) /\ Whole(c)
  BY <1>1, BaseIs
<1>3. r = IF first.at # NULL THEN first ELSE second
  BY DEF Alloc
<1> HIDE DEF c
<1>4. Allocates(heap, first, size, u)
  BY <1>2, TryAllocIs
<1>5. Allocates(c, second, size, u)
  BY <1>2, TryAllocIs
<1> QED  BY <1>1, <1>3, <1>4, <1>5

\* What a block that is handed out holds.
LEMMA RoomGiven ==
    ASSUME NEW h, NEW size \in Nat, NEW u \in {"static", "gc"},
           NEW r, Allocates(h, r, size, u), r.at # NULL, ~r.harm
    PROVE  r.at \in Used(r.heap) /\ r.heap.size[r.at] >= size
<1>1. /\ r.at \in Blocks(h) /\ Gives(h, r.heap, r.at, u) /\ h.size[r.at] >= size
      /\ r.heap.size[r.at] = size \/ r.heap.size[r.at] = h.size[r.at]
  BY DEF Allocates
<1> QED  BY <1>1 DEF Gives, Used, Blocks

\* What a program remembers is in use when it stays, and what it has got anew is.
Stays(k, gone, at) ==
    \A b \in Kept(heap) \ {gone, at} : b \in Used(k) /\ k.size[b] = heap.size[b]

LEMMA Remembered ==
    ASSUME IInv, RoomOf(heap, asked), NEW gone, NEW at, NEW size \in Nat, NEW k,
           Stays(k, gone, at), at # NULL => at \in Used(k) /\ k.size[at] >= size,
           Remember(gone, at, size)
    PROVE  RoomOf(k, asked')
<1> DEFINE held == {b \in DOMAIN asked : b \in Objects(heap) => b \in Reachable(heap)}
<1>1. asked' = [b \in (held \ {gone}) \cup ({at} \ {NULL}) |-> IF b = at THEN size ELSE asked[b]]
  BY DEF Remember
<1>2. ASSUME NEW b \in held PROVE b \in Kept(heap) /\ asked[b] \in Nat /\ asked[b] <= heap.size[b]
  <2>1. b \in Used(heap) /\ asked[b] \in Nat /\ asked[b] <= heap.size[b]
    BY DEF RoomOf
  <2>2. b \in Kept(heap)
    <3>1. b \in Blocks(heap) /\ heap.use[b] \in {"static", "gc"}
      BY <2>1 DEF IInv, Whole, Shape, Used, Blocks, Kinds
    <3>2. CASE heap.use[b] = "static"
      BY <3>1, <3>2 DEF Kept
    <3>3. CASE heap.use[b] = "gc"
      BY <3>1, <3>3 DEF Kept, Marked, Objects
    <3> QED  BY <3>1, <3>2, <3>3
  <2> QED  BY <2>1, <2>2
<1> HIDE DEF held
<1>3. ASSUME NEW b \in DOMAIN asked' PROVE asked'[b] \in Nat /\ b \in Used(k) /\ asked'[b] <= k.size[b]
  <2>1. CASE b = at /\ b # NULL
    BY <1>1, <1>3, <2>1
  <2>2. CASE b # at /\ b \in held /\ b # gone
    BY <1>1, <1>2, <2>2 DEF Stays
  <2>3. b \in held \ {gone} \/ (b = at /\ b # NULL)
    BY <1>1
  <2>4. CASE b = at /\ b = NULL
    <3>1. NULL \in Kept(heap)
      BY <1>2, <2>3, <2>4
    <3>2. NULL \in Nat
      BY <3>1, MarkedIs, InPool DEF Kept, Objects, Blocks, IInv, Whole, Shape
    <3> QED  BY <3>2, NullAssumption
  <2> QED  BY <2>1, <2>2, <2>3, <2>4
<1>4. asked' = [b \in DOMAIN asked' |-> asked'[b]]
  BY <1>1
<1> QED  BY <1>3, <1>4 DEF RoomOf

LEMMA GivesStays ==
    ASSUME IInv, NEW h \in Bases, NEW k, NEW b, NEW u, Gives(h, k, b, u)
    PROVE  \A c \in Kept(heap) \ {b} :
              c \in Used(k) /\ k.size[c] = heap.size[c] /\ k.use[c] = heap.use[c]
<1>1. \A c \in Kept(heap) : c \in Used(h) /\ h.size[c] = heap.size[c] /\ h.use[c] = heap.use[c]
  BY BaseIs
<1> QED  BY <1>1 DEF Gives

\* A request changes nothing that is kept, and references stay right.
LEMMA AllocKeeps ==
    ASSUME IInv, NEW size \in Nat \ {0}, NEW u \in {"static", "gc"}, NEW r, r = Alloc(size, u)
    PROVE  /\ Whole(r.heap) /\ Stays(r.heap, NULL, r.at)
           /\ r.at = NULL \/ u = "static" => RefsOf(r.heap, roots)
           /\ r.at # NULL /\ u = "gc" =>
                 \E h : /\ RefsOf(h, roots) /\ r.at \notin Objects(h)
                        /\ Objects(r.heap) = Objects(h) \cup {r.at}
                        /\ r.heap.ref = h.ref /\ r.heap.weak = h.weak
           /\ ~r.harm /\ r.at # NULL => r.at \in Used(r.heap) /\ r.heap.size[r.at] >= size
<1>1. PICK h \in Bases : Allocates(h, r, size, u)
  BY AllocIs
<1>2. /\ Whole(h) /\ RefsOf(h, roots)
      /\ \A b \in Kept(heap) : b \in Used(h) /\ h.size[b] = heap.size[b] /\ h.use[b] = heap.use[b]
  BY BaseIs
<1>3. CASE r.at = NULL /\ r.heap = h
  BY <1>2, <1>3 DEF Stays
<1>4. CASE r.at # NULL
  <2>1. r.at \in Blocks(h) /\ h.use[r.at] = "free" /\ Gives(h, r.heap, r.at, u)
    BY <1>1, <1>4 DEF Allocates
  <2>2. r.at \notin Objects(h)
    BY <2>1 DEF Objects
  <2>3. Objects(r.heap) = Objects(h) \cup (IF u = "gc" THEN {r.at} ELSE {})
    BY <2>1, <2>2, GivesObjects, u \in Kinds DEF Kinds
  <2>4. u = "static" => RefsOf(r.heap, roots)
    BY <1>2, <2>1, <2>2, GivesRefs
  <2>5. \A c \in Kept(heap) \ {r.at} :
              c \in Used(r.heap) /\ r.heap.size[c] = heap.size[c] /\ r.heap.use[c] = heap.use[c]
    BY <2>1, GivesStays
  <2>6. Stays(r.heap, NULL, r.at)
    BY <2>5 DEF Stays
  <2>7. Whole(r.heap) /\ r.heap.ref = h.ref /\ r.heap.weak = h.weak
    BY <2>1 DEF Gives
  <2>8. ~r.harm => r.at \in Used(r.heap) /\ r.heap.size[r.at] >= size
    BY <1>1, <1>2, <1>4, RoomGiven
  <2> QED  BY <1>2, <1>4, <2>2, <2>3, <2>4, <2>6, <2>7, <2>8
<1>5. r.at = NULL => r.heap = h
  BY <1>1, <1>2, NullAssumption, InPool DEF Allocates, Blocks, Whole, Shape
<1> QED  BY <1>3, <1>4, <1>5

\* What realloc gives: nothing; the block in its place; or another, and it is free.
Moves(h, r, b, size) ==
    \/ r.at = NULL /\ r.heap = h
    \/ r.at = b /\ Gives(h, r.heap, b, "static") /\ r.heap.size[b] >= size
    \/ \E q : /\ Allocates(h, q, size, "static") /\ q.at # NULL
              /\ r.at = q.at /\ r.harm = q.harm
              /\ Gives(q.heap, r.heap, b, "free")

LEMMA MovedIs ==
    ASSUME NEW h, Whole(h), NEW b \in Blocks(h), h.use[b] = "static", NEW size \in Nat \ {0},
           NEW q, q = TryAlloc(h, size, "static"),
           NEW r, r = IF q.at = NULL THEN q ELSE [q EXCEPT !.heap = Freed(@, b)]
    PROVE  Moves(h, r, b, size)
<1>1. Allocates(h, q, size, "static")
  BY TryAllocIs
<1>2. CASE q.at = NULL
  <2>1. q.heap = h
    BY <1>1, <1>2, NullAssumption, InPool DEF Allocates, Blocks, Whole, Shape
  <2> QED  BY <1>2, <2>1 DEF Moves
<1>3. CASE q.at # NULL
  <2>1. q = [at |-> q.at, heap |-> q.heap, harm |-> q.harm]
    BY DEF TryAlloc
  <2>2. r.at = q.at /\ r.harm = q.harm /\ r.heap = Freed(q.heap, b)
    BY <1>3, <2>1
  <2>3. Gives(h, q.heap, q.at, "static") /\ h.use[q.at] = "free"
    BY <1>1, <1>3 DEF Allocates
  <2>4. Whole(q.heap) /\ b \in Used(q.heap)
    BY <2>3 DEF Gives, Used
  <2>5. Gives(q.heap, r.heap, b, "free")
    BY <2>2, <2>4, FreedIs
  <2> QED  BY <1>1, <1>3, <2>2, <2>5 DEF Moves
<1> QED  BY <1>2, <1>3

LEMMA GrownIs ==
    ASSUME IInv, NEW b \in Blocks(heap), heap.use[b] = "static",
           NEW size \in Nat \ {0}, size > heap.size[b],
           NEW r, r = Grown(b, size), ~r.harm
    PROVE  \E h \in Bases : Moves(h, r, b, size)
<1> DEFINE c == Collected(heap)
           last == End(heap, b) = Pool
           now == TryAlloc(heap, size, "static")
           later == TryAlloc(c, size, "static")
           Moved(q) == IF q.at = NULL THEN q ELSE [q EXCEPT !.heap = Freed(@, b)]
<1>1. r = IF CanExpand(heap, b, size) THEN InPlace(heap, b, size)
          ELSE IF ~last /\ CanExpand(c, b, size) THEN InPlace(c, b, size)
          ELSE IF last /\ now.at # NULL THEN Moved(now)
          ELSE Moved(later)
  BY DEF Grown
<1>2. heap \in Bases /\ c \in Bases
  BY DEF Bases
<1> HIDE DEF c
<1>3. ASSUME NEW h \in Bases
      PROVE  Whole(h) /\ b \in Blocks(h) /\ h.use[b] = "static" /\ size > h.size[b]
  <2>1. /\ Whole(h) /\ RefsOf(h, roots)
        /\ \A d \in Kept(heap) : d \in Used(h) /\ h.size[d] = heap.size[d] /\ h.use[d] = heap.use[d]
    BY BaseIs
  <2>2. b \in Kept(heap)
    BY DEF Kept
  <2>3. b \in Used(h) /\ h.size[b] = heap.size[b] /\ h.use[b] = heap.use[b]
    BY <2>1, <2>2
  <2> QED  BY <2>1, <2>3 DEF Used
<1>4. ASSUME NEW h \in Bases, CanExpand(h, b, size), r = InPlace(h, b, size)
      PROVE  Moves(h, r, b, size)
  <2> DEFINE k == Expanded(h, b, size)
  <2>1. Whole(h) /\ b \in Blocks(h) /\ h.use[b] = "static" /\ size > h.size[b]
    BY <1>3
  <2>4. size # h.size[b] + h.size[End(h, b)] + 1
    <3> DEFINE z == size = h.size[b] + h.size[End(h, b)] + 1
    <3>1. r = [at |-> b, heap |-> k, harm |-> z]
      BY <1>4 DEF InPlace
    <3> HIDE DEF z, k
    <3>2. r.harm = z
      BY <3>1, Fields
    <3>3. ~z
      BY <3>2, Zenon
    <3> QED  BY <3>3 DEF z
  <2>2. Gives(h, k, b, "static") /\ k.size[b] >= size
    BY <1>4, <2>1, <2>4, ExpandedIs
  <2>3. r.at = b /\ r.heap = k
    BY <1>4 DEF InPlace
  <2> HIDE DEF k
  <2> QED  BY <2>2, <2>3 DEF Moves
<1>5. ASSUME NEW h \in Bases, NEW q, q = TryAlloc(h, size, "static"), r = Moved(q)
      PROVE  Moves(h, r, b, size)
  BY <1>3, <1>5, MovedIs
<1> HIDE DEF last, now, later, Moved
<1>6. CASE CanExpand(heap, b, size)
  BY <1>1, <1>2, <1>4, <1>6
<1>7. CASE ~CanExpand(heap, b, size) /\ ~last /\ CanExpand(c, b, size)
  BY <1>1, <1>2, <1>4, <1>7
<1>8. CASE ~CanExpand(heap, b, size) /\ ~(~last /\ CanExpand(c, b, size)) /\ last /\ now.at # NULL
  BY <1>1, <1>2, <1>5, <1>8 DEF now
<1>9. CASE ~CanExpand(heap, b, size) /\ ~(~last /\ CanExpand(c, b, size)) /\ ~(last /\ now.at # NULL)
  BY <1>1, <1>2, <1>5, <1>9 DEF later
<1> QED  BY <1>6, <1>7, <1>8, <1>9

\* A realloc changes nothing else that is kept.
LEMMA MovesKeep ==
    ASSUME IInv, NEW b \in Blocks(heap), heap.use[b] = "static", NEW size \in Nat \ {0},
           NEW h \in Bases, NEW r, Moves(h, r, b, size)
    PROVE  /\ Whole(r.heap) /\ RefsOf(r.heap, roots)
           /\ Stays(r.heap, IF r.at = NULL THEN NULL ELSE b, r.at)
           /\ ~r.harm /\ r.at # NULL => r.at \in Used(r.heap) /\ r.heap.size[r.at] >= size
<1>1. /\ Whole(h) /\ RefsOf(h, roots)
      /\ \A c \in Kept(heap) : c \in Used(h) /\ h.size[c] = heap.size[c] /\ h.use[c] = heap.use[c]
  BY BaseIs
<1>2. b \in Used(h) /\ h.use[b] = "static" /\ b \in Blocks(h) /\ b \notin Objects(h) /\ b # NULL
  <2>1. b \in Kept(heap)
    BY DEF Kept
  <2>2. b \in Used(h) /\ h.use[b] = "static"
    BY <1>1, <2>1
  <2>3. b \in Nat
    BY InPool DEF IInv, Whole, Shape, Blocks
  <2> QED  BY <2>2, <2>3, NullAssumption DEF Used, Objects
<1>3. CASE r.at = NULL /\ r.heap = h
  BY <1>1, <1>3 DEF Stays
<1>4. CASE r.at = b /\ Gives(h, r.heap, b, "static") /\ r.heap.size[b] >= size
  <2>1. RefsOf(r.heap, roots)
    BY <1>1, <1>2, <1>4, GivesRefs
  <2>2. \A c \in Kept(heap) \ {b} :
              c \in Used(r.heap) /\ r.heap.size[c] = heap.size[c] /\ r.heap.use[c] = heap.use[c]
    BY <1>4, GivesStays
  <2> QED  BY <1>2, <1>4, <2>1, <2>2 DEF Stays, Gives, Used, Blocks
<1>5. CASE \E q : /\ Allocates(h, q, size, "static") /\ q.at # NULL
                  /\ r.at = q.at /\ r.harm = q.harm
                  /\ Gives(q.heap, r.heap, b, "free")
  <2>1. PICK q : /\ Allocates(h, q, size, "static") /\ q.at # NULL
                 /\ r.at = q.at /\ r.harm = q.harm
                 /\ Gives(q.heap, r.heap, b, "free")
    BY <1>5
  <2>2. q.at \in Blocks(h) /\ h.use[q.at] = "free" /\ Gives(h, q.heap, q.at, "static")
    BY <2>1 DEF Allocates
  <2>3. q.at \notin Objects(h) /\ q.at # b
    BY <1>2, <2>2 DEF Objects
  <2>4. Objects(q.heap) = Objects(h) /\ RefsOf(q.heap, roots)
    <3>1. RefsOf(q.heap, roots)
      BY <1>1, <2>2, <2>3, GivesRefs
    <3>2. Objects(q.heap) = Objects(h) \cup (IF "static" = "gc" THEN {q.at} ELSE {})
      BY <2>2, <2>3, GivesObjects DEF Kinds
    <3> QED  BY <3>1, <3>2
  <2>5. RefsOf(r.heap, roots)
    BY <1>2, <2>1, <2>4, GivesRefs
  <2>6. \A c \in Kept(heap) \ {q.at} :
              c \in Used(q.heap) /\ q.heap.size[c] = heap.size[c] /\ q.heap.use[c] = heap.use[c]
    BY <2>2, GivesStays
  <2>7. \A c \in Used(q.heap) \ {b} : c \in Used(r.heap) /\ r.heap.size[c] = q.heap.size[c]
    BY <2>1 DEF Gives
  <2>8. Stays(r.heap, b, r.at)
    BY <2>1, <2>6, <2>7 DEF Stays
  <2>9. ~q.harm => q.at \in Used(q.heap) /\ q.heap.size[q.at] >= size
    BY <1>1, <2>1, RoomGiven
  <2> QED  BY <2>1, <2>3, <2>5, <2>7, <2>8, <2>9 DEF Gives
<1> QED  BY <1>3, <1>4, <1>5 DEF Moves

LEMMA ShrunkIs ==
    ASSUME IInv, NEW b \in Blocks(heap), heap.use[b] = "static",
           NEW size \in Nat \ {0}, size <= heap.size[b], NEW k, k = Shrunk(b, size)
    PROVE  Gives(heap, k, b, "static") /\ k.size[b] >= size
<1>1. Whole(heap) /\ Shape(heap) /\ heap.size[b] \in Nat
  BY InPool DEF IInv, Whole, Shape, Blocks
<1>2. CASE size + 2 < heap.size[b]
  <2>1. k = NewFree(Header(heap, b, size, "static"), b + 1 + size, heap.size[b] - size - 1)
    BY <1>2 DEF Shrunk, Rest
  <2>2. Lists(heap, {b})
    <3>1. \A i \in Classes : FreeOf(heap.size, heap.use, i) \ {b} = FreeOf(heap.size, heap.use, i) \ {}
      BY DEF FreeOf
    <3> QED  BY <1>1, <3>1 DEF Lists, Whole
  <2>3. size + 2 <= heap.size[b]
    BY <1>1, <1>2
  <2>4. Gives(heap, k, b, "static") /\ k.size[b] = size
    BY <1>1, <2>1, <2>2, <2>3, CutIs
  <2> QED  BY <2>4
<1>3. CASE ~(size + 2 < heap.size[b])
  <2>1. k = heap
    BY <1>3 DEF Shrunk
  <2> QED  BY <1>1, <2>1 DEF Gives, Blocks
<1> QED  BY <1>2, <1>3

\* What each step keeps.
\* A step by which the heap is not harmed keeps the invariant.
Keeps == ~harmed' => IInv' /\ (RoomOf(heap, asked) => RoomOf(heap', asked'))

LEMMA MallocKeeps == ASSUME IInv, NEW size \in Sizes, Malloc(size) PROVE Keeps
<1> DEFINE r == Alloc(size, "static")
<1>1. heap' = r.heap /\ Remember(NULL, r.at, size) /\ roots' = roots
  BY DEF Malloc
<1>h. ~harmed' => ~r.harm
  BY Zenon DEF Malloc, Harm
<1>2. size \in Nat \ {0} /\ size \in Nat
  BY SizesAssumption
<1>3. /\ Whole(r.heap) /\ Stays(r.heap, NULL, r.at) /\ RefsOf(r.heap, roots)
      /\ ~r.harm /\ r.at # NULL => r.at \in Used(r.heap) /\ r.heap.size[r.at] >= size
  BY <1>2, AllocKeeps
<1> HIDE DEF r
<1>4. IInv'
  BY <1>1, <1>3 DEF IInv
<1>5. ASSUME ~harmed', RoomOf(heap, asked) PROVE RoomOf(heap', asked')
  BY <1>h, <1>1, <1>2, <1>3, <1>5, Remembered
<1> QED  BY <1>4, <1>5 DEF Keeps

LEMMA GcAllocKeeps == ASSUME IInv, NEW size \in Sizes, GcAlloc(size) PROVE Keeps
<1> DEFINE r == Alloc(size, "gc")
<1>1. /\ heap' = IF r.at = NULL THEN r.heap
                 ELSE [r.heap EXCEPT !.ref = With(@, r.at, NULL), !.weak = With(@, r.at, NULL)]
      /\ roots' = IF r.at = NULL THEN roots ELSE roots \cup {r.at}
      /\ Remember(NULL, r.at, size)
  BY DEF GcAlloc
<1>h. ~harmed' => ~r.harm
  BY Zenon DEF GcAlloc, Harm
<1>2. size \in Nat \ {0} /\ size \in Nat
  BY SizesAssumption
<1>3. /\ Whole(r.heap) /\ Stays(r.heap, NULL, r.at)
      /\ r.at = NULL => RefsOf(r.heap, roots)
      /\ r.at # NULL =>
            \E h : /\ RefsOf(h, roots) /\ r.at \notin Objects(h)
                   /\ Objects(r.heap) = Objects(h) \cup {r.at}
                   /\ r.heap.ref = h.ref /\ r.heap.weak = h.weak
      /\ ~r.harm /\ r.at # NULL => r.at \in Used(r.heap) /\ r.heap.size[r.at] >= size
  BY <1>2, AllocKeeps
<1> HIDE DEF r
<1>4. CASE r.at = NULL
  <2>1. heap' = r.heap /\ roots' = roots
    BY <1>1, <1>4
  <2>2. IInv'
    BY <1>3, <1>4, <2>1 DEF IInv
  <2>3. ASSUME ~harmed', RoomOf(heap, asked) PROVE RoomOf(heap', asked')
    BY <1>h, <1>1, <1>2, <1>3, <1>4, <2>1, <2>3, Remembered
  <2> QED  BY <2>2, <2>3 DEF Keeps
<1>5. CASE r.at # NULL
  <2> DEFINE f == With(r.heap.ref, r.at, NULL)
             g == With(r.heap.weak, r.at, NULL)
  <2>1. heap' = [r.heap EXCEPT !.ref = f, !.weak = g] /\ roots' = roots \cup {r.at}
    BY <1>1, <1>5
  <2>2. PICK h : /\ RefsOf(h, roots) /\ r.at \notin Objects(h)
                 /\ Objects(r.heap) = Objects(h) \cup {r.at}
                 /\ r.heap.ref = h.ref /\ r.heap.weak = h.weak
    BY <1>3, <1>5
  <2>3. /\ f \in [Objects(r.heap) -> Objects(r.heap) \cup {NULL}]
        /\ g \in [Objects(r.heap) -> Objects(r.heap) \cup {NULL}]
    BY <2>2 DEF With, RefsOf
  <2> HIDE DEF f, g
  <2>4. /\ Record(heap') /\ heap'.size = r.heap.size /\ heap'.use = r.heap.use
        /\ heap'.table = r.heap.table /\ heap'.ref = f /\ heap'.weak = g
    <3>1. Record(r.heap)
      BY <1>3 DEF Whole, Shape
    <3>2. heap' = [size |-> r.heap.size, use |-> r.heap.use, table |-> r.heap.table,
                   ref |-> f, weak |-> g]
      BY <2>1, <3>1 DEF Record
    <3> QED  BY <3>2 DEF Record
  <2>5. Whole(heap')
    BY <1>3, <2>4 DEF Whole, Shape, Lists
  <2>6. Objects(heap') = Objects(r.heap) /\ Used(heap') = Used(r.heap)
    BY <2>4 DEF Objects, Used, Blocks
  <2>7. RefsOf(heap', roots')
    BY <2>1, <2>2, <2>3, <2>4, <2>6 DEF RefsOf
  <2>8. IInv'
    BY <2>5, <2>7 DEF IInv
  <2>9. ASSUME ~harmed', RoomOf(heap, asked) PROVE RoomOf(heap', asked')
    <3>1. RoomOf(r.heap, asked')
      BY <1>h, <1>1, <1>2, <1>3, <2>9, Remembered
    <3> QED  BY <2>4, <2>6, <3>1 DEF RoomOf
  <2> QED  BY <2>8, <2>9 DEF Keeps
<1> QED  BY <1>4, <1>5

LEMMA FreeKeeps == ASSUME IInv, NEW b \in Blocks(heap), Free(b) PROVE Keeps
<1> DEFINE k == Freed(heap, b)
<1>1. heap' = k /\ Remember(b, NULL, 0) /\ roots' = roots /\ heap.use[b] = "static"
  BY DEF Free
<1>2. heap \in Bases /\ Whole(heap) /\ b \in Used(heap) /\ b \notin Objects(heap)
      /\ RefsOf(heap, roots)
  BY <1>1 DEF Bases, IInv, Used, Objects
<1>3. Gives(heap, k, b, "free")
  BY <1>2, FreedIs
<1> HIDE DEF k
<1>4. RefsOf(k, roots)
  BY <1>2, <1>3, GivesRefs
<1>5. IInv'
  BY <1>1, <1>3, <1>4 DEF IInv, Gives
<1>6. ASSUME RoomOf(heap, asked) PROVE RoomOf(heap', asked')
  <2>1. \A c \in Kept(heap) \ {b} :
           c \in Used(k) /\ k.size[c] = heap.size[c] /\ k.use[c] = heap.use[c]
    BY <1>2, <1>3, GivesStays
  <2>2. Stays(k, b, NULL)
    BY <2>1 DEF Stays
  <2>3. Stays(k, b, NULL) /\ (NULL # NULL => NULL \in Used(k) /\ k.size[NULL] >= 0)
    BY <2>2
  <2> QED  BY <1>1, <1>6, <2>3, Remembered
<1> QED  BY <1>5, <1>6 DEF Keeps

LEMMA ReallocKeeps ==
    ASSUME IInv, NEW b \in Blocks(heap), NEW size \in Sizes, Realloc(b, size), ~harmed'
    PROVE  Keeps
<1> DEFINE r == IF size > heap.size[b] THEN Grown(b, size)
                ELSE [at |-> b, heap |-> Shrunk(b, size), harm |-> FALSE]
           gone == IF r.at = NULL THEN NULL ELSE b
<1>1. heap.use[b] = "static" /\ heap' = r.heap /\ Remember(gone, r.at, size) /\ roots' = roots
  BY DEF Realloc
<1>h. ~r.harm
  BY Zenon DEF Realloc, Harm
<1>2. size \in Nat \ {0} /\ size \in Nat /\ heap.size[b] \in Nat
  BY SizesAssumption, InPool DEF IInv, Whole, Shape, Blocks
<1>3. \E h \in Bases : Moves(h, r, b, size)
  <2>1. CASE size > heap.size[b]
    <3>1. r = Grown(b, size)
      BY <2>1
    <3> HIDE DEF r
    <3> QED  BY <1>h, <1>1, <1>2, <2>1, <3>1, GrownIs
  <2>2. CASE ~(size > heap.size[b])
    <3> DEFINE k == Shrunk(b, size)
    <3>1. Gives(heap, k, b, "static") /\ k.size[b] >= size
      BY <1>1, <1>2, <2>2, ShrunkIs
    <3>2. r.at = b /\ r.heap = k
      BY <2>2
    <3> HIDE DEF k, r
    <3> QED  BY <3>1, <3>2 DEF Moves, Bases
  <2> QED  BY <2>1, <2>2
<1> HIDE DEF r
<1>4. PICK h \in Bases : Moves(h, r, b, size)
  BY <1>3
<1>5. /\ Whole(r.heap) /\ RefsOf(r.heap, roots) /\ Stays(r.heap, gone, r.at)
      /\ r.at # NULL => r.at \in Used(r.heap) /\ r.heap.size[r.at] >= size
  BY <1>h, <1>1, <1>2, <1>4, MovesKeep
<1> HIDE DEF gone
<1>6. IInv'
  BY <1>1, <1>5 DEF IInv
<1>7. ASSUME RoomOf(heap, asked) PROVE RoomOf(heap', asked')
  BY <1>1, <1>2, <1>5, <1>7, Remembered
<1> QED  BY <1>6, <1>7 DEF Keeps

\* The program moves references, and the blocks stay as they are.
LEMMA ReferencesKeep ==
    ASSUME IInv, NEW b \in roots,
           \/ Drop(b)
           \/ Load(b)
           \/ \E c \in roots \cup {NULL} : Assign(b, c) \/ AssignWeak(b, c)
    PROVE  Keeps
<1>1. b \in Objects(heap) /\ Record(heap) /\ RefsOf(heap, roots) /\ Whole(heap)
  BY DEF IInv, RefsOf, Whole, Shape
<1>2. asked' = asked
  BY DEF Drop, Load, Assign, AssignWeak
<1>3. /\ Record(heap') /\ heap'.size = heap.size /\ heap'.use = heap.use
      /\ heap'.table = heap.table /\ RefsOf(heap', roots')
  <2>1. CASE Drop(b)
    BY <1>1, <2>1 DEF Drop, RefsOf
  <2>2. CASE Load(b)
    <3>1. PICK c \in {heap.ref[b], heap.weak[b]} \ {NULL} : roots' = roots \cup {c} /\ heap' = heap
      BY <2>2 DEF Load
    <3>2. c \in Objects(heap)
      BY <1>1, <3>1 DEF RefsOf
    <3> QED  BY <1>1, <3>1, <3>2 DEF RefsOf
  <2>3. ASSUME NEW c \in roots \cup {NULL}, Assign(b, c) \/ AssignWeak(b, c)
        PROVE  /\ Record(heap') /\ heap'.size = heap.size /\ heap'.use = heap.use
               /\ heap'.table = heap.table /\ RefsOf(heap', roots')
    <3> DEFINE f == IF Assign(b, c) THEN [heap.ref EXCEPT ![b] = c] ELSE heap.ref
               g == IF Assign(b, c) THEN heap.weak ELSE [heap.weak EXCEPT ![b] = c]
    <3>1. heap' = [size |-> heap.size, use |-> heap.use, table |-> heap.table, ref |-> f, weak |-> g]
      <4>1. CASE Assign(b, c)
        <5>1. heap' = [heap EXCEPT !.ref[b] = c]
          BY <4>1 DEF Assign
        <5> QED  BY <1>1, <4>1, <5>1 DEF Record
      <4>2. CASE ~Assign(b, c)
        <5>1. heap' = [heap EXCEPT !.weak[b] = c]
          BY <2>3, <4>2 DEF AssignWeak
        <5> QED  BY <1>1, <4>2, <5>1 DEF Record
      <4> QED  BY <4>1, <4>2
    <3>2. f \in [Objects(heap) -> Objects(heap) \cup {NULL}]
          /\ g \in [Objects(heap) -> Objects(heap) \cup {NULL}]
      BY <1>1 DEF RefsOf
    <3>3. roots' = roots
      BY <2>3 DEF Assign, AssignWeak
    <3> HIDE DEF f, g
    <3>4. /\ heap'.size = heap.size /\ heap'.use = heap.use /\ heap'.table = heap.table
          /\ heap'.ref = f /\ heap'.weak = g /\ Record(heap')
      BY <3>1 DEF Record
    <3>5. Objects(heap') = Objects(heap)
      BY <3>4 DEF Objects, Blocks
    <3> QED  BY <1>1, <3>2, <3>3, <3>4, <3>5 DEF RefsOf
  <2> QED  BY <2>1, <2>2, <2>3
<1>4. Whole(heap')
  BY <1>1, <1>3 DEF Whole, Shape, Lists
<1>5. Used(heap') = Used(heap)
  BY <1>3 DEF Used, Blocks
<1>6. RoomOf(heap, asked) => RoomOf(heap', asked')
  BY <1>2, <1>3, <1>5 DEF RoomOf
<1> QED  BY <1>3, <1>4, <1>6 DEF Keeps, IInv

LEMMA StepKeeps == ASSUME IInv, [Next]_vars, ~harmed' PROVE Keeps
<1>1. ASSUME NEW size \in Sizes, Malloc(size) PROVE Keeps
  BY <1>1, MallocKeeps
<1>2. ASSUME NEW size \in Sizes, GcAlloc(size) PROVE Keeps
  BY <1>2, GcAllocKeeps
<1>3. ASSUME NEW b \in Blocks(heap), Free(b) PROVE Keeps
  BY <1>3, FreeKeeps
<1>4. ASSUME NEW b \in Blocks(heap), NEW size \in Sizes, Realloc(b, size) PROVE Keeps
  BY <1>4, ReallocKeeps
<1>5. ASSUME NEW b \in roots,
             \/ Drop(b)
             \/ Load(b)
             \/ \E c \in roots \cup {NULL} : Assign(b, c) \/ AssignWeak(b, c)
      PROVE  Keeps
  BY <1>5, ReferencesKeep
<1>6. CASE UNCHANGED vars
  BY <1>6 DEF vars, Keeps, IInv
<1> QED  BY <1>1, <1>2, <1>3, <1>4, <1>5, <1>6 DEF Next

LEMMA HarmLasts == ASSUME [Next]_vars, harmed PROVE harmed'
BY DEF Next, vars, Malloc, GcAlloc, Free, Realloc, Harm, Drop, Load, Assign, AssignWeak

-------------------------------------------------------------------------------
(* The theorems. *)

\* In every state the blocks, the lists and the references are as the operations of
\* kernel/memory/allocator.cpp expect them to be: blocks follow each other to the end of
\* the pool, each list holds the free blocks of its class, once, and references lead to
\* objects.  So it is until the heap has handed out what it does not have, for any sizes.
THEOREM Invariance == Spec => [](~harmed => IInv)
<1>1. Init => (~harmed => IInv)
  BY InitWhole
<1>2. (~harmed => IInv) /\ [Next]_vars => (~harmed => IInv)'
  BY StepKeeps, HarmLasts DEF Keeps
<1> QED  BY <1>1, <1>2, PTL DEF Spec

\* The collector's walk from header to header ends at the end of the pool, and the
\* lists hold the free blocks, whatever was split, joined, moved and collected, up to a
\* growth by exactly the next block and its header or a block that is too small for what
\* was asked (harmed, in HeapIsWhole).
THEOREM PoolIsWhole == Spec => []HeapIsWhole
<1>1. ASSUME IInv PROVE HeapIsWhole
  <2>1. /\ Whole(heap) /\ Tiles(heap.size) /\ Blocks(heap) = DOMAIN heap.size
        /\ \A b \in Blocks(heap) : End(heap, b) = Behind(heap.size, b)
    BY <1>1 DEF IInv, Whole, Shape, Blocks, End, Behind
  <2>2. {End(heap, b) : b \in Blocks(heap)} = (Blocks(heap) \ {0}) \cup {Pool}
    <3>1. ASSUME NEW b \in Blocks(heap) PROVE End(heap, b) \in (Blocks(heap) \ {0}) \cup {Pool}
      <4>1. Behind(heap.size, b) \in Nat /\ b + 2 <= Behind(heap.size, b) /\ b \in Nat
        BY <2>1, InPool
      <4> QED  BY <2>1, <4>1 DEF Tiles
    <3>2. ASSUME NEW b \in (Blocks(heap) \ {0}) \cup {Pool}
          PROVE  \E p \in Blocks(heap) : End(heap, p) = b
      <4>1. b \in DOMAIN heap.size \cup {Pool} /\ b # 0
        BY <2>1, PoolAssumption
      <4>2. \E p \in DOMAIN heap.size : Behind(heap.size, p) = b
        BY <2>1, <4>1 DEF Tiles
      <4> QED  BY <2>1, <4>2
    <3> QED  BY <3>1, <3>2
  <2>3. ASSUME NEW i \in Classes
        PROVE  /\ ToSet(heap.table[i]) = {b \in Blocks(heap) : heap.use[b] = "free"
                                                             /\ Slot(heap.size[b]) = i}
               /\ IsInjective(heap.table[i])
    <3> DEFINE F == FreeOf(heap.size, heap.use, i)
               l == heap.table[i]
    <3>1. Holds(l, F) /\ F = {b \in Blocks(heap) : heap.use[b] = "free" /\ Slot(heap.size[b]) = i}
      BY <2>1 DEF Whole, Lists, FreeOf, Blocks
    <3> HIDE DEF F, l
    <3>2. l \in Seq(F) /\ DOMAIN l = 1 .. Len(l)
      BY <3>1 DEF Holds
    <3>3. ToSet(l) = F
      BY <3>1, <3>2 DEF ToSet, Holds
    <3>4. IsInjective(l)
      BY <3>1, <3>2 DEF IsInjective, Holds
    <3> QED  BY <3>1, <3>3, <3>4 DEF l
  <2>4. 0 \in Blocks(heap)
    BY <2>1 DEF Tiles
  <2> QED  BY <2>2, <2>3, <2>4 DEF HeapIsWhole
<1>2. harmed => HeapIsWhole
  BY DEF HeapIsWhole
<1> QED  BY <1>1, <1>2, Invariance, PTL

\* A weak reference that is read names an object that is there: WeakRef::checkClear has
\* cleared it before the object went.  Up to the same two slips.
THEOREM WeakIsSafe == Spec => []WeakNeverDangles
<1>1. ASSUME IInv PROVE WeakNeverDangles
  <2>1. Reachable(heap) \in SUBSET Objects(heap)
    BY DEF Reachable
  <2> QED  BY <1>1, <2>1 DEF WeakNeverDangles, IInv, RefsOf
<1>2. harmed => WeakNeverDangles
  BY DEF WeakNeverDangles
<1> QED  BY <1>1, <1>2, Invariance, PTL

\* What the program can reach is there, and what it has got has the room it asked for,
\* whatever was moved or collected since, up to the same two slips: while the first
\* block of a class was large enough whenever tryAlloc took it to be.
THEOREM ReachableKept == Spec => []ReachableIsKept
<1> DEFINE Room == RoomOf(heap, asked)
<1>1. Init => (~harmed => Room)
  BY InitWhole
<1>2. (~harmed => IInv) /\ (~harmed => Room) /\ [Next]_vars => (~harmed => Room)'
  BY StepKeeps, HarmLasts DEF Keeps
<1>3. ASSUME IInv, Room PROVE ReachableIsKept
  <2>1. Reachable(heap) \in SUBSET Objects(heap)
    BY DEF Reachable
  <2> QED  BY <1>3, <2>1 DEF ReachableIsKept, IInv, RefsOf, RoomOf
<1>4. harmed => ReachableIsKept
  BY DEF ReachableIsKept
<1> HIDE DEF Room
<1> QED  BY <1>1, <1>2, <1>3, <1>4, Invariance, PTL DEF Spec

\* A request is refused only when there is no room for it between the blocks that are
\* kept: a collection has put the others together, and the list of a class that is
\* high enough has one of them.
THEOREM RoomFound == Spec => []RoomIsFound
<1>1. ASSUME IInv PROVE RoomIsFound
  <2> SUFFICES ASSUME NEW size \in Sizes, NEW a \in 0 .. Pool - size - 1,
                      \A b \in Kept(heap) : End(heap, b) <= a \/ b >= a + 1 + size,
                      Alloc(size, "static").at = NULL
               PROVE  FALSE
    BY DEF RoomIsFound
  <2> DEFINE c == Collected(heap)
             q == TryAlloc(c, size, "static")
             f == c.size
  <2>1. size \in Nat \ {0} /\ a \in Nat /\ a + 1 + size <= Pool /\ Pool \in Nat
    BY SizesAssumption, PoolAssumption
  <2>2. q.at = NULL
    BY DEF Alloc
  <2>3. CollectedFrom(heap, c)
    BY <1>1, CollectedIs DEF IInv
  <2> HIDE DEF c
  <2>4. Whole(c)
    BY <2>3 DEF CollectedFrom
  <2>5. \A i \in Classes : i >= Slot(size) => c.table[i] = <<>>
    <3>1. /\ Allocates(c, q, size, "static")
          /\ q.at = NULL => \A i \in Classes : i >= Slot(size) => c.table[i] = <<>>
      BY <2>1, <2>4, TryAllocIs
    <3> QED  BY <2>2, <3>1
  <2> HIDE DEF q
  <2>6. Tiles(f) /\ DOMAIN f = Blocks(c)
    BY <2>4 DEF Whole, Shape, Blocks
  <2>7. \A b \in Blocks(c) : End(c, b) = Behind(f, b)
    BY DEF End, Behind
  <2> HIDE DEF f
  <2>8. \A b \in Blocks(c) : /\ b \in Nat /\ f[b] \in 1 .. Pool - 1 /\ Behind(f, b) \in Nat
                             /\ b + 2 <= Behind(f, b) /\ Slot(f[b]) \in Classes
    BY <2>6, InPool
  <2> DEFINE T == {b \in Blocks(c) : b <= a}
  <2>9. T \in SUBSET Nat /\ 0 \in T /\ \A b \in T : b <= a
    BY <2>1, <2>6, <2>8 DEF Tiles
  <2>10. PICK p \in T : \A b \in T : b <= p
    BY <2>1, <2>9, Greatest
  <2>11. p \in Blocks(c) /\ p <= a /\ p \in Nat
    BY <2>8, <2>10
  <2> DEFINE e == End(c, p)
  <2>12. e = Behind(f, p) /\ e \in Nat /\ p < e
    BY <2>7, <2>8, <2>11
  <2>13. a < e
    <3>1. SUFFICES ASSUME e <= a PROVE FALSE
      BY <2>1, <2>12
    <3>2. e \in Blocks(c)
      BY <2>1, <2>6, <2>11, <2>12, <3>1 DEF Tiles
    <3>3. e <= p
      BY <2>10, <3>1, <3>2
    <3> QED  BY <2>11, <2>12, <3>3
  <2>14. \A b \in Kept(heap) : End(heap, b) = End(c, b) /\ b \in Blocks(c)
    <3>1. \A b \in Kept(heap) : b \in Used(c) /\ c.size[b] = heap.size[b]
      BY <2>3 DEF CollectedFrom
    <3> QED  BY <3>1 DEF End, Used
  <2> HIDE DEF e
  <2>15. p \notin Kept(heap)
    <3>1. SUFFICES ASSUME p \in Kept(heap) PROVE FALSE
      OBVIOUS
    <3>2. End(heap, p) = e
      BY <2>14, <3>1 DEF e
    <3>3. e <= a \/ p >= a + 1 + size
      BY <3>1, <3>2
    <3> QED  BY <2>1, <2>11, <2>12, <2>13, <3>3
  <2>16. e \in Kept(heap) \cup {Pool}
    BY <2>3, <2>11, <2>15 DEF CollectedFrom, e
  <2>17. e >= a + 1 + size
    <3>1. CASE e = Pool
      BY <2>1, <3>1
    <3>2. CASE e \in Kept(heap)
      <4>1. End(heap, e) = Behind(f, e) /\ Behind(f, e) \in Nat /\ e + 2 <= Behind(f, e)
        BY <2>7, <2>8, <2>14, <3>2
      <4>2. Behind(f, e) <= a \/ e >= a + 1 + size
        BY <3>2, <4>1
      <4> QED  BY <2>1, <2>12, <2>13, <4>1, <4>2
    <3> QED  BY <2>16, <3>1, <3>2
  <2>18. f[p] >= size /\ f[p] \in 1 .. Pool - 1
    BY <2>1, <2>8, <2>11, <2>12, <2>17 DEF Behind
  <2>19. Slot(f[p]) \in Classes /\ Slot(f[p]) >= Slot(size)
    <3>1. size \in 1 .. Word - 1 /\ f[p] \in 1 .. Word - 1 /\ size <= f[p]
      BY <2>1, <2>18, PoolAssumption, WordIs
    <3>2. Slot(size) \in Nat /\ (size <= f[p] => Slot(size) <= Slot(f[p]))
      BY <3>1, SlotsInOrder
    <3>3. Slot(f[p]) \in Classes /\ Slot(f[p]) \in Nat
      BY <2>8, <2>11, ClassesAre
    <3> QED  BY <3>1, <3>2, <3>3
  <2>20. p \in FreeOf(c.size, c.use, Slot(f[p]))
    <3>1. p \notin Used(c)
      BY <2>3, <2>15 DEF CollectedFrom
    <3> QED  BY <2>11, <3>1 DEF FreeOf, Used, Blocks, f
  <2>21. c.table[Slot(f[p])] # <<>>
    <3>1. Holds(c.table[Slot(f[p])], FreeOf(c.size, c.use, Slot(f[p])) \ {})
      BY <2>4, <2>19 DEF Whole, Lists
    <3> DEFINE l == c.table[Slot(f[p])]
               F == FreeOf(c.size, c.use, Slot(f[p]))
    <3>2. Holds(l, F \ {}) /\ p \in F
      BY <2>20, <3>1
    <3> HIDE DEF l, F
    <3>3. \E n \in 1 .. Len(l) : l[n] = p
      BY <3>2 DEF Holds
    <3>4. l # <<>>
      BY <3>3
    <3> QED  BY <3>4 DEF l
  <2> QED  BY <2>5, <2>19, <2>21
<1>2. harmed => RoomIsFound
  BY DEF RoomIsFound
<1> QED  BY <1>1, <1>2, Invariance, PTL
===============================================================================
