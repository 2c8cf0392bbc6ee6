-------------------------- MODULE SleepQueue_proofs --------------------------
(***************************************************************************)
(* The list of sleepers is written down as a function f on 0 .. n: f[0] is *)
(* the head, f[1] .. f[n] are the threads asleep, each once, and from one  *)
(* place to the next leads its reference.  Along f what is left to sleep   *)
(* never decreases.  An insertion puts a thread between those that are due *)
(* before it and the others, the handler takes the front of it away.       *)
(*                                                                         *)
(* The code compares targets, which are remainders of the counter.  A      *)
(* target is the tick plus what is left, up to turns of the counter        *)
(* (Times), and nobody has more left than the longest sleep nor is later   *)
(* than the bound: so the signed difference of two of them is the          *)
(* difference of what is left (DifferenceIs).                              *)
(***************************************************************************)
EXTENDS SleepQueue, FiniteSetTheorems, WellFoundedInduction, TLAPS

\* Two times that differ by turns of the counter.
Turns(a, b) == \E k \in Int : a - b = k * Wrap

Types ==
    /\ queue = [head |-> queue.head, next |-> queue.next,
                ref |-> queue.ref, target |-> queue.target]
    /\ queue.head \in Ops
    /\ queue.next \in [Threads -> Ops]
    /\ queue.ref \in [Threads -> Refs]
    /\ queue.target \in [Threads -> 0 .. Wrap - 1]
    /\ asleep \in SUBSET Threads /\ objects \in SUBSET asleep
    /\ left \in [Threads -> Int]
    /\ tick \in 0 .. Wrap - 1
    /\ alarm \in 0 .. MaxSleep \cup {NULL}
    /\ pending \in BOOLEAN

\* The list, written down: the head, then the operations of the threads asleep.
IsList(q, n, f, S) ==
    /\ n \in Nat /\ f \in [0 .. n -> Places]
    /\ f[0] = HEAD
    /\ \A i \in 1 .. n : f[i] \in S
    /\ \A t \in S : \E i \in 1 .. n : f[i] = t
    /\ \A i, j \in 0 .. n : f[i] = f[j] => i = j
    /\ \A i \in 0 .. n - 1 : At(q, f[i]) = f[i + 1]
    /\ At(q, f[n]) = NULL

IsSorted(n, f, l) == \A i, j \in 1 .. n : i <= j => l[f[i]] <= l[f[j]]

SortedList ==
    \E n \in Nat : \E f \in [0 .. n -> Places] :
       IsList(queue, n, f, asleep) /\ IsSorted(n, f, left)

Times ==
    \A t \in asleep : /\ left[t] \in -MaxLate .. MaxSleep
                      /\ Turns(queue.target[t], tick + left[t])

\* An operation that can be aborted is alone in the list.
AloneIfObject ==
    \A t \in objects : asleep = {t} /\ queue.ref[t] = HEAD

IInv == Types /\ SortedList /\ Times /\ AloneIfObject /\ TimerCovers

-------------------------------------------------------------------------------
(* The counter. *)

LEMMA Constants ==
    /\ MaxSleep \in Nat \ {0} /\ MaxLate \in Nat /\ Early \in Nat /\ Wrap \in Nat \ {0}
    /\ 2 * MaxSleep < Wrap /\ 2 * MaxLate < Wrap /\ 2 * (MaxSleep + MaxLate) < Wrap
    /\ NULL \notin Int /\ NULL \notin Threads /\ HEAD \notin Threads /\ NULL # HEAD
BY TimesAssumption, ThreadsAssumption

LEMMA Remainder ==
    ASSUME NEW a \in Int
    PROVE  a % Wrap \in 0 .. Wrap - 1 /\ Turns(a % Wrap, a)
<1>1. Wrap \in Nat \ {0}
  BY Constants
<1>2. a % Wrap \in 0 .. Wrap - 1 /\ a = Wrap * (a \div Wrap) + (a % Wrap) /\ a \div Wrap \in Int
  BY <1>1
<1>3. PICK k \in Int : k = -(a \div Wrap)
  BY <1>2
<1>4. (a % Wrap) - a = k * Wrap
  BY <1>1, <1>2, <1>3
<1> QED  BY <1>2, <1>4 DEF Turns

\* Times that differ by turns, and by less than a turn, are the same.
LEMMA SameTurn ==
    ASSUME NEW a \in Int, NEW b \in Int, Turns(a, b), a - b < Wrap, b - a < Wrap
    PROVE  a = b
<1>1. PICK k \in Int : a - b = k * Wrap
  BY DEF Turns
<1>2. Wrap \in Nat \ {0}
  BY Constants
<1>3. CASE k >= 1
  <2>1. k * Wrap >= Wrap
    BY <1>2, <1>3
  <2> QED  BY <1>1, <1>2, <2>1
<1>4. CASE k <= -1
  <2>1. k * Wrap <= -Wrap
    BY <1>2, <1>4
  <2> QED  BY <1>1, <1>2, <2>1
<1>5. CASE k = 0
  <2>1. k * Wrap = 0
    BY <1>2, <1>5
  <2> QED  BY <1>1, <2>1
<1> QED  BY <1>3, <1>4, <1>5

LEMMA TurnsAdd ==
    ASSUME NEW a \in Int, NEW b \in Int, NEW c \in Int, NEW d \in Int, Turns(a, b), Turns(c, d)
    PROVE  /\ Turns(a + c, b + d) /\ Turns(a - c, b - d) /\ Turns(b, a)
<1>1. PICK k \in Int : a - b = k * Wrap
  BY DEF Turns
<1>2. PICK j \in Int : c - d = j * Wrap
  BY DEF Turns
<1>3. Wrap \in Int
  BY Constants
<1>4. (a + c) - (b + d) = (k + j) * Wrap
  BY <1>1, <1>2, <1>3
<1>5. (a - c) - (b - d) = (k - j) * Wrap
  BY <1>1, <1>2, <1>3
<1>6. b - a = (-k) * Wrap
  BY <1>1, <1>3
<1> QED  BY <1>4, <1>5, <1>6 DEF Turns

LEMMA TurnsRefl ==
    ASSUME NEW a \in Int
    PROVE  Turns(a, a)
<1>1. a - a = 0 * Wrap
  BY Constants
<1> QED  BY <1>1 DEF Turns

LEMMA TurnsTrans ==
    ASSUME NEW a \in Int, NEW b \in Int, NEW c \in Int, Turns(a, b), Turns(b, c)
    PROVE  Turns(a, c)
<1>1. Turns(a + b, b + c)
  BY TurnsAdd
<1>2. (a + b) - (b + c) = a - c
  OBVIOUS
<1> QED  BY <1>1, <1>2 DEF Turns

\* The signed difference of two ticks is that of the times, if these are near enough.
LEMMA DifferenceIs ==
    ASSUME NEW a \in Int, NEW b \in Int, NEW x \in Int, Turns(a - b, x),
           2 * x < Wrap, -(2 * x) < Wrap
    PROVE  Difference(a, b) = x
<1> DEFINE d == (a - b) % Wrap
<1>1. d \in 0 .. Wrap - 1 /\ Turns(d, a - b) /\ d \in Int
  BY Remainder, Constants
<1>2. Turns(d, x)
  BY <1>1, TurnsTrans
<1>3. Difference(a, b) = IF 2 * d >= Wrap THEN d - Wrap ELSE d
  BY DEF Difference
<1> HIDE DEF d
<1>4. CASE 2 * d >= Wrap
  <2>1. Turns(d - Wrap, x)
    <3>1. PICK k \in Int : d - x = k * Wrap
      BY <1>2 DEF Turns
    <3>2. (d - Wrap) - x = (k - 1) * Wrap
      BY <1>1, <3>1, Constants
    <3> QED  BY <3>2 DEF Turns
  <2>2. d - Wrap \in Int /\ (d - Wrap) - x < Wrap /\ x - (d - Wrap) < Wrap
    BY <1>1, <1>4, Constants
  <2>3. d - Wrap = x
    BY <2>1, <2>2, SameTurn
  <2> QED  BY <1>3, <1>4, <2>3
<1>5. CASE ~(2 * d >= Wrap)
  <2>1. d - x < Wrap /\ x - d < Wrap
    BY <1>1, <1>5, Constants
  <2>2. d = x
    BY <1>1, <1>2, <2>1, SameTurn
  <2> QED  BY <1>3, <1>5, <2>2
<1> QED  BY <1>4, <1>5

-------------------------------------------------------------------------------
(* Lists. *)

Less == {p \in Nat \X Nat : p[1] < p[2]}

\* A set of natural numbers that is not empty has a least one.
LEMMA Least ==
    ASSUME NEW T \in SUBSET Nat, T # {}
    PROVE  \E m \in T : \A k \in T : m <= k
<1>1. IsWellFoundedOn(Less, Nat)
  BY NatLessThanWellFounded DEF OpToRel, Less
<1>2. PICK m \in T : \A k \in T : ~(<<k, m>> \in Less)
  BY <1>1, WFMin, Zenon
<1>3. ASSUME NEW k \in T, k < m PROVE FALSE
  <2>1. <<k, m>> \in Less
    BY <1>3 DEF Less
  <2> QED  BY <2>1, <1>2
<1>4. \A k \in T : m <= k
  BY <1>3
<1> QED  BY <1>4

\* A walk comes to the places from the head to the first where it does not go on.
LEMMA WalkIs ==
    ASSUME NEW q, NEW S \in SUBSET Threads, NEW n \in Nat, NEW f \in [0 .. n -> Places],
           IsList(q, n, f, S), NEW Goes \in SUBSET Places, NEW m \in 0 .. n,
           \A i \in 0 .. m - 1 : f[i] \in Goes, m = n \/ f[m] \notin Goes
    PROVE  Walked(q, Goes) = {f[i] : i \in 0 .. m}
<1> DEFINE V == {f[i] : i \in 0 .. m}
           Closed(C) == HEAD \in C /\ \A p \in C \cap Goes : At(q, p) # NULL => At(q, p) \in C
<1>1. V \in SUBSET Places
  OBVIOUS
<1>2. Closed(V)
  <2>1. HEAD \in V
    BY DEF IsList
  <2>2. ASSUME NEW p \in V \cap Goes, At(q, p) # NULL PROVE At(q, p) \in V
    <3>1. PICK i \in 0 .. m : p = f[i]
      OBVIOUS
    <3>2. i # m
      BY <2>2, <3>1 DEF IsList
    <3>3. i + 1 \in 0 .. m /\ i \in 0 .. n - 1
      BY <3>2
    <3>4. At(q, p) = f[i + 1]
      BY <3>1, <3>3 DEF IsList
    <3> QED  BY <3>3, <3>4
  <2> QED  BY <2>1, <2>2
<1>3. ASSUME NEW C \in SUBSET Places, Closed(C) PROVE V \subseteq C
  <2> DEFINE Bad == {i \in 0 .. m : f[i] \notin C}
  <2>1. SUFFICES ASSUME Bad # {} PROVE FALSE
    OBVIOUS
  <2>2. Bad \in SUBSET Nat
    OBVIOUS
  <2>3. PICK b \in Bad : \A k \in Bad : b <= k
    <3> HIDE DEF Bad
    <3> QED  BY <2>1, <2>2, Least
  <2>4. b # 0
    BY <1>3, <2>3 DEF IsList
  <2>5. b - 1 \in 0 .. m - 1 /\ b - 1 \in 0 .. n - 1 /\ b - 1 \notin Bad /\ b \in 1 .. n
    BY <2>3, <2>4
  <2>6. f[b - 1] \in C \cap Goes /\ At(q, f[b - 1]) = f[b]
    <3>1. At(q, f[b - 1]) = f[(b - 1) + 1]
      BY <2>5 DEF IsList
    <3> QED  BY <2>5, <3>1
  <2>7. f[b] \in S /\ f[b] # NULL
    BY <2>5, Constants DEF IsList
  <2>8. f[b] \in C
    BY <1>3, <2>6, <2>7
  <2> QED  BY <2>3, <2>8
<1>4. \A p \in V : \A C \in SUBSET Places : Closed(C) => p \in C
  BY <1>3
<1>5. \A p \in Places : (\A C \in SUBSET Places : Closed(C) => p \in C) => p \in V
  BY <1>1, <1>2
<1>6. Walked(q, Goes) = {p \in Places : \A C \in SUBSET Places : Closed(C) => p \in C}
  BY DEF Walked
<1> HIDE DEF V, Closed
<1>7. Walked(q, Goes) = V
  BY <1>1, <1>4, <1>5, <1>6
<1> QED  BY <1>7 DEF V

\* A walk ends at the place m.
EndsAt(q, f, Goes, m) ==
    /\ f[m] \notin Goes /\ \A i \in 0 .. m - 1 : f[i] \in Goes
    /\ Walked(q, Goes) = {f[i] : i \in 0 .. m}
    /\ \A p \in Walked(q, Goes) : p \notin Goes <=> p = f[m]

\* Where a walk ends that goes on only where an operation follows.
LEMMA WalkEnds ==
    ASSUME NEW q, NEW S \in SUBSET Threads, NEW n \in Nat, NEW f \in [0 .. n -> Places],
           IsList(q, n, f, S), NEW Goes \in SUBSET Places, \A p \in Goes : At(q, p) # NULL
    PROVE  \E m \in 0 .. n : EndsAt(q, f, Goes, m)
<1> DEFINE Stops == {i \in 0 .. n : f[i] \notin Goes}
<1>1. n \in Stops /\ Stops \in SUBSET Nat
  BY DEF IsList
<1>2. PICK m \in Stops : \A k \in Stops : m <= k
  <2> HIDE DEF Stops
  <2> QED  BY <1>1, Least
<1>3. m \in 0 .. n /\ f[m] \notin Goes /\ \A i \in 0 .. m - 1 : f[i] \in Goes
  <2>1. m \in 0 .. n /\ f[m] \notin Goes
    BY <1>2
  <2>2. ASSUME NEW i \in 0 .. m - 1 PROVE f[i] \in Goes
    <3>1. i \in 0 .. n /\ ~(m <= i)
      BY <2>1
    <3> QED  BY <1>2, <3>1
  <2> QED  BY <2>1, <2>2
<1> HIDE DEF Stops
<1>4. Walked(q, Goes) = {f[i] : i \in 0 .. m}
  BY <1>3, WalkIs
<1>5. \A p \in Walked(q, Goes) : p \notin Goes <=> p = f[m]
  <2>1. ASSUME NEW p \in Walked(q, Goes), p \notin Goes PROVE p = f[m]
    <3>1. PICK i \in 0 .. m : p = f[i]
      BY <1>4
    <3>2. i = m
      BY <1>3, <2>1, <3>1
    <3> QED  BY <3>1, <3>2
  <2> QED  BY <1>3, <2>1
<1> QED  BY <1>3, <1>4, <1>5 DEF EndsAt

\* An operation is put into a list.
Longer(n, f, m, t) ==
    [i \in 0 .. n + 1 |-> IF i <= m THEN f[i] ELSE IF i = m + 1 THEN t ELSE f[i - 1]]

LEMMA ListInsert ==
    ASSUME NEW q, NEW r, NEW S \in SUBSET Threads, NEW n \in Nat, NEW f \in [0 .. n -> Places],
           IsList(q, n, f, S), NEW t \in Threads \ S, NEW m \in 0 .. n,
           \A x \in Places : At(r, x) = IF x = f[m] THEN t
                                        ELSE IF x = t THEN At(q, f[m]) ELSE At(q, x)
    PROVE  /\ n + 1 \in Nat /\ Longer(n, f, m, t) \in [0 .. n + 1 -> Places]
           /\ IsList(r, n + 1, Longer(n, f, m, t), S \cup {t})
<1> DEFINE g == Longer(n, f, m, t)
           G(i) == IF i <= m THEN f[i] ELSE IF i = m + 1 THEN t ELSE f[i - 1]
<1>0. \A i \in 0 .. n : f[i] # t
  <2>1. f[0] # t
    BY Constants DEF IsList
  <2>2. \A i \in 1 .. n : f[i] # t
    BY DEF IsList
  <2> QED  BY <2>1, <2>2
<1>1. g \in [0 .. n + 1 -> Places]
  <2>1. \A i \in 0 .. n + 1 : G(i) \in Places
    <3> SUFFICES ASSUME NEW i \in 0 .. n + 1 PROVE G(i) \in Places
      OBVIOUS
    <3>1. CASE i <= m
      <4>1. i \in 0 .. n
        BY <3>1
      <4> QED  BY <3>1, <4>1
    <3>2. CASE i = m + 1
      BY <3>2 DEF Places
    <3>3. CASE i > m + 1
      <4>1. i - 1 \in 0 .. n
        BY <3>3
      <4> QED  BY <3>3, <4>1
    <3> QED  BY <3>1, <3>2, <3>3
  <2> QED  BY <2>1 DEF Longer
<1>2. \A i \in 0 .. n + 1 : /\ i <= m => g[i] = f[i]
                            /\ i = m + 1 => g[i] = t
                            /\ i > m + 1 => g[i] = f[i - 1]
  BY DEF Longer
<1> HIDE DEF g
<1>3. g[0] = HEAD
  BY <1>2 DEF IsList
<1>4. \A i \in 1 .. n + 1 : g[i] \in S \cup {t}
  <2> SUFFICES ASSUME NEW i \in 1 .. n + 1 PROVE g[i] \in S \cup {t}
    OBVIOUS
  <2>1. CASE i <= m
    <3>1. i \in 1 .. n
      BY <2>1
    <3> QED  BY <1>2, <2>1, <3>1 DEF IsList
  <2>2. CASE i = m + 1
    BY <1>2, <2>2
  <2>3. CASE i > m + 1
    <3>1. i - 1 \in 1 .. n
      BY <2>3
    <3> QED  BY <1>2, <2>3, <3>1 DEF IsList
  <2> QED  BY <2>1, <2>2, <2>3
<1>5. \A u \in S \cup {t} : \E i \in 1 .. n + 1 : g[i] = u
  <2> SUFFICES ASSUME NEW u \in S \cup {t} PROVE \E i \in 1 .. n + 1 : g[i] = u
    OBVIOUS
  <2>1. CASE u = t
    <3>1. m + 1 \in 1 .. n + 1 /\ g[m + 1] = t
      BY <1>2
    <3> QED  BY <2>1, <3>1
  <2>2. CASE u \in S
    <3>1. PICK i \in 1 .. n : f[i] = u
      BY <2>2 DEF IsList
    <3>2. CASE i <= m
      BY <1>2, <3>1, <3>2
    <3>3. CASE i > m
      <4>1. i + 1 \in 1 .. n + 1 /\ i + 1 > m + 1 /\ (i + 1) - 1 = i
        BY <3>3
      <4>2. g[i + 1] = f[i]
        BY <1>2, <4>1
      <4> QED  BY <3>1, <4>1, <4>2
    <3> QED  BY <3>2, <3>3
  <2> QED  BY <2>1, <2>2
<1>6. \A i, j \in 0 .. n + 1 : g[i] = g[j] => i = j
  <2> SUFFICES ASSUME NEW i \in 0 .. n + 1, NEW j \in 0 .. n + 1, g[i] = g[j] PROVE i = j
    OBVIOUS
  <2> DEFINE a == IF i <= m THEN i ELSE i - 1
             b == IF j <= m THEN j ELSE j - 1
  <2>1. /\ i # m + 1 => a \in 0 .. n /\ g[i] = f[a]
        /\ j # m + 1 => b \in 0 .. n /\ g[j] = f[b]
    BY <1>2
  <2>2. i = m + 1 => g[i] = t
    BY <1>2
  <2>3. j = m + 1 => g[j] = t
    BY <1>2
  <2>4. CASE i = m + 1 \/ j = m + 1
    <3> HIDE DEF a, b
    <3> QED  BY <1>0, <2>1, <2>2, <2>3, <2>4
  <2>5. CASE i # m + 1 /\ j # m + 1
    <3>1. a = b
      <4> HIDE DEF a, b
      <4> QED  BY <2>1, <2>5 DEF IsList
    <3> QED  BY <2>5, <3>1
  <2> QED  BY <2>4, <2>5
<1>7. \A i \in 0 .. n : At(r, g[i]) = g[i + 1]
  <2> SUFFICES ASSUME NEW i \in 0 .. n PROVE At(r, g[i]) = g[i + 1]
    OBVIOUS
  <2>0. t \in Places
    BY DEF Places
  <2>1. CASE i < m
    <3>1. g[i] = f[i] /\ g[i + 1] = f[i + 1] /\ i \in 0 .. n - 1 /\ f[i] \in Places
      BY <1>2, <2>1
    <3>2. f[i] # f[m] /\ f[i] # t
      BY <1>0, <2>1 DEF IsList
    <3> QED  BY <3>1, <3>2 DEF IsList
  <2>2. CASE i = m
    <3>1. g[i] = f[m] /\ g[i + 1] = t
      BY <1>2, <2>2
    <3> QED  BY <3>1
  <2>3. CASE i = m + 1
    <3>1. g[i] = t /\ g[i + 1] = f[i] /\ m \in 0 .. n - 1
      <4>1. i + 1 \in 0 .. n + 1 /\ i + 1 > m + 1 /\ (i + 1) - 1 = i
        BY <2>3
      <4> QED  BY <1>2, <2>3, <4>1
    <3>2. At(r, t) = At(q, f[m])
      BY <1>0, <2>0
    <3>3. At(q, f[m]) = f[m + 1]
      BY <3>1 DEF IsList
    <3> QED  BY <2>3, <3>1, <3>2, <3>3
  <2>4. CASE i > m + 1
    <3>1. g[i] = f[i - 1] /\ g[i + 1] = f[i] /\ i - 1 \in 0 .. n - 1 /\ (i - 1) + 1 = i
      <4>1. i + 1 \in 0 .. n + 1 /\ i + 1 > m + 1 /\ (i + 1) - 1 = i
        BY <2>4
      <4> QED  BY <1>2, <2>4, <4>1
    <3>2. f[i - 1] # f[m] /\ f[i - 1] # t /\ f[i - 1] \in Places
      BY <1>0, <2>4, <3>1 DEF IsList
    <3>3. At(q, f[i - 1]) = f[i]
      BY <3>1 DEF IsList
    <3> QED  BY <3>1, <3>2, <3>3
  <2> QED  BY <2>1, <2>2, <2>3, <2>4
<1>8. At(r, g[n + 1]) = NULL
  <2>0. At(q, f[n]) = NULL /\ t \in Places
    BY DEF IsList, Places
  <2>1. CASE m = n
    <3>1. g[n + 1] = t
      BY <1>2, <2>1
    <3> QED  BY <1>0, <2>0, <2>1, <3>1
  <2>2. CASE m < n
    <3>1. g[n + 1] = f[n]
      BY <1>2, <2>2
    <3>2. f[n] # f[m] /\ f[n] # t
      BY <1>0, <2>2 DEF IsList
    <3> QED  BY <2>0, <3>1, <3>2
  <2> QED  BY <2>1, <2>2
<1>9. n + 1 \in Nat /\ (n + 1) - 1 = n
  OBVIOUS
<1>10. IsList(r, n + 1, g, S \cup {t})
  BY <1>1, <1>3, <1>4, <1>5, <1>6, <1>7, <1>8, <1>9 DEF IsList
<1> QED  BY <1>1, <1>9, <1>10 DEF g

\* The operations in front are taken from a list.
Front(f, m) == {f[i] : i \in 1 .. m}

Dropped(q, r, S, f, m) ==
    /\ At(r, HEAD) = At(q, f[m])
    /\ \A t \in S \ Front(f, m) : At(r, t) = At(q, t)
Shorter(n, f, m) == [i \in 0 .. n - m |-> IF i = 0 THEN HEAD ELSE f[m + i]]

LEMMA ListDrop ==
    ASSUME NEW q, NEW r, NEW S \in SUBSET Threads, NEW n \in Nat, NEW f \in [0 .. n -> Places],
           IsList(q, n, f, S), NEW m \in 0 .. n,
           Dropped(q, r, S, f, m)
    PROVE  /\ n - m \in Nat /\ Shorter(n, f, m) \in [0 .. n - m -> Places]
           /\ IsList(r, n - m, Shorter(n, f, m), S \ Front(f, m))
<1> DEFINE g == Shorter(n, f, m)
           D == Front(f, m)
<1>a. At(r, HEAD) = At(q, f[m]) /\ \A t \in S \ D : At(r, t) = At(q, t)
  BY DEF Dropped
<1>0. n - m \in Nat /\ (\A i \in 1 .. n - m : m + i \in 1 .. n)
  OBVIOUS
<1>1. g \in [0 .. n - m -> Places]
  BY <1>0 DEF Shorter, Places, IsList
<1>2. g[0] = HEAD /\ \A i \in 1 .. n - m : g[i] = f[m + i]
  BY DEF Shorter
<1> HIDE DEF g
<1>3. \A i \in 1 .. n - m : g[i] \in S \ D
  <2> SUFFICES ASSUME NEW i \in 1 .. n - m PROVE f[m + i] \in S \ D
    BY <1>2
  <2>1. f[m + i] \in S
    BY <1>0 DEF IsList
  <2>2. \A j \in 1 .. m : f[j] # f[m + i]
    <3> SUFFICES ASSUME NEW j \in 1 .. m PROVE f[j] # f[m + i]
      OBVIOUS
    <3>1. j \in 0 .. n /\ m + i \in 0 .. n /\ j # m + i
      BY <1>0
    <3> QED  BY <3>1 DEF IsList
  <2> QED  BY <2>1, <2>2 DEF Front
<1>4. \A t \in S \ D : \E i \in 1 .. n - m : g[i] = t
  <2> SUFFICES ASSUME NEW t \in S \ D PROVE \E i \in 1 .. n - m : g[i] = t
    OBVIOUS
  <2>1. PICK j \in 1 .. n : f[j] = t
    BY DEF IsList
  <2>2. ~(j <= m)
    BY <2>1 DEF Front
  <2>3. j - m \in 1 .. n - m /\ m + (j - m) = j
    BY <2>2
  <2>4. g[j - m] = t
    BY <1>2, <2>1, <2>3
  <2> QED  BY <2>3, <2>4
<1>5. \A i, j \in 0 .. n - m : g[i] = g[j] => i = j
  <2> SUFFICES ASSUME NEW i \in 0 .. n - m, NEW j \in 0 .. n - m, g[i] = g[j] PROVE i = j
    OBVIOUS
  <2>1. \A k \in 1 .. n - m : g[k] # HEAD
    BY <1>3, Constants
  <2>2. CASE i = 0 \/ j = 0
    BY <1>2, <2>1, <2>2
  <2>3. CASE i # 0 /\ j # 0
    <3>1. f[m + i] = f[m + j] /\ m + i \in 0 .. n /\ m + j \in 0 .. n
      BY <1>2, <2>3
    <3>2. m + i = m + j
      BY <3>1 DEF IsList
    <3> QED  BY <3>2
  <2> QED  BY <2>2, <2>3
<1>6. \A i \in 0 .. (n - m) - 1 : At(r, g[i]) = g[i + 1]
  <2> SUFFICES ASSUME NEW i \in 0 .. (n - m) - 1 PROVE At(r, g[i]) = g[i + 1]
    OBVIOUS
  <2>1. m + i \in 0 .. n - 1 /\ i + 1 \in 1 .. n - m /\ m + (i + 1) = (m + i) + 1
    OBVIOUS
  <2>2. At(q, f[m + i]) = f[m + (i + 1)] /\ g[i + 1] = f[m + (i + 1)]
    BY <1>2, <2>1 DEF IsList
  <2>3. CASE i = 0
    BY <1>a, <1>2, <2>2, <2>3
  <2>4. CASE i # 0
    <3>1. i \in 1 .. n - m
      BY <2>4
    <3>2. g[i] = f[m + i] /\ g[i] \in S \ D
      BY <1>2, <1>3, <3>1
    <3> QED  BY <1>a, <2>2, <3>2
  <2> QED  BY <2>3, <2>4
<1>7. At(r, g[n - m]) = NULL
  <2>0. At(q, f[n]) = NULL
    BY DEF IsList
  <2>1. CASE n = m
    BY <1>a, <1>2, <2>0, <2>1
  <2>2. CASE n # m
    <3>1. n - m \in 1 .. n - m /\ m + (n - m) = n
      BY <2>2
    <3>2. g[n - m] = f[n] /\ g[n - m] \in S \ D
      BY <1>2, <1>3, <3>1
    <3> QED  BY <1>a, <2>0, <3>2
  <2> QED  BY <2>1, <2>2
<1>8. IsList(r, n - m, g, S \ D)
  BY <1>0, <1>1, <1>2, <1>3, <1>4, <1>5, <1>6, <1>7 DEF IsList
<1> QED  BY <1>0, <1>1, <1>8 DEF g

-------------------------------------------------------------------------------
(* The steps of the list. *)

\* The operations after which an insertion does not go on are due later.
LEMMA BeforeIs ==
    ASSUME Types, Times, NEW msec \in 1 .. MaxSleep, NEW op \in asleep
    PROVE  Difference((tick + msec) % Wrap, queue.target[op]) = msec - left[op]
<1> DEFINE target == (tick + msec) % Wrap
<1>1. /\ target \in Int /\ Turns(target, tick + msec) /\ tick \in Int
      /\ queue.target[op] \in Int /\ left[op] \in Int /\ msec \in Int
      /\ left[op] \in -MaxLate .. MaxSleep
      /\ Turns(queue.target[op], tick + left[op])
  BY Remainder, Constants DEF Types, Times
<1> HIDE DEF target
<1>2. Turns(target - queue.target[op], (tick + msec) - (tick + left[op]))
  <2>1. tick + msec \in Int /\ tick + left[op] \in Int
    BY <1>1
  <2> QED  BY <1>1, <2>1, TurnsAdd
<1>3. (tick + msec) - (tick + left[op]) = msec - left[op] /\ msec - left[op] \in Int
  BY <1>1
<1>4. 2 * (msec - left[op]) < Wrap /\ -(2 * (msec - left[op])) < Wrap
  BY <1>1, Constants
<1>5. Difference(target, queue.target[op]) = msec - left[op]
  BY <1>1, <1>2, <1>3, <1>4, DifferenceIs
<1> QED  BY <1>5 DEF target

\* The handler wakes those who have two ticks left, or less.
LEMMA DueIs ==
    ASSUME Types, Times, NEW op \in asleep
    PROVE  Difference(queue.target[op], tick) = left[op]
<1>1. /\ tick \in Int /\ queue.target[op] \in Int /\ left[op] \in Int
      /\ left[op] \in -MaxLate .. MaxSleep
      /\ Turns(queue.target[op], tick + left[op])
  BY Constants DEF Types, Times
<1>2. Turns(queue.target[op] - tick, (tick + left[op]) - tick)
  <2>1. tick + left[op] \in Int /\ Turns(tick, tick)
    BY <1>1, TurnsRefl
  <2> QED  BY <1>1, <2>1, TurnsAdd
<1>3. (tick + left[op]) - tick = left[op]
  BY <1>1
<1>4. 2 * left[op] < Wrap /\ -(2 * left[op]) < Wrap
  BY <1>1, Constants
<1> QED  BY <1>1, <1>2, <1>3, <1>4, DifferenceIs

\* The fields of the list after an insertion.
LEMMA InsertedIs ==
    ASSUME Types, NEW t \in Threads, NEW target, NEW p \in Places, p # t,
           InsertAt(queue, target) = p
    PROVE  Inserted(queue, t, target) =
             [head |-> IF p = HEAD THEN t ELSE queue.head,
              next |-> [u \in Threads |-> IF u = p THEN t
                                          ELSE IF u = t THEN At(queue, p) ELSE queue.next[u]],
              ref |-> [queue.ref EXCEPT ![t] = p],
              target |-> [queue.target EXCEPT ![t] = target]]
<1> DEFINE hd == queue.head
           N == queue.next
           R == queue.ref
           T == queue.target
           b == At(queue, p)
           q1 == [head |-> hd, next |-> N, ref |-> R, target |-> T]
           N2 == [N EXCEPT ![t] = b]
           q2 == [head |-> hd, next |-> N2, ref |-> [R EXCEPT ![t] = p],
                  target |-> [T EXCEPT ![t] = target]]
<1>1. queue = q1 /\ N \in [Threads -> Ops]
  BY DEF Types
<1>2. Inserted(queue, t, target)
        = Write([queue EXCEPT !.target[t] = target, !.ref[t] = p, !.next[t] = b], p, t)
  BY DEF Inserted
<1> HIDE DEF hd, N, R, T, b
<1>3. [q1 EXCEPT !.target[t] = target, !.ref[t] = p, !.next[t] = b] = q2
  <2> DEFINE T2 == [T EXCEPT ![t] = target]
             R2 == [R EXCEPT ![t] = p]
             a1 == [head |-> hd, next |-> N, ref |-> R, target |-> T2]
             a2 == [head |-> hd, next |-> N, ref |-> R2, target |-> T2]
  <2>1. [q1 EXCEPT !.target[t] = target] = a1
    OBVIOUS
  <2>2. [a1 EXCEPT !.ref[t] = p] = a2
    OBVIOUS
  <2>3. [a2 EXCEPT !.next[t] = b] = q2
    OBVIOUS
  <2> HIDE DEF T2, R2, a1, a2, q1, q2, N2
  <2>4. [q1 EXCEPT !.target[t] = target, !.ref[t] = p, !.next[t] = b]
          = [[[q1 EXCEPT !.target[t] = target] EXCEPT !.ref[t] = p] EXCEPT !.next[t] = b]
    BY Zenon
  <2> QED  BY <2>1, <2>2, <2>3, <2>4, Zenon
<1>4. Inserted(queue, t, target) = Write(q2, p, t)
  BY <1>1, <1>2, <1>3
<1>5. CASE p = HEAD
  <2>1. [u \in Threads |-> IF u = p THEN t ELSE IF u = t THEN b ELSE N[u]] = N2
    BY <1>1, <1>5, Constants
  <2>2. Write(q2, p, t) = [head |-> t, next |-> N2, ref |-> [R EXCEPT ![t] = p],
                           target |-> [T EXCEPT ![t] = target]]
    BY <1>5 DEF Write
  <2> QED  BY <1>4, <1>5, <2>1, <2>2 DEF hd, N, R, T, b
<1>6. CASE p # HEAD
  <2>1. p \in Threads
    BY <1>6 DEF Places
  <2>2. [u \in Threads |-> IF u = p THEN t ELSE IF u = t THEN b ELSE N[u]]
          = [N2 EXCEPT ![p] = t]
    BY <1>1, <2>1
  <2>3. Write(q2, p, t) = [head |-> hd, next |-> [N2 EXCEPT ![p] = t],
                           ref |-> [R EXCEPT ![t] = p],
                           target |-> [T EXCEPT ![t] = target]]
    BY <1>6 DEF Write
  <2> QED  BY <1>4, <1>6, <2>2, <2>3 DEF hd, N, R, T, b
<1> QED  BY <1>5, <1>6

\* A thread that goes to sleep comes between those due before and those due later.
LEMMA SleepStep ==
    ASSUME IInv, ~Company, NEW t \in Threads, NEW msec \in 1 .. MaxSleep, Sleep(t, msec)
    PROVE  IInv'
<1> DEFINE target == (tick + msec) % Wrap
           p == InsertAt(queue, target)
           bef == Before(queue, target)
<1>0. /\ t \notin asleep /\ objects = {} /\ Types /\ Times
      /\ queue' = Inserted(queue, t, target)
      /\ alarm' = Rearmed(p, msec)
      /\ asleep' = asleep \cup {t} /\ left' = [left EXCEPT ![t] = msec]
      /\ UNCHANGED <<tick, pending>>
      /\ objects' = objects \/ (asleep = {} /\ objects' = objects \cup {t})
  BY DEF Sleep, IInv
<1>1. target \in 0 .. Wrap - 1 /\ Turns(target, tick + msec)
  <2>1. tick + msec \in Int
    BY <1>0, Constants DEF Types
  <2> QED  BY <2>1, Remainder
<1>2a. PICK n \in Nat : \E f \in [0 .. n -> Places] :
          IsList(queue, n, f, asleep) /\ IsSorted(n, f, left)
  BY DEF IInv, SortedList
<1>2. PICK f \in [0 .. n -> Places] :
         IsList(queue, n, f, asleep) /\ IsSorted(n, f, left)
  BY <1>2a
<1>3. asleep \in SUBSET Threads /\ t \in Threads \ asleep
  BY <1>0 DEF Types
<1>4. bef \in SUBSET Places /\ \A x \in bef : At(queue, x) # NULL
  BY DEF Before
<1>5. PICK m \in 0 .. n : /\ f[m] \notin bef /\ (\A i \in 0 .. m - 1 : f[i] \in bef)
                          /\ p = f[m]
  <2>0. IsList(queue, n, f, asleep) /\ asleep \in SUBSET Threads
    BY <1>2, <1>3
  <2>1. PICK m \in 0 .. n : EndsAt(queue, f, bef, m)
    <3>1. bef \in SUBSET Places
      BY <1>4
    <3>2. \A x \in bef : At(queue, x) # NULL
      BY <1>4
    <3> HIDE DEF bef, p, target
    <3> QED  BY <2>0, <3>1, <3>2, WalkEnds
  <2>2. f[m] \in Walked(queue, bef) /\ \A x \in Walked(queue, bef) : x \notin bef <=> x = f[m]
    BY <2>1 DEF EndsAt
  <2>3. (CHOOSE x \in Walked(queue, bef) : x \notin bef) = f[m]
    BY <2>2
  <2> QED  BY <2>1, <2>3 DEF InsertAt, EndsAt
<1>6. p \in Places /\ p # t /\ (p = HEAD <=> m = 0)
  <2>1. f[m] # t
    BY <1>2, <1>3, Constants DEF IsList
  <2>2. f[m] = HEAD <=> m = 0
    BY <1>2 DEF IsList
  <2> QED  BY <1>5, <2>1, <2>2
<1> HIDE DEF p, target
<1>7. queue' = [head |-> IF p = HEAD THEN t ELSE queue.head,
                next |-> [u \in Threads |-> IF u = p THEN t
                                            ELSE IF u = t THEN At(queue, p) ELSE queue.next[u]],
                ref |-> [queue.ref EXCEPT ![t] = p],
                target |-> [queue.target EXCEPT ![t] = target]]
  <2>1. InsertAt(queue, target) = p
    BY DEF p
  <2> QED  BY <1>0, <1>3, <1>6, <2>1, InsertedIs
<1>8. /\ queue'.head = IF p = HEAD THEN t ELSE queue.head
      /\ queue'.next = [u \in Threads |-> IF u = p THEN t
                                          ELSE IF u = t THEN At(queue, p) ELSE queue.next[u]]
      /\ queue'.ref = [queue.ref EXCEPT ![t] = p]
      /\ queue'.target = [queue.target EXCEPT ![t] = target]
      /\ queue' = [head |-> queue'.head, next |-> queue'.next,
                   ref |-> queue'.ref, target |-> queue'.target]
  BY <1>7
<1>9. At(queue, p) \in Ops
  BY <1>0, <1>6 DEF Types, At, Places
<1>10. Types'
  <2>1. queue'.head \in Ops /\ queue'.next \in [Threads -> Ops]
    BY <1>0, <1>8, <1>9 DEF Types, Ops
  <2>2. queue'.ref \in [Threads -> Refs] /\ queue'.target \in [Threads -> 0 .. Wrap - 1]
    BY <1>0, <1>1, <1>6, <1>8 DEF Types, Refs
  <2>3. asleep' \in SUBSET Threads /\ objects' \in SUBSET asleep' /\ left' \in [Threads -> Int]
    BY <1>0 DEF Types
  <2>4. alarm' \in 0 .. MaxSleep \cup {NULL}
    BY <1>0 DEF Types, Rearmed
  <2> QED  BY <1>0, <1>8, <2>1, <2>2, <2>3, <2>4 DEF Types
<1>11. Times'
  <2>1. \A u \in asleep : left'[u] = left[u] /\ queue'.target[u] = queue.target[u]
    BY <1>0, <1>8 DEF Types
  <2>2. left'[t] = msec /\ queue'.target[t] = target
    BY <1>0, <1>8 DEF Types
  <2>3. msec \in -MaxLate .. MaxSleep
    BY Constants
  <2> QED  BY <1>0, <1>1, <2>1, <2>2, <2>3 DEF Times
<1>12. \A x \in Places : At(queue', x) = IF x = f[m] THEN t
                                         ELSE IF x = t THEN At(queue, f[m]) ELSE At(queue, x)
  BY <1>0, <1>5, <1>6, <1>8, Constants DEF At, Places
<1> DEFINE g == Longer(n, f, m, t)
<1>13. n + 1 \in Nat /\ g \in [0 .. n + 1 -> Places] /\ IsList(queue', n + 1, g, asleep')
  <2>1. IsList(queue, n, f, asleep) /\ asleep \in SUBSET Threads /\ asleep' = asleep \cup {t}
    BY <1>0, <1>2, <1>3
  <2>2. PICK r : r = queue'
    OBVIOUS
  <2>3. \A x \in Places : At(r, x) = IF x = f[m] THEN t
                                     ELSE IF x = t THEN At(queue, f[m]) ELSE At(queue, x)
    BY <1>12, <2>2
  <2>4. /\ n + 1 \in Nat /\ Longer(n, f, m, t) \in [0 .. n + 1 -> Places]
        /\ IsList(r, n + 1, Longer(n, f, m, t), asleep \cup {t})
    BY <2>1, <2>3, <1>3, ListInsert
  <2> QED  BY <2>1, <2>2, <2>4
<1>14. \A i \in 1 .. m : left[f[i]] < msec
  <2> SUFFICES ASSUME NEW i \in 1 .. m PROVE left[f[i]] < msec
    OBVIOUS
  <2>1. f[i - 1] \in bef /\ At(queue, f[i - 1]) = f[i] /\ f[i] \in asleep
    <3>1. i - 1 \in 0 .. m - 1 /\ i - 1 \in 0 .. n - 1 /\ (i - 1) + 1 = i /\ i \in 1 .. n
      OBVIOUS
    <3> QED  BY <1>2, <1>5, <3>1 DEF IsList
  <2>2. Difference(target, queue.target[f[i]]) > 0
    BY <2>1 DEF Before
  <2>3. msec - left[f[i]] > 0 /\ left[f[i]] \in Int
    BY <1>0, <2>1, <2>2, BeforeIs DEF target, Types
  <2> QED  BY <2>3
<1>15. \A i \in m + 1 .. n : msec <= left[f[i]]
  <2> SUFFICES ASSUME NEW i \in m + 1 .. n PROVE msec <= left[f[i]]
    OBVIOUS
  <2>1. m + 1 \in 1 .. n /\ m \in 0 .. n - 1 /\ i \in 1 .. n
    OBVIOUS
  <2>2. At(queue, f[m]) = f[m + 1] /\ f[m + 1] \in asleep /\ f[i] \in asleep
    BY <1>2, <2>1 DEF IsList
  <2>3. f[m] \in Places /\ f[m + 1] # NULL
    BY <1>3, <2>2, Constants
  <2>4. ~(Difference(target, queue.target[f[m + 1]]) > 0)
    BY <1>5, <2>2, <2>3 DEF Before
  <2>5. ~(msec - left[f[m + 1]] > 0) /\ left[f[m + 1]] \in Int /\ left[f[i]] \in Int
    BY <1>0, <2>2, <2>4, BeforeIs DEF target, Types
  <2>6. left[f[m + 1]] <= left[f[i]]
    BY <1>2, <2>1 DEF IsSorted
  <2> QED  BY <2>5, <2>6
<1>16. IsSorted(n + 1, g, left')
  <2> SUFFICES ASSUME NEW i \in 1 .. n + 1, NEW j \in 1 .. n + 1, i <= j
               PROVE  left'[g[i]] <= left'[g[j]]
    BY DEF IsSorted
  <2>1. \A k \in 1 .. n : f[k] \in asleep /\ left'[f[k]] = left[f[k]] /\ left[f[k]] \in Int
    BY <1>0, <1>2 DEF IsList, Types
  <2>2. left'[t] = msec /\ msec \in Int
    BY <1>0 DEF Types
  <2>3. \A k \in 1 .. n + 1 : /\ k <= m => g[k] = f[k]
                              /\ k = m + 1 => g[k] = t
                              /\ k > m + 1 => g[k] = f[k - 1] /\ k - 1 \in m + 1 .. n
    BY DEF Longer
  <2> HIDE DEF g
  <2>4. CASE j <= m
    <3>1. i \in 1 .. n /\ j \in 1 .. n /\ g[i] = f[i] /\ g[j] = f[j]
      BY <2>3, <2>4
    <3>2. left[f[i]] <= left[f[j]]
      BY <1>2, <3>1 DEF IsSorted
    <3> QED  BY <2>1, <3>1, <3>2
  <2>5. CASE j = m + 1
    BY <1>14, <2>1, <2>2, <2>3, <2>5
  <2>6. CASE j > m + 1
    <3>1. g[j] = f[j - 1] /\ j - 1 \in m + 1 .. n /\ j - 1 \in 1 .. n
      BY <2>3, <2>6
    <3>2. CASE i <= m
      <4>1. i \in 1 .. n /\ i <= j - 1
        BY <3>1, <3>2
      <4> QED  BY <1>2, <2>1, <2>3, <3>1, <3>2, <4>1 DEF IsSorted
    <3>3. CASE i = m + 1
      BY <1>15, <2>1, <2>2, <2>3, <3>1, <3>3
    <3>4. CASE i > m + 1
      <4>1. g[i] = f[i - 1] /\ i - 1 \in 1 .. n /\ i - 1 <= j - 1
        BY <2>3, <3>4
      <4> QED  BY <1>2, <2>1, <3>1, <4>1 DEF IsSorted
    <3> QED  BY <3>2, <3>3, <3>4
  <2> QED  BY <2>4, <2>5, <2>6
<1>17. SortedList'
  <2> HIDE DEF g
  <2> QED  BY <1>13, <1>16 DEF SortedList
<1>18. AloneIfObject'
  <2> SUFFICES ASSUME NEW u \in objects' PROVE asleep' = {u} /\ queue'.ref[u] = HEAD
    BY DEF AloneIfObject
  <2>1. asleep = {} /\ u = t
    BY <1>0
  <2>2. n = 0
    BY <1>2, <2>1 DEF IsList
  <2>3. p = HEAD
    BY <1>6, <2>2
  <2>4. queue'.ref[t] = p
    BY <1>0, <1>8 DEF Types
  <2> QED  BY <1>0, <2>1, <2>3, <2>4
<1>19. TimerCovers'
  <2>1. CASE p = HEAD
    <3>1. queue'.head = t /\ alarm' = msec /\ left'[t] = msec
      BY <1>0, <1>8, <2>1 DEF Rearmed, Types
    <3>2. alarm' # NULL /\ alarm' <= left'[queue'.head]
      BY <3>1, Constants
    <3> QED  BY <3>2 DEF TimerCovers
  <2>2. CASE p # HEAD
    <3>1. queue'.head = queue.head /\ alarm' = alarm /\ pending' = pending
      BY <1>0, <1>8, <2>2 DEF Rearmed
    <3>2. queue.head = f[1] /\ f[1] \in asleep
      <4>1. n >= 1
        BY <1>5, <1>6, <2>2
      <4>2. 0 \in 0 .. n - 1 /\ 0 + 1 = 1 /\ 1 \in 1 .. n
        BY <4>1
      <4>3. At(queue, f[0]) = f[1] /\ f[0] = HEAD /\ f[1] \in asleep
        BY <1>2, <4>2 DEF IsList
      <4> QED  BY <4>3 DEF At
    <3>3. left'[queue.head] = left[queue.head]
      BY <1>0, <3>2 DEF Types
    <3> QED  BY <3>1, <3>3 DEF TimerCovers, IInv
  <2> QED  BY <2>1, <2>2
<1> QED  BY <1>10, <1>11, <1>17, <1>18, <1>19 DEF IInv

\* The head of a list.
LEMMA HeadIs ==
    ASSUME NEW q, NEW S, NEW n \in Nat, NEW f \in [0 .. n -> Places], IsList(q, n, f, S)
    PROVE  /\ n = 0 => q.head = NULL
           /\ n # 0 => q.head = f[1] /\ f[1] \in S
<1>1. f[0] = HEAD /\ At(q, f[n]) = NULL
  BY DEF IsList
<1>2. CASE n = 0
  BY <1>1, <1>2 DEF At
<1>3. CASE n # 0
  <2>1. 0 \in 0 .. n - 1 /\ 0 + 1 = 1 /\ 1 \in 1 .. n
    BY <1>3
  <2>2. At(q, f[0]) = f[1] /\ f[1] \in S
    BY <2>1 DEF IsList
  <2> QED  BY <1>1, <1>3, <2>2 DEF At
<1> QED  BY <1>2, <1>3

\* The fields of a list some operations of which are over.
LEMMA GoneIs ==
    ASSUME NEW hd, NEW N, NEW R, NEW G, NEW T
    PROVE  Gone([head |-> hd, next |-> N, ref |-> R, target |-> G], T)
             = [head |-> hd, next |-> [u \in Threads |-> IF u \in T THEN NULL ELSE N[u]],
                ref |-> R, target |-> [u \in Threads |-> IF u \in T THEN 0 ELSE G[u]]]
<1> DEFINE q == [head |-> hd, next |-> N, ref |-> R, target |-> G]
           N2 == [u \in Threads |-> IF u \in T THEN NULL ELSE q.next[u]]
           G2 == [u \in Threads |-> IF u \in T THEN 0 ELSE q.target[u]]
<1>1. Gone(q, T) = [q EXCEPT !.next = N2, !.target = G2]
  BY DEF Gone
<1>2. q.next = N /\ q.target = G
  OBVIOUS
<1> HIDE DEF N2, G2
<1> DEFINE a1 == [head |-> hd, next |-> N2, ref |-> R, target |-> G]
           a2 == [head |-> hd, next |-> N2, ref |-> R, target |-> G2]
<1>3. [q EXCEPT !.next = N2] = a1
  OBVIOUS
<1>4. [a1 EXCEPT !.target = G2] = a2
  OBVIOUS
<1> HIDE DEF q, a1, a2
<1>5. [q EXCEPT !.next = N2, !.target = G2] = [[q EXCEPT !.next = N2] EXCEPT !.target = G2]
  BY Zenon
<1>6. Gone(q, T) = a2
  BY <1>1, <1>3, <1>4, <1>5, Zenon
<1> QED  BY <1>2, <1>6 DEF N2, G2, q, a2

\* A thread whose object is set leaves an empty list behind.
LEMMA AbortStep ==
    ASSUME IInv, NEW t \in Threads, Abort(t)
    PROVE  IInv'
<1>0. /\ t \in objects /\ asleep = {t} /\ queue.ref[t] = HEAD /\ objects = {t}
      /\ queue' = Gone(Aborted(queue, t), {t})
      /\ asleep' = {} /\ objects' = {} /\ left' = [left EXCEPT ![t] = 0]
      /\ tick' = tick /\ alarm' = alarm /\ pending' = pending
      /\ Types
  BY DEF Abort, IInv, AloneIfObject, Types, timerVars
<1>1. queue.next[t] = NULL
  <2>1. PICK n \in Nat : \E f \in [0 .. n -> Places] : IsList(queue, n, f, asleep)
    BY DEF IInv, SortedList
  <2>2. PICK f \in [0 .. n -> Places] : IsList(queue, n, f, asleep)
    BY <2>1
  <2>3. PICK i \in 1 .. n : f[i] = t
    BY <1>0, <2>2 DEF IsList
  <2>4. n \in 1 .. n /\ f[n] = t
    <3>1. n \in 1 .. n
      BY <2>3
    <3> QED  BY <1>0, <2>2, <3>1 DEF IsList
  <2>5. At(queue, t) = NULL
    BY <2>2, <2>4 DEF IsList
  <2> QED  BY <2>5, Constants DEF At
<1> DEFINE ref2 == [r \in Threads |-> IF r = t THEN NULL
                                      ELSE IF r = NULL THEN HEAD ELSE queue.ref[r]]
<1>2. Aborted(queue, t) = [head |-> NULL, next |-> queue.next,
                           ref |-> ref2, target |-> queue.target]
  <2>1. HEAD # NULL
    BY Constants
  <2>2. Write(queue, HEAD, NULL) = [head |-> NULL, next |-> queue.next,
                                    ref |-> queue.ref, target |-> queue.target]
    BY <1>0 DEF Write, Types
  <2> QED  BY <1>0, <1>1, <2>1, <2>2 DEF Aborted
<1> HIDE DEF ref2
<1>3. queue' = [head |-> NULL,
                next |-> [u \in Threads |-> IF u \in {t} THEN NULL ELSE queue.next[u]],
                ref |-> ref2,
                target |-> [u \in Threads |-> IF u \in {t} THEN 0 ELSE queue.target[u]]]
  BY <1>0, <1>2, GoneIs
<1>4. Types'
  <2>1. ref2 \in [Threads -> Refs]
    BY <1>0 DEF ref2, Types, Refs, Places
  <2>2. 0 \in 0 .. Wrap - 1
    BY Constants
  <2>3. queue' = [head |-> queue'.head, next |-> queue'.next,
                  ref |-> queue'.ref, target |-> queue'.target]
    BY <1>3
  <2>4. queue'.head \in Ops /\ queue'.next \in [Threads -> Ops]
    BY <1>0, <1>3 DEF Types, Ops
  <2>5. queue'.ref \in [Threads -> Refs]
    BY <1>3, <2>1
  <2>6. queue'.target \in [Threads -> 0 .. Wrap - 1]
    <3>1. queue.target \in [Threads -> 0 .. Wrap - 1]
      BY <1>0 DEF Types
    <3>2. queue'.target = [u \in Threads |-> IF u \in {t} THEN 0 ELSE queue.target[u]]
      BY <1>3
    <3> QED  BY <2>2, <3>1, <3>2
  <2>7. left' \in [Threads -> Int]
    BY <1>0 DEF Types
  <2> QED  BY <1>0, <2>3, <2>4, <2>5, <2>6, <2>7 DEF Types
<1>5. queue'.head = NULL
  BY <1>3
<1>6. SortedList'
  <2> DEFINE g == [i \in 0 .. 0 |-> HEAD]
  <2>1. 0 \in Nat /\ g \in [0 .. 0 -> Places] /\ g[0] = HEAD
    BY DEF Places
  <2> HIDE DEF g
  <2>2. IsList(queue', 0, g, asleep')
    <3>1. \A i \in 0 .. 0 : i = 0
      OBVIOUS
    <3>2. \A i, j \in 0 .. 0 : g[i] = g[j] => i = j
      BY <3>1
    <3>3. At(queue', g[0]) = NULL
      BY <1>5, <2>1 DEF At
    <3> QED  BY <1>0, <2>1, <3>2, <3>3 DEF IsList
  <2>3. IsSorted(0, g, left')
    BY DEF IsSorted
  <2> QED  BY <2>1, <2>2, <2>3 DEF SortedList
<1> QED  BY <1>0, <1>4, <1>5, <1>6 DEF IInv, Times, AloneIfObject, TimerCovers

\* Time passes for all alike.
LEMMA TickStep ==
    ASSUME IInv, Tick
    PROVE  IInv'
<1>0. /\ \A t \in asleep : left[t] > -MaxLate
      /\ tick' = (tick + 1) % Wrap
      /\ left' = [t \in Threads |-> IF t \in asleep THEN left[t] - 1 ELSE left[t]]
      /\ alarm' = IF alarm \in 1 .. MaxSleep THEN alarm - 1 ELSE alarm
      /\ queue' = queue /\ asleep' = asleep /\ objects' = objects /\ pending' = pending
      /\ Types /\ Times /\ SortedList
  BY DEF Tick, IInv
<1>1. tick' \in 0 .. Wrap - 1 /\ Turns(tick', tick + 1) /\ tick \in Int
  <2>1. tick \in Int /\ tick + 1 \in Int
    BY <1>0, Constants DEF Types
  <2> QED  BY <1>0, <2>1, Remainder
<1>2. \A t \in asleep : t \in Threads /\ left[t] \in Int /\ left'[t] = left[t] - 1
  BY <1>0 DEF Types
<1>3. Types'
  <2>1. left' \in [Threads -> Int]
    BY <1>0 DEF Types
  <2>2. alarm' \in 0 .. MaxSleep \cup {NULL}
    BY <1>0, Constants DEF Types
  <2> QED  BY <1>0, <1>1, <2>1, <2>2 DEF Types
<1>4. Times'
  <2> SUFFICES ASSUME NEW t \in asleep
               PROVE  /\ left'[t] \in -MaxLate .. MaxSleep
                      /\ Turns(queue.target[t], tick' + left'[t])
    BY <1>0 DEF Times
  <2>1. left'[t] \in -MaxLate .. MaxSleep
    BY <1>0, <1>2, Constants DEF Times
  <2>2. PICK a \in Int : a = tick' /\ Turns(a, tick + 1)
    BY <1>1, Constants
  <2>3. PICK l \in Int : l = left[t]
    BY <1>2
  <2>4. PICK g \in Int : g = queue.target[t] /\ Turns(g, tick + l)
    BY <1>0, <1>2, <2>3, Constants DEF Types, Times
  <2>5. Turns(a + (l - 1), (tick + 1) + (l - 1))
    <3>1. tick + 1 \in Int /\ l - 1 \in Int /\ Turns(l - 1, l - 1)
      BY <1>1, <2>3, TurnsRefl
    <3> QED  BY <2>2, <3>1, TurnsAdd
  <2>6. (tick + 1) + (l - 1) = tick + l /\ a + (l - 1) \in Int /\ tick + l \in Int
    BY <1>1, <2>2, <2>3
  <2>7. Turns(tick + l, a + (l - 1))
    BY <2>5, <2>6, TurnsAdd
  <2>8. Turns(g, a + (l - 1))
    BY <2>4, <2>6, <2>7, TurnsTrans
  <2> QED  BY <1>2, <2>1, <2>2, <2>3, <2>4, <2>8
<1>5. PICK n \in Nat : \E f \in [0 .. n -> Places] :
         IsList(queue, n, f, asleep) /\ IsSorted(n, f, left)
  BY <1>0 DEF SortedList
<1>6. PICK f \in [0 .. n -> Places] :
         IsList(queue, n, f, asleep) /\ IsSorted(n, f, left)
  BY <1>5
<1>7. SortedList'
  <2>1. \A i \in 1 .. n : f[i] \in asleep
    BY <1>6 DEF IsList
  <2>2. IsSorted(n, f, left')
    BY <1>2, <1>6, <2>1 DEF IsSorted
  <2>3. IsList(queue', n, f, asleep')
    BY <1>0, <1>6
  <2> QED  BY <2>2, <2>3 DEF SortedList
<1>8. TimerCovers'
  <2>1. queue.head = NULL \/ queue.head \in asleep
    BY <1>6, HeadIs
  <2>2. CASE queue.head = NULL \/ pending
    BY <1>0, <2>2 DEF TimerCovers
  <2>3. CASE queue.head # NULL /\ ~pending
    <3>1. alarm # NULL /\ (alarm = 0 \/ alarm <= left[queue.head])
      BY <2>3 DEF IInv, TimerCovers
    <3>2. left'[queue.head] = left[queue.head] - 1 /\ left[queue.head] \in Int
      BY <1>2, <2>1, <2>3
    <3>3. alarm \in 0 .. MaxSleep
      BY <1>0, <3>1 DEF Types
    <3>4. alarm' # NULL /\ (alarm' = 0 \/ alarm' <= left'[queue.head])
      BY <1>0, <3>1, <3>2, <3>3, Constants
    <3> QED  BY <1>0, <3>4 DEF TimerCovers
  <2> QED  BY <2>2, <2>3
<1> QED  BY <1>0, <1>3, <1>4, <1>7, <1>8 DEF IInv, AloneIfObject

\* The timer strikes.
LEMMA StrikeStep ==
    ASSUME IInv, TimerStrikes
    PROVE  IInv'
<1>0. /\ alarm' = NULL /\ pending' = TRUE /\ tick' = tick
      /\ queue' = queue /\ asleep' = asleep /\ objects' = objects /\ left' = left
  BY DEF TimerStrikes, threadVars
<1>1. Types'
  BY <1>0 DEF IInv, Types
<1>2. SortedList'
  BY <1>0 DEF IInv, SortedList
<1> QED  BY <1>0, <1>1, <1>2 DEF IInv, Times, AloneIfObject, TimerCovers

\* The handler takes the m operations in front from a list of n: those who have two
\* ticks left or less, as the list is sorted.
Takes(n, f, m) ==
    /\ m \in 0 .. n
    /\ Popped(queue, tick) = {f[i] : i \in 1 .. m}
    /\ AfterPop(queue, tick)
         = [head |-> At(queue, f[m]), next |-> queue.next,
            ref |-> [t \in Threads |-> IF t \in {f[i] : i \in 1 .. m} THEN NULL
                                       ELSE queue.ref[t]],
            target |-> queue.target]
    /\ \A i \in 1 .. m : left[f[i]] <= 2
    /\ \A i \in m + 1 .. n : left[f[i]] > 2

LEMMA HandlerTakes ==
    ASSUME Types, Times, NEW n \in Nat, NEW f \in [0 .. n -> Places],
           IsList(queue, n, f, asleep), IsSorted(n, f, left)
    PROVE  \E m \in Nat : Takes(n, f, m)
<1> DEFINE due == Due(queue, tick)
<1>1. asleep \in SUBSET Threads /\ (\A t \in asleep : left[t] \in Int /\ t # NULL)
  BY Constants DEF Types
<1>2. due \in SUBSET Places /\ \A x \in due : At(queue, x) # NULL
  BY DEF Due
<1>3. PICK m \in 0 .. n : EndsAt(queue, f, due, m)
  <2>1. due \in SUBSET Places
    BY <1>2
  <2>2. \A x \in due : At(queue, x) # NULL
    BY <1>2
  <2> HIDE DEF due
  <2> QED  BY <1>1, <2>1, <2>2, WalkEnds
<1>4. \A i \in 0 .. n - 1 : /\ At(queue, f[i]) = f[i + 1] /\ f[i + 1] \in asleep
                            /\ f[i] \in due <=> left[f[i + 1]] <= 2
  <2> SUFFICES ASSUME NEW i \in 0 .. n - 1
               PROVE  /\ At(queue, f[i]) = f[i + 1] /\ f[i + 1] \in asleep
                      /\ f[i] \in due <=> left[f[i + 1]] <= 2
    OBVIOUS
  <2>1. i + 1 \in 1 .. n /\ f[i] \in Places
    OBVIOUS
  <2>2. At(queue, f[i]) = f[i + 1] /\ f[i + 1] \in asleep
    BY <2>1 DEF IsList
  <2>3. Difference(queue.target[f[i + 1]], tick) = left[f[i + 1]]
    BY <2>2, DueIs
  <2> QED  BY <1>1, <2>1, <2>2, <2>3 DEF Due
<1>5. (\A i \in 0 .. m - 1 : f[i] \in due) /\ f[m] \notin due
  <2> HIDE DEF due
  <2> QED  BY <1>3 DEF EndsAt
<1>6. \A i \in 1 .. m : left[f[i]] <= 2
  <2> SUFFICES ASSUME NEW i \in 1 .. m PROVE left[f[i]] <= 2
    OBVIOUS
  <2>1. i - 1 \in 0 .. m - 1 /\ i - 1 \in 0 .. n - 1 /\ (i - 1) + 1 = i
    OBVIOUS
  <2> HIDE DEF due
  <2>2. f[i - 1] \in due /\ (f[i - 1] \in due <=> left[f[(i - 1) + 1]] <= 2)
    BY <1>4, <1>5, <2>1
  <2> QED  BY <2>1, <2>2
<1>7. \A i \in m + 1 .. n : left[f[i]] > 2
  <2> SUFFICES ASSUME NEW i \in m + 1 .. n PROVE left[f[i]] > 2
    OBVIOUS
  <2>1. m \in 0 .. n - 1 /\ m + 1 \in 1 .. n /\ i \in 1 .. n /\ m + 1 <= i
    OBVIOUS
  <2> HIDE DEF due
  <2>2. ~(left[f[m + 1]] <= 2) /\ f[m + 1] \in asleep
    BY <1>4, <1>5, <2>1
  <2>3. left[f[m + 1]] <= left[f[i]] /\ f[i] \in asleep
    BY <2>1 DEF IsSorted, IsList
  <2> QED  BY <1>1, <2>2, <2>3
<1>8. Popped(queue, tick) = {f[i] : i \in 1 .. m}
  <2>1. Walked(queue, due) = {f[i] : i \in 0 .. m}
    <3> HIDE DEF due
    <3> QED  BY <1>3 DEF EndsAt
  <2>2. ASSUME NEW x \in Walked(queue, due) \cap due PROVE At(queue, x) \in {f[i] : i \in 1 .. m}
    <3> HIDE DEF due
    <3>1. PICK i \in 0 .. m : x = f[i]
      BY <2>1
    <3>2. i # m
      BY <1>5, <2>2, <3>1
    <3>3. i \in 0 .. n - 1 /\ i + 1 \in 1 .. m
      BY <3>2
    <3> QED  BY <1>4, <3>1, <3>3
  <2>3. ASSUME NEW j \in 1 .. m
        PROVE  \E x \in Walked(queue, due) \cap due : At(queue, x) = f[j]
    <3> HIDE DEF due
    <3>1. j - 1 \in 0 .. m - 1 /\ j - 1 \in 0 .. m /\ j - 1 \in 0 .. n - 1 /\ (j - 1) + 1 = j
      OBVIOUS
    <3>2. At(queue, f[j - 1]) = f[(j - 1) + 1]
      BY <1>4, <3>1
    <3>3. f[j - 1] \in Walked(queue, due) \cap due
      BY <1>5, <2>1, <3>1
    <3> QED  BY <3>1, <3>2, <3>3
  <2>4. Popped(queue, tick) = {At(queue, x) : x \in Walked(queue, due) \cap due}
    BY DEF Popped
  <2> HIDE DEF due
  <2> QED  BY <2>2, <2>3, <2>4
<1>9. AfterPop(queue, tick)
        = [head |-> At(queue, f[m]), next |-> queue.next,
           ref |-> [t \in Threads |-> IF t \in {f[i] : i \in 1 .. m} THEN NULL
                                      ELSE queue.ref[t]],
           target |-> queue.target]
  <2>1. /\ f[m] \in Walked(queue, due)
        /\ \A x \in Walked(queue, due) : x \notin due <=> x = f[m]
    <3> HIDE DEF due
    <3> QED  BY <1>3 DEF EndsAt
  <2>2. (CHOOSE x \in Walked(queue, due) : x \notin due) = f[m]
    <3> HIDE DEF due
    <3> QED  BY <2>1
  <2> DEFINE D == {f[i] : i \in 1 .. m}
             R2 == [t \in Threads |-> IF t \in D THEN NULL ELSE queue.ref[t]]
             q1 == [head |-> queue.head, next |-> queue.next,
                    ref |-> queue.ref, target |-> queue.target]
             a1 == [head |-> At(queue, f[m]), next |-> queue.next,
                    ref |-> queue.ref, target |-> queue.target]
             a2 == [head |-> At(queue, f[m]), next |-> queue.next,
                    ref |-> R2, target |-> queue.target]
  <2>3. Popped(queue, tick) = D
    BY <1>8
  <2>4. AfterPop(queue, tick) = [queue EXCEPT !.head = At(queue, f[m]), !.ref = R2]
    <3> HIDE DEF D
    <3> QED  BY <2>2, <2>3 DEF AfterPop
  <2>5. queue = q1
    BY DEF Types
  <2> HIDE DEF R2
  <2>6. [q1 EXCEPT !.head = At(queue, f[m])] = a1
    OBVIOUS
  <2>7. [a1 EXCEPT !.ref = R2] = a2
    OBVIOUS
  <2>8. [queue EXCEPT !.head = At(queue, f[m]), !.ref = R2]
          = [[queue EXCEPT !.head = At(queue, f[m])] EXCEPT !.ref = R2]
    BY Zenon
  <2> HIDE DEF q1, a1, a2
  <2>9. [queue EXCEPT !.head = At(queue, f[m])] = a1
    BY <2>5, <2>6
  <2>10. AfterPop(queue, tick) = a2
    BY <2>4, <2>7, <2>8, <2>9
  <2> QED  BY <2>10 DEF a2, R2
<1>10. m \in 0 .. n /\ m \in Nat
  OBVIOUS
<1>11. Takes(n, f, m)
  BY <1>6, <1>7, <1>8, <1>9, <1>10 DEF Takes
<1> QED  BY <1>10, <1>11

\* The handler wakes those in front, and arms the timer for the next of them.
LEMMA HandlerStep ==
    ASSUME IInv, HandlerRuns
    PROVE  /\ IInv'
           /\ \A t \in asleep \ asleep' : left[t] <= 2
           /\ \A t \in asleep' : left[t] > 2
<1>0. Types /\ Times
  BY DEF IInv
<1>1a. PICK n \in Nat : \E f \in [0 .. n -> Places] :
         IsList(queue, n, f, asleep) /\ IsSorted(n, f, left)
  BY DEF IInv, SortedList
<1>1. PICK f \in [0 .. n -> Places] :
         IsList(queue, n, f, asleep) /\ IsSorted(n, f, left)
  BY <1>1a
<1>2. PICK m \in Nat : Takes(n, f, m)
  BY <1>0, <1>1, HandlerTakes
<1> DEFINE D == {f[i] : i \in 1 .. m}
           hd == At(queue, f[m])
           R2 == [t \in Threads |-> IF t \in D THEN NULL ELSE queue.ref[t]]
           rest == [head |-> hd, next |-> queue.next, ref |-> R2, target |-> queue.target]
<1>3. /\ m \in 0 .. n /\ Popped(queue, tick) = D /\ AfterPop(queue, tick) = rest
      /\ \A i \in 1 .. m : left[f[i]] <= 2
      /\ \A i \in m + 1 .. n : left[f[i]] > 2
  BY <1>2 DEF Takes
<1>4. /\ queue' = Gone(AfterPop(queue, tick), Popped(queue, tick))
      /\ asleep' = asleep \ Popped(queue, tick) /\ objects' = objects \ Popped(queue, tick)
      /\ left' = [t \in Threads |-> IF t \in Popped(queue, tick) THEN 0 ELSE left[t]]
      /\ alarm' = Retriggered(AfterPop(queue, tick))
      /\ pending' = FALSE /\ tick' = tick
  BY DEF HandlerRuns
<1>5. D \in SUBSET asleep
  <2>1. \A i \in 1 .. m : i \in 1 .. n
    BY <1>3
  <2> QED  BY <1>1, <2>1 DEF IsList
<1>6. hd \in Ops /\ R2 \in [Threads -> Refs]
  <2>1. f[m] \in Places
    BY <1>1, <1>3
  <2>2. hd \in Ops
    BY <1>0, <2>1 DEF Types, At, Places, Ops
  <2>3. R2 \in [Threads -> Refs]
    BY <1>0 DEF Types, Refs
  <2> QED  BY <2>2, <2>3
<1> HIDE DEF D, hd, R2
<1>7. queue' = [head |-> hd,
                next |-> [u \in Threads |-> IF u \in D THEN NULL ELSE queue.next[u]],
                ref |-> R2,
                target |-> [u \in Threads |-> IF u \in D THEN 0 ELSE queue.target[u]]]
  BY <1>3, <1>4, GoneIs
<1>8. /\ asleep' = asleep \ D /\ objects' = objects \ D
      /\ left' = [t \in Threads |-> IF t \in D THEN 0 ELSE left[t]]
  BY <1>3, <1>4
<1>9. alarm' = IF hd = NULL THEN alarm ELSE (queue.target[hd] - tick) % Wrap
  <2>1. alarm' = Retriggered(rest)
    BY <1>3, <1>4
  <2>2. rest.head = hd /\ rest.target = queue.target
    OBVIOUS
  <2> HIDE DEF rest
  <2> QED  BY <2>1, <2>2 DEF Retriggered
<1> HIDE DEF rest
<1>10. \A t \in asleep \ D : \E i \in m + 1 .. n : t = f[i]
  <2> SUFFICES ASSUME NEW t \in asleep \ D PROVE \E i \in m + 1 .. n : t = f[i]
    OBVIOUS
  <2>1. PICK i \in 1 .. n : f[i] = t
    BY <1>1 DEF IsList
  <2>2. ~(i <= m)
    BY <2>1 DEF D
  <2> QED  BY <1>3, <2>1, <2>2
<1>11. (\A t \in D : left[t] <= 2) /\ \A t \in asleep \ D : left[t] > 2
  BY <1>3, <1>10 DEF D
<1>12. n - m \in Nat /\ Shorter(n, f, m) \in [0 .. n - m -> Places]
       /\ IsList(queue', n - m, Shorter(n, f, m), asleep')
  <2>1. PICK r : r = queue'
    OBVIOUS
  <2>2. At(r, HEAD) = At(queue, f[m])
    BY <1>7, <2>1 DEF At, hd
  <2>3. asleep \in SUBSET Threads
    BY <1>0 DEF Types
  <2>4. \A t \in asleep \ D : At(r, t) = At(queue, t)
    BY <1>7, <2>1, <2>3, Constants DEF At
  <2>5. IsList(queue, n, f, asleep) /\ m \in 0 .. n /\ D = Front(f, m)
    BY <1>1, <1>3 DEF D, Front
  <2>6. Dropped(queue, r, asleep, f, m)
    BY <2>2, <2>4, <2>5 DEF Dropped
  <2>7. /\ n - m \in Nat /\ Shorter(n, f, m) \in [0 .. n - m -> Places]
        /\ IsList(r, n - m, Shorter(n, f, m), asleep \ Front(f, m))
    BY <2>3, <2>5, <2>6, ListDrop
  <2> QED  BY <1>8, <2>1, <2>5, <2>7
<1>13. \A i \in 1 .. n - m : /\ Shorter(n, f, m)[i] = f[m + i] /\ m + i \in m + 1 .. n
                             /\ m + i \in 1 .. n
  BY <1>3 DEF Shorter
<1>14. \A t \in asleep \ D : t \in Threads /\ left[t] \in Int /\ left'[t] = left[t]
  BY <1>0, <1>8 DEF Types
<1>15. IsSorted(n - m, Shorter(n, f, m), left')
  <2> SUFFICES ASSUME NEW i \in 1 .. n - m, NEW j \in 1 .. n - m, i <= j
               PROVE  left'[Shorter(n, f, m)[i]] <= left'[Shorter(n, f, m)[j]]
    BY DEF IsSorted
  <2>1. m + i <= m + j /\ m + i \in 1 .. n /\ m + j \in 1 .. n
    BY <1>3, <1>13
  <2>2. left[f[m + i]] <= left[f[m + j]]
    BY <1>1, <2>1 DEF IsSorted
  <2>3. \A k \in 1 .. n - m : f[m + k] \in asleep \ D
    BY <1>8, <1>12, <1>13 DEF IsList
  <2> QED  BY <1>13, <1>14, <2>2, <2>3
<1>16. SortedList'
  BY <1>12, <1>15 DEF SortedList
<1>17. TimerCovers' /\ alarm' \in 0 .. MaxSleep \cup {NULL}
  <2>1. queue'.head = hd
    BY <1>7
  <2>2. CASE hd = NULL
    BY <1>0, <1>9, <2>1, <2>2 DEF TimerCovers, Types
  <2>3. CASE hd # NULL
    <3>1. hd \in asleep'
      BY <1>12, <2>1, <2>3, HeadIs
    <3>2. hd \in asleep \ D /\ left'[hd] = left[hd] /\ left[hd] > 2
      BY <1>8, <1>11, <1>14, <3>1
    <3>3. /\ left[hd] \in -MaxLate .. MaxSleep /\ Turns(queue.target[hd], tick + left[hd])
          /\ queue.target[hd] \in Int /\ tick \in Int /\ left[hd] \in Int
      BY <1>0, <1>14, <3>2, Constants DEF Times, Types
    <3> DEFINE d == (queue.target[hd] - tick) % Wrap
    <3>4. d \in 0 .. Wrap - 1 /\ Turns(d, queue.target[hd] - tick) /\ d \in Int
      <4>1. PICK a \in Int : a = queue.target[hd] - tick
        BY <3>3
      <4>2. a % Wrap \in 0 .. Wrap - 1 /\ Turns(a % Wrap, a)
        BY Remainder
      <4> QED  BY <4>1, <4>2, Constants
    <3> HIDE DEF d
    <3>5. Turns(d, left[hd])
      <4>1. tick + left[hd] \in Int /\ Turns(tick, tick) /\ queue.target[hd] - tick \in Int
        BY <3>3, TurnsRefl
      <4>2. Turns(queue.target[hd] - tick, (tick + left[hd]) - tick)
        BY <3>3, <4>1, TurnsAdd
      <4>3. (tick + left[hd]) - tick = left[hd]
        BY <3>3
      <4> QED  BY <3>3, <3>4, <4>1, <4>2, <4>3, TurnsTrans
    <3>6. d = left[hd]
      <4>1. d - left[hd] < Wrap /\ left[hd] - d < Wrap
        BY <3>2, <3>3, <3>4, Constants
      <4> QED  BY <3>3, <3>4, <3>5, <4>1, SameTurn
    <3>7. alarm' = left[hd] /\ alarm' # NULL
      BY <1>9, <2>3, <3>3, <3>6, Constants DEF d
    <3>8. alarm' \in 0 .. MaxSleep
      BY <3>2, <3>3, <3>7, Constants
    <3> QED  BY <2>1, <3>2, <3>3, <3>7, <3>8 DEF TimerCovers
  <2> QED  BY <2>2, <2>3
<1>18. Types'
  <2>1. queue' = [head |-> queue'.head, next |-> queue'.next,
                  ref |-> queue'.ref, target |-> queue'.target]
    BY <1>7
  <2>2. queue'.head \in Ops
    BY <1>6, <1>7
  <2>3. queue'.next \in [Threads -> Ops]
    <3>1. queue'.next = [u \in Threads |-> IF u \in D THEN NULL ELSE queue.next[u]]
      BY <1>7
    <3>2. queue.next \in [Threads -> Ops]
      BY <1>0 DEF Types
    <3> QED  BY <3>1, <3>2 DEF Ops
  <2>4. queue'.ref \in [Threads -> Refs]
    BY <1>6, <1>7
  <2>5. queue'.target \in [Threads -> 0 .. Wrap - 1]
    <3>1. queue'.target = [u \in Threads |-> IF u \in D THEN 0 ELSE queue.target[u]]
      BY <1>7
    <3>2. queue.target \in [Threads -> 0 .. Wrap - 1]
      BY <1>0 DEF Types
    <3>3. 0 \in 0 .. Wrap - 1
      BY Constants
    <3> QED  BY <3>1, <3>2, <3>3
  <2>6. asleep' \in SUBSET Threads /\ objects' \in SUBSET asleep'
    BY <1>0, <1>8 DEF Types
  <2>7. left' \in [Threads -> Int]
    BY <1>0, <1>8 DEF Types
  <2> QED  BY <1>0, <1>4, <1>17, <2>1, <2>2, <2>3, <2>4, <2>5, <2>6, <2>7 DEF Types
<1>19. Times'
  <2> SUFFICES ASSUME NEW t \in asleep \ D
               PROVE  /\ left'[t] \in -MaxLate .. MaxSleep
                      /\ Turns(queue'.target[t], tick' + left'[t])
    BY <1>8 DEF Times
  <2>1. queue'.target[t] = queue.target[t]
    BY <1>7, <1>14
  <2> QED  BY <1>0, <1>4, <1>14, <2>1 DEF Times
<1>20. AloneIfObject'
  <2> SUFFICES ASSUME NEW u \in objects \ D
               PROVE  asleep' = {u} /\ queue'.ref[u] = HEAD
    BY <1>8 DEF AloneIfObject
  <2>1. asleep = {u} /\ queue.ref[u] = HEAD
    BY DEF IInv, AloneIfObject
  <2>2. u \in Threads
    BY <1>0, <2>1 DEF Types
  <2>3. queue'.ref[u] = queue.ref[u]
    BY <1>7, <2>2 DEF R2
  <2> QED  BY <1>8, <2>1, <2>3
<1> QED  BY <1>8, <1>11, <1>16, <1>17, <1>18, <1>19, <1>20 DEF IInv

-------------------------------------------------------------------------------
(* The theorems.  Company is FALSE: an operation that may end before its time is    *)
(* alone in the list, for doAbort leaves the reference of the one after it as it was. *)

LEMMA InitInvariant ==
    ASSUME Init
    PROVE  IInv
<1>1. Types
  <2>1. 0 \in 0 .. Wrap - 1
    BY Constants
  <2>2. queue = [head |-> queue.head, next |-> queue.next,
                 ref |-> queue.ref, target |-> queue.target]
    BY DEF Init
  <2>3. queue.head \in Ops /\ queue.next \in [Threads -> Ops]
    BY DEF Init, Ops
  <2>4. queue.ref \in [Threads -> Refs] /\ queue.target \in [Threads -> 0 .. Wrap - 1]
    BY <2>1 DEF Init, Refs
  <2>5. left \in [Threads -> Int]
    BY DEF Init
  <2>6. /\ asleep \in SUBSET Threads /\ objects \in SUBSET asleep /\ tick \in 0 .. Wrap - 1
        /\ alarm \in 0 .. MaxSleep \cup {NULL} /\ pending \in BOOLEAN
    BY DEF Init
  <2> QED  BY <2>2, <2>3, <2>4, <2>5, <2>6 DEF Types
<1>2. queue.head = NULL /\ asleep = {} /\ objects = {}
  BY DEF Init
<1>3. SortedList
  <2> DEFINE g == [i \in 0 .. 0 |-> HEAD]
  <2>1. 0 \in Nat /\ g \in [0 .. 0 -> Places] /\ g[0] = HEAD
    BY DEF Places
  <2> HIDE DEF g
  <2>2. IsList(queue, 0, g, asleep)
    <3>1. \A i, j \in 0 .. 0 : g[i] = g[j] => i = j
      OBVIOUS
    <3>2. At(queue, g[0]) = NULL
      BY <1>2, <2>1 DEF At
    <3> QED  BY <1>2, <2>1, <3>1, <3>2 DEF IsList
  <2>3. IsSorted(0, g, left)
    BY DEF IsSorted
  <2> QED  BY <2>1, <2>2, <2>3 DEF SortedList
<1> QED  BY <1>1, <1>2, <1>3 DEF IInv, Times, AloneIfObject, TimerCovers

LEMMA NextInvariant ==
    ASSUME ~Company, IInv, [Next]_vars
    PROVE  IInv'
<1>1. CASE Next
  BY <1>1, SleepStep, AbortStep, TickStep, StrikeStep, HandlerStep DEF Next
<1>2. CASE UNCHANGED vars
  <2>1. /\ queue' = queue /\ asleep' = asleep /\ objects' = objects /\ left' = left
        /\ tick' = tick /\ alarm' = alarm /\ pending' = pending
    BY <1>2 DEF vars, threadVars, timerVars
  <2>2. Types' /\ SortedList'
    BY <2>1 DEF IInv, Types, SortedList
  <2> QED  BY <2>1, <2>2 DEF IInv, Times, AloneIfObject, TimerCovers
<1> QED  BY <1>1, <1>2

\* A list that is written down holds the sleepers, in their order.
LEMMA SortedIsSorted ==
    ASSUME IInv
    PROVE  ListIsSorted
<1>1a. PICK n \in Nat : \E f \in [0 .. n -> Places] :
         IsList(queue, n, f, asleep) /\ IsSorted(n, f, left)
  BY DEF IInv, SortedList
<1>1. PICK f \in [0 .. n -> Places] :
         IsList(queue, n, f, asleep) /\ IsSorted(n, f, left)
  BY <1>1a
<1>2. asleep \in SUBSET Threads
  BY DEF IInv, Types
<1>3. Walked(queue, Places) = {f[i] : i \in 0 .. n}
  <2>1. n \in 0 .. n /\ \A i \in 0 .. n - 1 : f[i] \in Places
    OBVIOUS
  <2> QED  BY <1>1, <1>2, <2>1, WalkIs
<1>4. At(queue, f[n]) = NULL /\ \A i \in 0 .. n - 1 : At(queue, f[i]) = f[i + 1]
  BY <1>1 DEF IsList
<1>5. Listed = asleep
  <2>1. ASSUME NEW t \in Listed PROVE t \in asleep
    <3>1. PICK i \in 0 .. n : t = At(queue, f[i]) /\ t # NULL
      BY <1>3 DEF Listed
    <3>2. i \in 0 .. n - 1 /\ i + 1 \in 1 .. n
      BY <1>4, <3>1
    <3>3. t = f[i + 1]
      BY <1>4, <3>1, <3>2
    <3> QED  BY <1>1, <3>2, <3>3 DEF IsList
  <2>2. ASSUME NEW t \in asleep PROVE t \in Listed
    <3>1. PICK i \in 1 .. n : f[i] = t
      BY <1>1 DEF IsList
    <3>2. i - 1 \in 0 .. n - 1 /\ i - 1 \in 0 .. n /\ (i - 1) + 1 = i
      OBVIOUS
    <3>3. At(queue, f[i - 1]) = f[(i - 1) + 1]
      BY <1>4, <3>2
    <3>4. t # NULL
      BY <1>2, Constants
    <3> QED  BY <1>3, <3>1, <3>2, <3>3, <3>4 DEF Listed
  <2> QED  BY <2>1, <2>2
<1>6. ASSUME NEW t \in asleep, queue.next[t] # NULL
      PROVE  left[t] <= left[queue.next[t]]
  <2>1. PICK i \in 1 .. n : f[i] = t
    BY <1>1 DEF IsList
  <2>2. At(queue, t) = queue.next[t]
    BY <1>2, Constants DEF At
  <2>3. i # n
    BY <1>4, <1>6, <2>1, <2>2
  <2>4. i \in 0 .. n - 1 /\ i + 1 \in 1 .. n /\ i <= i + 1
    BY <2>3
  <2>5. queue.next[t] = f[i + 1]
    BY <1>4, <2>1, <2>2, <2>4
  <2> QED  BY <1>1, <2>1, <2>4, <2>5 DEF IsSorted
<1> QED  BY <1>5, <1>6 DEF ListIsSorted

\* The list of sleepers is a chain from the head through the threads asleep, each once,
\* in the order they are due; every target is the tick plus what is left, up to turns
\* of the counter; and the timer is armed for the first (scheduler.cpp, the sleeping
\* mechanism).
THEOREM Invariance == ASSUME ~Company PROVE Spec => []IInv
<1>1. Init => IInv
  BY InitInvariant
<1>2. IInv /\ [Next]_vars => IInv'
  BY NextInvariant
<1> QED  BY <1>1, <1>2, PTL DEF Spec

\* No thread that sleeps is missing from the list, no operation that is over is in it,
\* and it is sorted over the wrap-around of the counter.
THEOREM SortedSleepers == ASSUME ~Company PROVE Spec => []ListIsSorted
<1>1. IInv => ListIsSorted
  BY SortedIsSorted
<1> QED  BY <1>1, Invariance, PTL

\* The timer never strikes later than the first of the sleepers is due.
THEOREM Covered == ASSUME ~Company PROVE Spec => []TimerCovers
<1>1. IInv => TimerCovers
  BY DEF IInv
<1> QED  BY <1>1, Invariance, PTL

\* The handler wakes all who have two ticks left or less, and nobody else.
THEOREM NeitherEarlyNorLate == ASSUME ~Company PROVE Spec => WokenOnTime
<1>1. ASSUME IInv, [Next]_vars
      PROVE  [pending /\ ~pending' => /\ \A t \in asleep \ asleep' : left[t] <= 2
                                      /\ \A t \in asleep' : left[t] > 2]_vars
  <2> SUFFICES ASSUME pending, ~pending', Next
               PROVE  /\ \A t \in asleep \ asleep' : left[t] <= 2
                      /\ \A t \in asleep' : left[t] > 2
    BY <1>1
  <2>1. HandlerRuns
    BY DEF Next, Abort, Sleep, Tick, TimerStrikes, timerVars
  <2> QED  BY <1>1, <2>1, HandlerStep
<1> QED  BY <1>1, Invariance, PTL DEF Spec, WokenOnTime
=============================================================================
