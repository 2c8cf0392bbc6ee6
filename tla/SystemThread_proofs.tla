------------------------- MODULE SystemThread_proofs -------------------------
(***************************************************************************)
(* Theorems about the system thread, for any numbers of ticks, workloads,  *)
(* keyboards, queues of any size and any lateness, up to the first time    *)
(* that a third timer is to be queued (FewListed, a condition on the       *)
(* behaviour): with three an item may come to the wrong side of another    *)
(* in the list, or be lost (circarray.h:96 and 141).                       *)
(*                                                                         *)
(* CoversTheFirst is not inductive: while a timer is being set it says     *)
(* nothing about the others, and the next step may leave it with them.     *)
(* Covered says of each timer on the list that is not being written that   *)
(* the wait is not longer than what it has left.                           *)
(*                                                                         *)
(* The list the timers are on is a List<Timer*>.  The second half of this  *)
(* module is about that list (BlockList), whatever the items and the size  *)
(* of the blocks.  EveryItemIsFound is not inductive: what an operation    *)
(* leaves to be found depends on how full the blocks are.  ListInv says    *)
(* that no block is empty and each but the last at most two items short of *)
(* full, that the slots of a ring in use hold items, that length is the    *)
(* sum, and that the iterator stands on an item or, after a removal, behind *)
(* the items of a block that is neither the last nor full.                 *)
(***************************************************************************)
EXTENDS SystemThread, BlockList, SequenceTheorems, WellFoundedInduction, TLAPS

-------------------------------------------------------------------------------
(* The list of timers. *)

Short(ts) ==
    \/ ts = <<>>
    \/ \E u \in Timers : ts = <<u>>
    \/ \E u \in Timers, v \in Timers : u # v /\ ts = <<u, v>>

Sorted(ts, tm) == Len(ts) = 2 => tm[ts[1]].targetTime <= tm[ts[2]].targetTime

\* Sequences of one and of two.
LEMMA PairIs ==
    ASSUME NEW S, NEW x \in S, NEW y \in S, NEW s \in Seq(S), Len(s) = 2, s[1] = x, s[2] = y
    PROVE  s = <<x, y>>
<1> DEFINE k == <<x, y>>
<1>1. k \in Seq(S) /\ Len(k) = 2 /\ k[1] = x /\ k[2] = y
  OBVIOUS
<1> HIDE DEF k
<1>2. \A i \in 1 .. Len(s) : s[i] = k[i]
  BY <1>1
<1>3. s = k
  BY <1>1, <1>2, SeqEqual
<1> QED  BY <1>3 DEF k

LEMMA OneIs ==
    ASSUME NEW u, NEW t
    PROVE  /\ DOMAIN <<u>> = {1} /\ <<u>>[1] = u /\ Len(<<u>>) = 1 /\ <<u>> # <<>>
           /\ Append(<<u>>, t) = <<u, t>> /\ InsertAt(<<u>>, 1, t) = <<t, u>>
<1>1. DOMAIN <<u>> = {1} /\ <<u>>[1] = u /\ Len(<<u>>) = 1 /\ <<u>> # <<>>
  <2>1. DOMAIN <<u>> = 1 .. 1 /\ <<u>>[1] = u /\ Len(<<u>>) = 1
    OBVIOUS
  <2>2. 1 .. 1 = {1}
    OBVIOUS
  <2>3. <<u>> # <<>>
    OBVIOUS
  <2> QED  BY <2>1, <2>2, <2>3
<1>2. Append(<<u>>, t) = <<u, t>>
  <2>1. <<u>> \in Seq({u, t}) /\ u \in {u, t} /\ t \in {u, t}
    OBVIOUS
  <2> DEFINE s == Append(<<u>>, t)
  <2>2. s \in Seq({u, t}) /\ Len(s) = 2 /\ s[1] = u /\ s[2] = t
    OBVIOUS
  <2> HIDE DEF s
  <2>3. s = <<u, t>>
    BY <2>1, <2>2, PairIs
  <2> QED  BY <2>3 DEF s
<1>3. InsertAt(<<u>>, 1, t) = SubSeq(<<u>>, 1, 0) \o <<t>> \o SubSeq(<<u>>, 1, 1)
  <2>1. InsertAt(<<u>>, 1, t) = SubSeq(<<u>>, 1, 1 - 1) \o <<t>> \o SubSeq(<<u>>, 1, Len(<<u>>))
    BY Zenon DEF InsertAt
  <2> QED BY <2>1, <1>1, 1 - 1 = 0
<1>4. SubSeq(<<u>>, 1, 0) = <<>>
  OBVIOUS
<1>a. <<u>> \in Seq({u, t}) /\ <<t>> \in Seq({u, t})
  OBVIOUS
<1>5. SubSeq(<<u>>, 1, 1) = <<u>>
  BY <1>1, <1>a, SubSeqFull
<1>6. <<>> \o <<t>> \o <<u>> = <<t, u>>
  <2>1. <<>> \o <<t>> = <<t>>
    BY <1>a, ConcatEmptySeq
  <2>2. <<t>> \o <<u>> = <<t, u>>
    <3> DEFINE s == <<t>> \o <<u>>
    <3>1. s \in Seq({u, t}) /\ Len(s) = 2 /\ s[1] = t /\ s[2] = u
      OBVIOUS
    <3>2. u \in {u, t} /\ t \in {u, t}
      OBVIOUS
    <3> HIDE DEF s
    <3>3. s = <<t, u>>
      BY <3>1, <3>2, PairIs
    <3> QED  BY <3>3 DEF s
  <2> QED  BY <2>1, <2>2
<1> QED  BY <1>1, <1>2, <1>3, <1>4, <1>5, <1>6

LEMMA TwoIs ==
    ASSUME NEW x, NEW y
    PROVE  /\ DOMAIN <<x, y>> = {1, 2} /\ <<x, y>>[1] = x /\ <<x, y>>[2] = y /\ Len(<<x, y>>) = 2
           /\ <<x, y>> # <<>>
           /\ RemoveAt(<<x, y>>, 1) = <<y>> /\ RemoveAt(<<x, y>>, 2) = <<x>>
<1> DEFINE s == <<x, y>>
           S == {x, y}
<1>1. DOMAIN s = {1, 2} /\ s[1] = x /\ s[2] = y /\ Len(s) = 2 /\ s # <<>> /\ s \in Seq(S)
  <2>1. DOMAIN s = 1 .. 2 /\ s[1] = x /\ s[2] = y /\ Len(s) = 2 /\ s \in Seq(S)
    OBVIOUS
  <2>2. 1 .. 2 = {1, 2}
    OBVIOUS
  <2>3. <<x, y>> # <<>>
    OBVIOUS
  <2> QED  BY <2>1, <2>2, <2>3
<1> HIDE DEF s
<1>2. RemoveAt(s, 1) = SubSeq(s, 1, 0) \o SubSeq(s, 2, 2)
  BY <1>1 DEF RemoveAt
<1>3. RemoveAt(s, 2) = SubSeq(s, 1, 1) \o SubSeq(s, 3, 2)
  BY <1>1 DEF RemoveAt
<1>4. SubSeq(s, 1, 0) = <<>> /\ SubSeq(s, 3, 2) = <<>>
  BY SubSeqEmpty
<1>5. ASSUME NEW n \in {1, 2} PROVE SubSeq(s, n, n) = <<s[n]>>
  <2>1. \A i \in n .. n : s[i] \in S
    BY <1>1
  <2>2. n \in Int
    OBVIOUS
  <2>3. /\ SubSeq(s, n, n) \in Seq(S)
        /\ Len(SubSeq(s, n, n)) = IF n <= n THEN n - n + 1 ELSE 0
        /\ \A i \in 1 .. n - n + 1 : SubSeq(s, n, n)[i] = s[n + i - 1]
    BY <2>1, <2>2, SubSeqProperties
  <2> DEFINE l == SubSeq(s, n, n)
             k == <<s[n]>>
  <2> HIDE DEF l
  <2>4. l \in Seq(S) /\ Len(l) = 1 /\ l[1] = s[n]
    BY <2>3 DEF l
  <2>5. k \in Seq(S) /\ Len(k) = 1 /\ k[1] = s[n]
    BY <1>1
  <2> HIDE DEF k
  <2>6. \A i \in 1 .. Len(l) : l[i] = k[i]
    BY <2>4, <2>5
  <2>7. l = k
    BY <2>4, <2>5, <2>6, SeqEqual
  <2> QED  BY <2>7 DEF l, k
<1>6. <<>> \o <<y>> = <<y>> /\ <<x>> \o <<>> = <<x>>
  <2>1. <<x>> \in Seq(S) /\ <<y>> \in Seq(S)
    OBVIOUS
  <2> QED  BY <2>1, ConcatEmptySeq
<1>7. RemoveAt(s, 1) = <<y>> /\ RemoveAt(s, 2) = <<x>>
  BY <1>1, <1>2, <1>3, <1>4, <1>5, <1>6
<1> QED  BY <1>1, <1>7 DEF s
\* What a list of timers holds.
LEMMA RangeIs ==
    /\ Range(<<>>) = {}
    /\ \A u : Range(<<u>>) = {u}
    /\ \A u, v : Range(<<u, v>>) = {u, v}
<1>1. Range(<<>>) = {}
  BY DEF Range
<1>2. ASSUME NEW u PROVE Range(<<u>>) = {u}
  <2> DEFINE s == <<u>>
  <2>1. DOMAIN s = {1} /\ s[1] = u
    BY OneIs
  <2> HIDE DEF s
  <2>2. Range(s) = {u}
    BY <2>1, Zenon DEF Range
  <2> QED  BY <2>2 DEF s
<1>3. ASSUME NEW u, NEW v PROVE Range(<<u, v>>) = {u, v}
  <2> DEFINE s == <<u, v>>
  <2>1. DOMAIN s = {1, 2} /\ s[1] = u /\ s[2] = v
    BY TwoIs
  <2> HIDE DEF s
  <2>2. Range(s) = {u, v}
    BY <2>1, Zenon DEF Range
  <2> QED  BY <2>2 DEF s
<1> QED  BY <1>1, <1>2, <1>3

\* What queueTimer makes of a list.
Answers(q, ts, tm, t) ==
    /\ Short(q.list) /\ Sorted(q.list, tm) /\ Range(q.list) = Range(ts) \cup {t}
    /\ q.list # <<>> /\ (q.first <=> q.list[1] = t)

LEMMA FieldsOf ==
    ASSUME NEW x, NEW a, NEW b, NEW q, q = [list |-> x, first |-> a = b]
    PROVE  q.list = x /\ (q.first <=> a = b)
<1>1. q.list = x
  BY Zenon
<1>2. q.first <=> a = b
  BY Zenon
<1> QED  BY <1>1, <1>2

LEMMA OneAnswers ==
    ASSUME NEW t \in Timers, NEW ts, NEW tm, NEW q, q.list = <<t>>, q.first,
           Range(ts) \cup {t} = {t}
    PROVE  Answers(q, ts, tm, t)
<1> DEFINE s == <<t>>
<1>1. s[1] = t /\ Len(s) = 1 /\ s # <<>> /\ Range(s) = {t} /\ Short(s)
  BY OneIs, RangeIs DEF Short
<1>2. q.list = s
  OBVIOUS
<1> HIDE DEF s
<1>3. Sorted(s, tm)
  <2>1. Len(s) # 2
    BY <1>1
  <2> QED  BY <2>1 DEF Sorted
<1> QED  BY <1>1, <1>2, <1>3 DEF Answers

LEMMA TwoAnswer ==
    ASSUME NEW a \in Timers, NEW b \in Timers, a # b, NEW tm, tm[a].targetTime <= tm[b].targetTime,
           NEW t, NEW ts, Range(ts) \cup {t} = {a, b},
           NEW q, q.list = <<a, b>>, q.first <=> a = t
    PROVE  Answers(q, ts, tm, t)
<1> DEFINE s == <<a, b>>
<1>1. s[1] = a /\ s[2] = b /\ s # <<>> /\ Range(s) = {a, b} /\ Short(s)
  BY TwoIs, RangeIs DEF Short
<1>2. q.list = s
  OBVIOUS
<1> HIDE DEF s
<1>3. Sorted(s, tm)
  BY <1>1 DEF Sorted
<1> QED  BY <1>1, <1>2, <1>3 DEF Answers

\* A timer is put before or behind another.
LEMMA PlacedIs ==
    ASSUME NEW t \in Timers, NEW u \in Timers, u # t, NEW tm, tm[t].targetTime \in Int, tm[u].targetTime \in Int,
           NEW s, s = <<u>>,
           NEW later, later = IF tm[u].targetTime > tm[t].targetTime THEN {1} ELSE {},
           NEW n, later = {1} => n = 1,
           NEW ts, Range(ts) \cup {t} = {u, t}
    PROVE  Answers(IF later = {} THEN [list |-> Append(s, t), first |-> s = <<>>]
                   ELSE [list |-> Inserted(s, n - 1, t), first |-> n = 1], ts, tm, t)
<1> DEFINE q == IF later = {} THEN [list |-> Append(s, t), first |-> s = <<>>]
                ELSE [list |-> Inserted(s, n - 1, t), first |-> n = 1]
<1>0. SUFFICES Answers(q, ts, tm, t)
  OBVIOUS
<1> HIDE DEF q
<1>1. DOMAIN s = {1} /\ s[1] = u /\ Len(s) = 1 /\ s # <<>>
      /\ Append(s, t) = <<u, t>> /\ InsertAt(s, 1, t) = <<t, u>>
  BY OneIs
<1>2. CASE tm[u].targetTime > tm[t].targetTime
  <2>1. later = {1}
    BY <1>1, <1>2
  <2>2. n = 1
    BY <2>1
  <2>3. Inserted(s, 0, t) = InsertAt(s, 1, t)
    BY <1>1 DEF Inserted
  <2>4. q = [list |-> <<t, u>>, first |-> n = 1]
    <3>1. later # {} /\ n - 1 = 0
      BY <2>1, <2>2
    <3> QED  BY <1>1, <2>3, <3>1 DEF q
  <2>5. q.list = <<t, u>> /\ (q.first <=> n = 1)
    BY <2>4, FieldsOf
  <2>a. q.first <=> t = t
    BY <2>2, <2>5, Zenon
  <2>6. tm[t].targetTime <= tm[u].targetTime /\ Range(ts) \cup {t} = {t, u}
    BY <1>2
  <2> QED  BY <2>5, <2>6, <2>a, TwoAnswer
<1>3. CASE ~(tm[u].targetTime > tm[t].targetTime)
  <2>1. later = {}
    BY <1>1, <1>3
  <2>2. q = [list |-> <<u, t>>, first |-> s = <<>>]
    BY <1>1, <2>1 DEF q
  <2>3. q.list = <<u, t>> /\ (q.first <=> s = <<>>)
    BY <2>2, FieldsOf
  <2>a. q.first <=> u = t
    BY <1>1, <2>3, Zenon
  <2>4. tm[u].targetTime <= tm[t].targetTime
    BY <1>3
  <2> QED  BY <2>3, <2>4, <2>a, TwoAnswer
<1> QED  BY <1>2, <1>3

LEMMA QueuedIs ==
    ASSUME NEW ts, Short(ts), NEW t \in Timers, \A u, v \in Range(ts) : t = u \/ t = v \/ u = v,
           NEW tm, \A u \in Timers : tm[u].targetTime \in Int
    PROVE  Answers(Queued(ts, tm, t), ts, tm, t)
<1> DEFINE q == Queued(ts, tm, t)
           l == IF t \in Range(ts) THEN CHOOSE n \in DOMAIN ts : ts[n] = t ELSE 0
           others == IF l = 0 THEN ts ELSE RemoveAt(ts, l)
           later == {n \in DOMAIN others : tm[others[n]].targetTime > tm[t].targetTime}
           n == CHOOSE m \in later : \A k \in later : m <= k
<1>1. q = IF l # 0 /\ InPlace(ts, tm, l) THEN [list |-> ts, first |-> l = 1]
          ELSE IF later = {} THEN [list |-> Append(others, t), first |-> others = <<>>]
          ELSE [list |-> Inserted(others, n - 1, t), first |-> n = 1]
  BY DEF Queued, Target
<1>a. SUFFICES Answers(q, ts, tm, t)
  OBVIOUS
<1> HIDE DEF l, q
<1>2. others = IF l = 0 THEN ts ELSE RemoveAt(ts, l)
  OBVIOUS
<1> HIDE DEF others
<1>3. later = {m \in DOMAIN others : tm[others[m]].targetTime > tm[t].targetTime}
      /\ n = CHOOSE m \in later : \A k \in later : m <= k
  OBVIOUS
<1> HIDE DEF later, n
<1>4. ASSUME NEW u \in Timers, u # t, others = <<u>>, Range(ts) \cup {t} = {u, t},
             ~(l # 0 /\ InPlace(ts, tm, l))
      PROVE  Answers(q, ts, tm, t)
  <2>1. q = IF later = {} THEN [list |-> Append(others, t), first |-> others = <<>>]
            ELSE [list |-> Inserted(others, n - 1, t), first |-> n = 1]
    BY <1>1, <1>4
  <2>2. tm[t].targetTime \in Int /\ tm[u].targetTime \in Int /\ u # t
    BY <1>4
  <2>3. others = <<u>> /\ Range(ts) \cup {t} = {u, t}
    BY <1>4
  <2>5. later = IF tm[u].targetTime > tm[t].targetTime THEN {1} ELSE {}
    <3>1. DOMAIN others = {1} /\ others[1] = u
      BY <1>4, OneIs
    <3> QED  BY <1>3, <3>1
  <2>6. later = {1} => n = 1
    BY <1>3
  <2>4. Answers(IF later = {} THEN [list |-> Append(others, t), first |-> others = <<>>]
                ELSE [list |-> Inserted(others, n - 1, t), first |-> n = 1], ts, tm, t)
    BY <2>2, <2>3, <2>5, <2>6, PlacedIs
  <2> QED  BY <2>1, <2>4
<1>5. CASE ts = <<>>
  <2>1. Range(ts) = {} /\ DOMAIN ts = {} /\ Append(ts, t) = <<t>>
    BY <1>5, RangeIs
  <2>2. l = 0 /\ others = ts
    BY <1>2, <2>1 DEF l
  <2>3. later = {}
    BY <1>3, <2>1, <2>2
  <2>4. q = [list |-> <<t>>, first |-> others = <<>>]
    BY <1>1, <1>5, <2>1, <2>2, <2>3
  <2>a. q.list = <<t>> /\ (q.first <=> others = <<>>)
    BY <2>4, FieldsOf
  <2>5. q.list = <<t>> /\ q.first
    BY <1>5, <2>2, <2>a, Zenon
  <2>6. Range(ts) \cup {t} = {t}
    BY <2>1
  <2> QED  BY <2>5, <2>6, OneAnswers
<1>6. ASSUME NEW u \in Timers, ts = <<u>> PROVE Answers(q, ts, tm, t)
  <2>1. Range(ts) = {u} /\ DOMAIN ts = {1} /\ ts[1] = u /\ Len(ts) = 1
    BY <1>6, RangeIs, OneIs
  <2>2. CASE u = t
    <3>1. l = 1
      BY <2>1, <2>2 DEF l
    <3>2. q = [list |-> ts, first |-> l = 1]
      <4>1. l # 0 /\ InPlace(ts, tm, l)
        BY <2>1, <3>1 DEF InPlace
      <4> QED  BY <1>1, <4>1
    <3>a. q.list = ts /\ (q.first <=> l = 1)
      BY <3>2, FieldsOf
    <3>3. q.list = <<t>> /\ q.first
      BY <1>6, <2>2, <3>1, <3>a, Zenon
    <3>4. Range(ts) \cup {t} = {t}
      BY <2>1, <2>2
    <3> QED  BY <3>3, <3>4, OneAnswers
  <2>3. CASE u # t
    <3>1. l = 0
      BY <2>1, <2>3 DEF l
    <3>2. others = <<u>> /\ Range(ts) \cup {t} = {u, t}
      BY <1>2, <1>6, <2>1, <3>1
    <3> QED  BY <1>4, <2>3, <3>1, <3>2
  <2> QED  BY <2>2, <2>3
<1>7. ASSUME NEW x \in Timers, NEW y \in Timers, x # y, ts = <<x, y>> PROVE Answers(q, ts, tm, t)
  <2>1. Range(ts) = {x, y} /\ DOMAIN ts = {1, 2} /\ ts[1] = x /\ ts[2] = y /\ Len(ts) = 2
        /\ RemoveAt(ts, 1) = <<y>> /\ RemoveAt(ts, 2) = <<x>>
    BY <1>7, RangeIs, TwoIs
  <2>2. t = x \/ t = y
    BY <1>7, <2>1
  <2>3. l = IF t = x THEN 1 ELSE 2
    BY <1>7, <2>1, <2>2 DEF l
  <2>4. CASE InPlace(ts, tm, l)
    <3>1. q = [list |-> ts, first |-> l = 1]
      BY <1>1, <2>3, <2>4
    <3>2. tm[x].targetTime <= tm[y].targetTime
      BY <2>1, <2>3, <2>4 DEF InPlace, Target
    <3>3. l = 1 <=> x = t
      BY <1>7, <2>2, <2>3
    <3>a. q.list = ts /\ (q.first <=> l = 1)
      BY <3>1, FieldsOf
    <3>4. q.list = <<x, y>> /\ (q.first <=> x = t)
      BY <1>7, <3>3, <3>a, Zenon
    <3>5. Range(ts) \cup {t} = {x, y}
      BY <2>1, <2>2
    <3> QED  BY <1>7, <3>2, <3>4, <3>5, TwoAnswer
  <2>5. CASE ~InPlace(ts, tm, l)
    <3>1. CASE t = x
      <4>1. others = <<y>> /\ Range(ts) \cup {t} = {y, t}
        BY <1>2, <2>1, <2>3, <3>1
      <4> QED  BY <1>4, <1>7, <2>5, <3>1, <4>1
    <3>2. CASE t = y
      <4>1. others = <<x>> /\ Range(ts) \cup {t} = {x, t}
        BY <1>2, <1>7, <2>1, <2>3, <3>2
      <4> QED  BY <1>4, <1>7, <2>5, <3>2, <4>1
    <3> QED  BY <2>2, <3>1, <3>2
  <2> QED  BY <2>4, <2>5
<1> QED  BY <1>5, <1>6, <1>7 DEF Short

-------------------------------------------------------------------------------
(* Signed numbers. *)

Longs == -HalfRange .. HalfRange - 1

LEMMA Division ==
    ASSUME NEW a \in Int, NEW m \in Nat, m > 0
    PROVE  a \div m \in Int /\ a % m \in 0 .. m - 1 /\ a = m * (a \div m) + (a % m)
OBVIOUS

LEMMA SignedIs ==
    ASSUME NEW n \in Int, -3 * HalfRange <= n, n < 3 * HalfRange
    PROVE  Signed(n) = IF n >= HalfRange THEN n - 2 * HalfRange
                       ELSE IF n < -HalfRange THEN n + 2 * HalfRange ELSE n
<1> DEFINE h == HalfRange
           m == 2 * h
           r == (n + h) % m
           d == (n + h) \div m
<1>1. h \in Nat /\ h > 0
  BY SystemAssumption
<1>2. m \in Nat /\ m > 0 /\ n + h \in Int
  BY <1>1
<1>3. d \in Int /\ r \in 0 .. m - 1 /\ n + h = m * d + r
  <2>1. n + h \in Int /\ m \in Nat /\ m > 0
    BY <1>2
  <2> HIDE DEF h, m
  <2> QED  BY <2>1, Division
<1> HIDE DEF r, d, m
<1>4. d \in {-1, 0, 1}
  <2>1. n + h >= -m /\ n + h < 2 * m
    BY <1>1 DEF m
  <2>2. m * d > -2 * m /\ m * d < 2 * m
    BY <1>2, <1>3, <2>1
  <2>3. CASE d >= 2
    <3>1. m * d >= m * 2
      BY <1>2, <1>3, <2>3
    <3> QED  BY <1>2, <1>3, <2>2, <3>1
  <2>4. CASE d <= -2
    <3>1. m * d <= m * (-2)
      BY <1>2, <1>3, <2>4
    <3> QED  BY <1>2, <1>3, <2>2, <3>1
  <2> QED  BY <1>3, <2>3, <2>4
<1>5. m * d = IF d = 0 THEN 0 ELSE IF d = 1 THEN m ELSE -m
  BY <1>2, <1>4
<1>6. Signed(n) = r - h
  BY DEF Signed, r, m, h
<1> QED  BY <1>1, <1>3, <1>4, <1>5, <1>6 DEF m, h

\* The difference of two of them, and the number that comes next.
LEMMA DifferenceIs ==
    ASSUME NEW x \in Longs, NEW n \in Longs
    PROVE  /\ Signed(x - n) \in Longs
           /\ Signed(x - n) = IF x - n >= HalfRange THEN x - n - 2 * HalfRange
                              ELSE IF x - n < -HalfRange THEN x - n + 2 * HalfRange ELSE x - n
<1>1. HalfRange \in Nat /\ HalfRange > 0
  BY SystemAssumption
<1>2. x - n \in Int /\ -3 * HalfRange <= x - n /\ x - n < 3 * HalfRange
  BY <1>1 DEF Longs
<1>3. Signed(x - n) = IF x - n >= HalfRange THEN x - n - 2 * HalfRange
                      ELSE IF x - n < -HalfRange THEN x - n + 2 * HalfRange ELSE x - n
  BY <1>2, SignedIs
<1>4. Signed(x - n) \in Longs
  BY <1>1, <1>2, <1>3 DEF Longs
<1> QED  BY <1>3, <1>4

LEMMA SignedFits ==
    ASSUME NEW n \in Int
    PROVE  Signed(n) \in Longs
<1> DEFINE r == (n + HalfRange) % (2 * HalfRange)
<1>1. HalfRange \in Nat /\ HalfRange > 0
  BY SystemAssumption
<1>2. 2 * HalfRange \in Nat /\ 2 * HalfRange > 0 /\ n + HalfRange \in Int
  BY <1>1
<1>3. r \in 0 .. 2 * HalfRange - 1
  BY <1>2, Division
<1>4. Signed(n) = r - HalfRange
  BY DEF Signed
<1> HIDE DEF r
<1> QED  BY <1>1, <1>3, <1>4 DEF Longs

\* A tick takes one from what is left, if that is not the least there is.
LEMMA OneLess ==
    ASSUME NEW x \in Longs, NEW n \in Longs, Signed(x - n) > -HalfRange
    PROVE  Signed(x - Signed(n + 1)) = Signed(x - n) - 1
<1>1. HalfRange \in Nat /\ HalfRange > 0
  BY SystemAssumption
<1>2. n + 1 \in Int /\ -3 * HalfRange <= n + 1 /\ n + 1 < 3 * HalfRange
  BY <1>1 DEF Longs
<1>3. PICK p \in Int : p = n + 1
  BY <1>2
<1> DEFINE k == Signed(p)
<1>7. k = IF p >= HalfRange THEN p - 2 * HalfRange ELSE p
  <2>1. Signed(p) = IF p >= HalfRange THEN p - 2 * HalfRange
                    ELSE IF p < -HalfRange THEN p + 2 * HalfRange ELSE p
    BY <1>2, <1>3, SignedIs
  <2>2. ~(p < -HalfRange)
    BY <1>1, <1>3 DEF Longs
  <2> QED  BY <2>1, <2>2
<1>4. k \in Longs
  BY <1>3, SignedFits
<1> HIDE DEF k
<1>5. Signed(x - k) = IF x - k >= HalfRange THEN x - k - 2 * HalfRange
                      ELSE IF x - k < -HalfRange THEN x - k + 2 * HalfRange ELSE x - k
  BY <1>4, DifferenceIs
<1>6. Signed(x - n) = IF x - n >= HalfRange THEN x - n - 2 * HalfRange
                      ELSE IF x - n < -HalfRange THEN x - n + 2 * HalfRange ELSE x - n
  BY DifferenceIs
<1> DEFINE a == Signed(x - k)
           b == Signed(x - n)
<1>8. a = b - 1
  <2>1. /\ a = IF x - k >= HalfRange THEN x - k - 2 * HalfRange
               ELSE IF x - k < -HalfRange THEN x - k + 2 * HalfRange ELSE x - k
        /\ b = IF x - n >= HalfRange THEN x - n - 2 * HalfRange
               ELSE IF x - n < -HalfRange THEN x - n + 2 * HalfRange ELSE x - n
        /\ b > -HalfRange
    BY <1>5, <1>6
  <2> HIDE DEF a, b
  <2> QED  BY <1>1, <1>3, <1>4, <1>7, <2>1 DEF Longs
<1>9. k = Signed(n + 1)
  BY <1>3, Zenon DEF k
<1> QED  BY <1>8, <1>9, Zenon

\* On the same side of the wrap-around the numbers are in the order of the differences.
LEMMA SameSide ==
    ASSUME NEW x \in Longs, NEW y \in Longs, NEW n \in Longs, x <= y,
           ((x < n) # (Signed(x - n) < 0)) = ((y < n) # (Signed(y - n) < 0))
    PROVE  Signed(x - n) <= Signed(y - n)
<1> DEFINE a == Signed(x - n)
           b == Signed(y - n)
<1>1. HalfRange \in Nat /\ HalfRange > 0
  BY SystemAssumption
<1>2. a = IF x - n >= HalfRange THEN x - n - 2 * HalfRange
          ELSE IF x - n < -HalfRange THEN x - n + 2 * HalfRange ELSE x - n
  BY DifferenceIs
<1>3. b = IF y - n >= HalfRange THEN y - n - 2 * HalfRange
          ELSE IF y - n < -HalfRange THEN y - n + 2 * HalfRange ELSE y - n
  BY DifferenceIs
<1>4. ((x < n) # (a < 0)) <=> ((y < n) # (b < 0))
  OBVIOUS
<1> HIDE DEF a, b
<1>5. ((x < n) <=> (a < 0)) <=> ((y < n) <=> (b < 0))
  BY <1>4, SMT
<1>6. a <= b
  BY <1>1, <1>2, <1>3, <1>5 DEF Longs
<1> QED  BY <1>6 DEF a, b

-------------------------------------------------------------------------------
(* The invariant. *)

Timer == [targetTime : Longs, period : Nat, canceled : BOOLEAN, app : {"active", "former", "gone"}]
Setting == [stage : {"none", "time", "period", "written", "queued"}, t : Timers \cup {NULL},
            period : Nat]
Queueing == setting.stage = "queued"

TypeOK ==
    /\ workload \in Workloads /\ now \in Longs
    /\ timer \in [Timers -> Timer]
    /\ setting \in Setting
    /\ setting.stage \in {"time", "period", "written"} <=> setting.t \in Timers
    /\ alive \in BOOLEAN /\ restart \in BOOLEAN /\ misled \in BOOLEAN
    /\ queue \in 0 .. QueueSize /\ pending \in [Range(Keyboards) -> Nat]
    /\ pc \in {"collect", "fire", "wait", "reap"} \cup Range(Keyboards)
    /\ timeOut \in Int

InOrder == (\A t \in Range(timers) : ~BeingWritten(t)) => Sorted(timers, timer)

Covered ==
    pc = "wait" /\ ~misled =>
        \/ restart \/ Queueing
        \/ \A t \in Range(timers) : BeingWritten(t) \/ timeOut \in 0 .. Left(t)

IInv == TypeOK /\ Short(timers) /\ InOrder /\ Covered

\* No three timers are on the list or about to be.
FewListed ==
    \A t, u, v \in Range(timers) \cup {x \in Timers : BeingWritten(x)} : t = u \/ t = v \/ u = v

\* What is on the list is a timer.
LEMMA OnlyTimers ==
    ASSUME NEW ts, Short(ts)
    PROVE  Range(ts) \subseteq Timers
BY RangeIs DEF Short

LEMMA Typed ==
    ASSUME TypeOK
    PROVE  /\ \A t \in Timers : /\ timer[t] \in Timer /\ timer[t].targetTime \in Longs
                                /\ timer[t].targetTime \in Int /\ timer[t].period \in Nat
                                /\ Left(t) \in Longs /\ Left(t) \in Int
           /\ timeOut \in Int /\ now \in Longs /\ now \in Int
<1>1. \A x \in Longs : x \in Int
  BY SystemAssumption DEF Longs
<1>2. now \in Longs /\ timeOut \in Int
  BY DEF TypeOK
<1>3. ASSUME NEW t \in Timers
      PROVE  timer[t] \in Timer /\ timer[t].targetTime \in Longs /\ timer[t].period \in Nat
  BY DEF TypeOK, Timer
<1>4. ASSUME NEW t \in Timers PROVE Left(t) \in Longs
  BY <1>2, <1>3, DifferenceIs DEF Left
<1> QED  BY <1>1, <1>2, <1>3, <1>4

LEMMA Stages ==
    ASSUME TypeOK
    PROVE  /\ setting.stage \in {"time", "period", "written"}
                  => \E t \in Timers : setting.t = t /\ \A u : BeingWritten(u) <=> u = t
           /\ setting.stage \in {"none", "queued"} => \A t \in Timers : ~BeingWritten(t)
           /\ setting.stage = "queued" <=> Queueing
BY SystemAssumption DEF TypeOK, Setting, Queueing, BeingWritten

LEMMA NotSettingIs ==
    /\ NotSetting \in Setting /\ NotSetting.stage = "none" /\ NotSetting.t = NULL
    /\ [NotSetting EXCEPT !.stage = "queued"] \in Setting
    /\ [NotSetting EXCEPT !.stage = "queued"].stage = "queued"
    /\ [NotSetting EXCEPT !.stage = "queued"].t = NULL
    /\ NULL \notin Timers
BY SystemAssumption DEF NotSetting, Setting

\* A step that changes no time and no list, and nothing of the wait.
LEMMA TimesStay ==
    ASSUME IInv, TypeOK', timers' = timers,
           \A t \in Timers : timer'[t].targetTime = timer[t].targetTime,
           now' = now, \A t \in Timers : BeingWritten(t)' <=> BeingWritten(t), Queueing => Queueing',
           restart' = restart, timeOut' = timeOut, misled' = misled, pc' = pc
    PROVE  IInv'
<1>1. Range(timers) \subseteq Timers
  BY OnlyTimers DEF IInv
<1>2. \A t \in Timers : Left(t)' = Left(t)
  BY DEF Left
<1>3. Short(timers)'
  BY DEF IInv
<1>4. InOrder'
  <2>1. ASSUME Len(timers) = 2, Sorted(timers, timer) PROVE Sorted(timers, timer)'
    <3>1. timers[1] \in Timers /\ timers[2] \in Timers
      BY <2>1, TwoIs, OneIs DEF IInv, Short
    <3> QED  BY <2>1, <3>1 DEF Sorted
  <2>2. ASSUME Len(timers) # 2 PROVE Sorted(timers, timer)'
    BY <2>2 DEF Sorted
  <2> QED  BY <1>1, <2>1, <2>2 DEF IInv, InOrder
<1>5. Covered'
  BY <1>1, <1>2 DEF IInv, Covered
<1> QED  BY <1>3, <1>4, <1>5 DEF IInv

\* The system thread does not wait after it.
LEMMA NoWait ==
    ASSUME IInv, TypeOK', timers' = timers, timer' = timer, setting' = setting, pc' # "wait"
    PROVE  IInv'
BY DEF IInv, InOrder, Covered, BeingWritten

LEMMA InitIInv ==
    ASSUME Init
    PROVE  IInv
<1>1. Range(timers) = {} /\ Len(timers) = 0 /\ timers = <<>>
  BY RangeIs DEF Init
<1>2. TypeOK
  <2>1. 0 \in Longs
    BY SystemAssumption DEF Longs
  <2>2. Unused \in Timer
    BY <2>1 DEF Unused, Timer
  <2>3. timer \in [Timers -> Timer]
    BY <2>2 DEF Init
  <2>4. pending \in [Range(Keyboards) -> Nat]
    BY DEF Init
  <2>5. queue \in 0 .. QueueSize
    BY SystemAssumption DEF Init
  <2>6. alive \in BOOLEAN /\ restart \in BOOLEAN /\ misled \in BOOLEAN
    BY Zenon DEF Init
  <2>7. setting \in Setting /\ (setting.stage \in {"time", "period", "written"} <=> setting.t \in Timers)
    BY NotSettingIs DEF Init
  <2>8. pc \in {"collect", "fire", "wait", "reap"} \cup Range(Keyboards) /\ timeOut \in Int
    BY DEF Init, Forever
  <2>9. workload \in Workloads /\ now \in Longs
    BY <2>1 DEF Init
  <2> QED  BY <2>3, <2>4, <2>5, <2>6, <2>7, <2>8, <2>9 DEF TypeOK
<1>3. InOrder /\ Covered
  BY <1>1 DEF Init, InOrder, Sorted, Covered
<1> QED  BY <1>1, <1>2, <1>3 DEF IInv, Short

-------------------------------------------------------------------------------
(* The thread of the application. *)

LEMMA SetTargetTimeStep ==
    ASSUME IInv, NEW t \in Timers, NEW d \in Nat, NEW periodic, SetTargetTime(t, d, periodic)
    PROVE  IInv'
<1> DEFINE x == Signed(now + d)
           p == IF periodic THEN d ELSE 0
<1>1. /\ timer' = [timer EXCEPT ![t].targetTime = x]
      /\ setting = NotSetting /\ setting' = [stage |-> "time", t |-> t, period |-> p]
      /\ UNCHANGED <<workload, now, timers, appVars, restart, pending, sysVars>>
  BY DEF SetTargetTime, MayAct
<1>2. x \in Longs /\ p \in Nat
  <2>1. now + d \in Int
    BY Typed DEF IInv
  <2>2. Signed(now + d) \in Longs
    BY <2>1, SignedFits
  <2> QED  BY <2>2
<1> HIDE DEF x, p
<1>3. timer' \in [Timers -> Timer] /\ \A u \in Timers : u # t => timer'[u] = timer[u]
  <2>1. timer[t] \in Timer
    BY Typed DEF IInv
  <2>2. [timer[t] EXCEPT !.targetTime = x] \in Timer
    BY <1>2, <2>1 DEF Timer
  <2> QED  BY <1>1, <2>2 DEF IInv, TypeOK
<1>4. TypeOK'
  <2>1. setting' \in Setting /\ setting'.stage = "time" /\ setting'.t = t
    BY <1>1, <1>2 DEF Setting
  <2> QED  BY <1>1, <1>3, <2>1 DEF IInv, TypeOK, appVars, sysVars
<1>5. Range(timers) \subseteq Timers
  BY OnlyTimers DEF IInv
<1>6. BeingWritten(t)'
  BY <1>1 DEF BeingWritten
<1>7. /\ \A u \in Timers : ~BeingWritten(u)
      /\ ~Queueing
  BY <1>1, NotSettingIs DEF Queueing, BeingWritten
<1>8. InOrder'
  <2>1. CASE t \in Range(timers)
    BY <1>1, <1>6, <2>1 DEF InOrder
  <2>2. CASE t \notin Range(timers)
    <3>1. Sorted(timers, timer)
      BY <1>5, <1>7 DEF IInv, InOrder
    <3>2. ASSUME Len(timers) = 2 PROVE timers[1] \in Range(timers) /\ timers[2] \in Range(timers)
      BY <3>2, TwoIs, OneIs DEF IInv, Short, Range
    <3> QED  BY <1>1, <1>3, <1>5, <2>2, <3>1, <3>2 DEF InOrder, Sorted
  <2> QED  BY <2>1, <2>2
<1>9. Covered'
  <2>1. \A u \in Timers : u # t => Left(u)' = Left(u)
    BY <1>1, <1>3 DEF Left
  <2> QED  BY <1>1, <1>5, <1>6, <1>7, <2>1 DEF IInv, Covered, sysVars
<1> QED  BY <1>1, <1>4, <1>8, <1>9 DEF IInv

\* The other two writes change no time.
LEMMA SetPeriodStep ==
    ASSUME IInv, SetPeriod \/ SetCanceled
    PROVE  IInv'
<1>1. PICK t \in Timers : setting.t = t
  BY Stages DEF IInv, SetPeriod, SetCanceled
<1>2. timer[t] \in Timer /\ setting \in Setting
  BY Typed DEF IInv, TypeOK
<1>3. UNCHANGED <<workload, now, timers, appVars, restart, pending, sysVars>>
  BY DEF SetPeriod, SetCanceled
<1>4. /\ setting' \in Setting /\ setting'.t = t
      /\ setting'.stage \in {"period", "written"}
      /\ setting.stage \in {"time", "period"}
  <2>1. \/ setting' = [setting EXCEPT !.stage = "period", !.period = 0] /\ setting.stage = "time"
        \/ setting' = [setting EXCEPT !.stage = "written"] /\ setting.stage = "period"
    BY DEF SetPeriod, SetCanceled
  <2>2. [setting EXCEPT !.stage = "written"] \in Setting
    BY <1>2 DEF Setting
  <2>3. [setting EXCEPT !.stage = "period", !.period = 0] \in Setting
    BY <1>2 DEF Setting
  <2>4. setting' \in Setting
    BY <2>1, <2>2, <2>3, Zenon
  <2> QED  BY <1>1, <1>2, <2>1, <2>4 DEF Setting
<1>5. timer' \in [Timers -> Timer] /\ \A u \in Timers : timer'[u].targetTime = timer[u].targetTime
  <2>1. CASE SetPeriod
    <3> DEFINE p == setting.period
    <3>1. p \in Nat
      BY <1>2 DEF Setting
    <3>2. timer' = [timer EXCEPT ![t].period = p]
      BY <1>1, <2>1 DEF SetPeriod
    <3> HIDE DEF p
    <3> QED  BY <1>2, <3>1, <3>2 DEF IInv, TypeOK, Timer
  <2>2. CASE SetCanceled
    <3>1. timer' = [timer EXCEPT ![t].canceled = FALSE]
      BY <1>1, <2>2 DEF SetCanceled
    <3> QED  BY <1>2, <3>1 DEF IInv, TypeOK, Timer
  <2> QED  BY <2>1, <2>2, Zenon
<1>6. TypeOK'
  BY <1>3, <1>4, <1>5 DEF IInv, TypeOK, appVars, sysVars
<1>7. (\A u \in Timers : BeingWritten(u)' <=> BeingWritten(u)) /\ ~Queueing
  BY <1>1, <1>4 DEF BeingWritten, Queueing
<1> QED  BY <1>3, <1>5, <1>6, <1>7, TimesStay DEF sysVars

LEMMA RegisterTimerStep ==
    ASSUME FewListed, IInv, RegisterTimer
    PROVE  IInv'
<1>1. PICK t \in Timers : setting.t = t /\ \A u : BeingWritten(u) <=> u = t
  BY Stages DEF IInv, RegisterTimer
<1> DEFINE q == Queued(timers, timer, t)
<1>2. /\ timers' = q.list
      /\ setting' = IF q.first THEN [NotSetting EXCEPT !.stage = "queued"] ELSE NotSetting
      /\ misled' = (misled \/ (pc = "wait" /\ SomeOvertaken'))
      /\ UNCHANGED <<workload, now, timer, appVars, restart, pending, pc, timeOut>>
  BY <1>1 DEF RegisterTimer
<1>3. Answers(q, timers, timer, t)
  <2>1. \A u, v \in Range(timers) : t = u \/ t = v \/ u = v
    BY <1>1 DEF FewListed
  <2>2. \A u \in Timers : timer[u].targetTime \in Int
    BY Typed DEF IInv
  <2> QED  BY <2>1, <2>2, QueuedIs DEF IInv
<1> HIDE DEF q
<1>4. /\ Short(timers') /\ Sorted(timers', timer) /\ Range(timers') = Range(timers) \cup {t}
      /\ timers' # <<>> /\ (q.first <=> timers'[1] = t)
  BY <1>2, <1>3 DEF Answers
<1>5. /\ setting' \in Setting /\ setting'.t = NULL /\ setting'.stage \in {"none", "queued"}
      /\ q.first => Queueing'
  BY <1>2, NotSettingIs DEF Queueing
<1>6. TypeOK'
  <2>1. misled' \in BOOLEAN
    BY <1>2, Zenon
  <2> QED  BY <1>2, <1>5, <2>1, NotSettingIs DEF IInv, TypeOK, appVars
<1>7. InOrder'
  BY <1>2, <1>4 DEF InOrder, Sorted
<1>8. Covered'
  <2>1. SUFFICES ASSUME pc = "wait", ~misled', ~restart, ~q.first
                 PROVE  \A u \in Range(timers') : timeOut \in 0 .. Left(u)
    <3>1. \A u : Left(u)' = Left(u)
      BY <1>2 DEF Left
    <3> QED  BY <1>2, <1>5, <3>1 DEF Covered
  <2>2. ~misled /\ \A u \in Range(timers') : ~Overtaken(u)'
    BY <1>2, <2>1 DEF SomeOvertaken
  <2>3. \A u \in Range(timers) : u = t \/ timeOut \in 0 .. Left(u)
    <3>1. ~Queueing
      BY DEF RegisterTimer, Queueing
    <3> QED  BY <1>1, <2>1, <2>2, <3>1 DEF IInv, Covered
  <2>4. timers' # <<t>>
    BY <1>4, <2>1, OneIs
  <2>5. PICK x \in Timers, y \in Timers : x # y /\ timers' = <<x, y>>
    <3>1. ASSUME NEW u, timers' = <<u>> PROVE u = t
      <4>1. Range(timers') = {u}
        BY <3>1, RangeIs
      <4> QED  BY <1>4, <4>1
    <3> QED  BY <1>4, <2>4, <3>1 DEF Short
  <2>6. Range(timers') = {x, y} /\ timers'[1] = x /\ timers'[2] = y /\ Len(timers') = 2
    BY <2>5, RangeIs, TwoIs
  <2>7. x # t /\ y = t /\ x \in Range(timers)
    BY <1>4, <2>1, <2>5, <2>6
  <2>8. timer[x].targetTime <= timer[y].targetTime
    BY <1>4, <2>6 DEF Sorted
  <2>9. /\ timer[x].targetTime \in Int /\ timer[y].targetTime \in Int
        /\ Left(x) \in Int /\ Left(y) \in Int /\ timeOut \in Int
    BY Typed DEF IInv
  <2>10. Left(x) <= Left(y)
    <3>1. CASE timer[x].targetTime = timer[y].targetTime
      BY <2>9, <3>1 DEF Left
    <3>2. CASE timer[x].targetTime < timer[y].targetTime
      <4>1. ~(Left(x) > Left(y))
        BY <1>2, <2>2, <2>6, <3>2 DEF Overtaken, Left
      <4> QED  BY <2>9, <4>1
    <3> QED  BY <2>8, <2>9, <3>1, <3>2
  <2>11. timeOut \in 0 .. Left(x) /\ timeOut \in 0 .. Left(y)
    BY <2>3, <2>7, <2>9, <2>10
  <2> QED  BY <2>6, <2>11
<1> QED  BY <1>4, <1>6, <1>7, <1>8 DEF IInv

LEMMA SetRestartStep ==
    ASSUME IInv, SetRestart
    PROVE  IInv'
<1>1. /\ setting.stage = "queued" /\ restart' = TRUE /\ setting' = NotSetting
      /\ UNCHANGED <<workload, now, timerVars, appVars, pending, sysVars>>
  BY DEF SetRestart
<1>2. TypeOK'
  BY <1>1, NotSettingIs DEF IInv, TypeOK, timerVars, appVars, sysVars
<1>3. InOrder'
  <2>1. \A t \in Range(timers) : ~BeingWritten(t)
    BY <1>1, Stages, OnlyTimers DEF IInv
  <2> QED  BY <1>1, <2>1 DEF IInv, InOrder, timerVars
<1>4. Covered'
  BY <1>1 DEF Covered
<1> QED  BY <1>1, <1>2, <1>3, <1>4 DEF IInv, timerVars

LEMMA CancelStep ==
    ASSUME IInv, NEW t \in Timers, Cancel(t)
    PROVE  IInv'
<1>1. /\ timer' = [timer EXCEPT ![t].canceled = TRUE]
      /\ UNCHANGED <<workload, now, timers, appVars, setting, restart, pending, sysVars>>
  BY DEF Cancel
<1>2. timer' \in [Timers -> Timer] /\ \A u \in Timers : timer'[u].targetTime = timer[u].targetTime
  BY <1>1 DEF IInv, TypeOK, Timer
<1>3. TypeOK'
  BY <1>1, <1>2 DEF IInv, TypeOK, appVars, sysVars
<1> QED  BY <1>1, <1>2, <1>3, TimesStay DEF sysVars, BeingWritten, Queueing

LEMMA CollectStep ==
    ASSUME IInv, NEW t \in Timers, Collect(t)
    PROVE  IInv'
<1>1. /\ timer' = [timer EXCEPT ![t].app = "gone"]
      /\ UNCHANGED <<workload, now, timers, appVars, setting, restart, pending, sysVars>>
  BY DEF Collect
<1>2. timer' \in [Timers -> Timer] /\ \A u \in Timers : timer'[u].targetTime = timer[u].targetTime
  BY <1>1 DEF IInv, TypeOK, Timer
<1>3. TypeOK'
  BY <1>1, <1>2 DEF IInv, TypeOK, appVars, sysVars
<1> QED  BY <1>1, <1>2, <1>3, TimesStay DEF sysVars, BeingWritten, Queueing

\* Messages are handled, an application dies, or a key comes in.
LEMMA HandleStep ==
    ASSUME IInv, Handle \/ Die \/ \E k \in Range(Keyboards) : Key(k)
    PROVE  IInv'
<1>1. UNCHANGED <<workload, now, timerVars, setting, restart, sysVars>>
  BY DEF Handle, Die, Key, appVars
<1>2. alive' \in BOOLEAN /\ queue' \in 0 .. QueueSize
  <2>1. queue \in 0 .. QueueSize /\ alive \in BOOLEAN /\ QueueSize \in Nat
    BY SystemAssumption DEF IInv, TypeOK
  <2>2. CASE Handle
    BY <2>1, <2>2 DEF Handle
  <2>3. CASE Die
    BY <2>1, <2>3 DEF Die
  <2>4. CASE \E k \in Range(Keyboards) : Key(k)
    BY <2>1, <2>4 DEF Key, appVars
  <2> QED  BY <2>2, <2>3, <2>4
<1>3. pending' \in [Range(Keyboards) -> Nat]
  <2>1. ASSUME NEW k \in Range(Keyboards), Key(k) PROVE pending' \in [Range(Keyboards) -> Nat]
    BY <2>1 DEF IInv, TypeOK, Key
  <2> QED  BY <2>1 DEF IInv, TypeOK, Handle, Die
<1>4. TypeOK'
  BY <1>1, <1>2, <1>3 DEF IInv, TypeOK, timerVars, sysVars
<1> QED  BY <1>1, <1>4, TimesStay DEF timerVars, sysVars, BeingWritten, Queueing

-------------------------------------------------------------------------------
(* The system thread. *)

\* The names of the stages are no keyboards.
LEMMA NoKeyboard ==
    /\ \A k \in Range(Keyboards) : k \notin {"collect", "fire", "wait", "reap"}
    /\ Keyboards[1] \in Range(Keyboards)
    /\ \A k \in Range(Keyboards) : After(k) \in {"reap"} \cup Range(Keyboards)
<1>1. \A k \in Range(Keyboards) : k \notin {"collect", "fire", "wait", "reap"}
  BY SystemAssumption
<1>2. Keyboards[1] \in Range(Keyboards)
  BY SystemAssumption DEF Range
<1>3. ASSUME NEW k \in Range(Keyboards) PROVE After(k) \in {"reap"} \cup Range(Keyboards)
  <2> DEFINE n == CHOOSE m \in DOMAIN Keyboards : Keyboards[m] = k
  <2>1. n \in DOMAIN Keyboards
    BY DEF Range
  <2>2. After(k) = IF n = Len(Keyboards) THEN "reap" ELSE Keyboards[n + 1]
    BY DEF After
  <2> HIDE DEF n
  <2>3. n # Len(Keyboards) => n + 1 \in DOMAIN Keyboards
    BY <2>1, SystemAssumption
  <2>4. \A m \in DOMAIN Keyboards : Keyboards[m] \in Range(Keyboards)
    BY DEF Range
  <2> QED  BY <2>2, <2>3, <2>4
<1> QED  BY <1>1, <1>2, <1>3

LEMMA MessageFits ==
    ASSUME TypeOK
    PROVE  Message \in 0 .. QueueSize
BY SystemAssumption DEF TypeOK, Message, Full

LEMMA TickStep ==
    ASSUME IInv, Tick
    PROVE  IInv'
<1>1. /\ now' = Signed(now + 1)
      /\ timeOut' = IF pc = "wait" /\ timeOut > 0 THEN timeOut - 1 ELSE timeOut
      /\ pc = "wait" => timeOut # 0
      /\ \A t \in Timers : Listed(t) \/ BeingWritten(t) => Left(t) > -Latest
      /\ UNCHANGED <<workload, timerVars, appVars, setting, restart, pending, pc, misled>>
  BY DEF Tick
<1>2. Range(timers) \subseteq Timers
  BY OnlyTimers DEF IInv
<1>3. now' \in Longs
  <2>1. now + 1 \in Int
    BY Typed DEF IInv
  <2>2. Signed(now + 1) \in Longs
    BY <2>1, SignedFits
  <2> QED  BY <1>1, <2>2
<1>4. TypeOK'
  <2>1. timeOut' \in Int
    BY <1>1, Typed DEF IInv
  <2> QED  BY <1>1, <1>3, <2>1 DEF IInv, TypeOK, timerVars, appVars
<1>5. \A t : BeingWritten(t)' <=> BeingWritten(t)
  BY <1>1 DEF BeingWritten
<1>6. InOrder'
  BY <1>1, <1>5 DEF IInv, InOrder, timerVars
<1>7. Covered'
  <2>1. ASSUME NEW t \in Range(timers), pc = "wait", timeOut \in 0 .. Left(t)
        PROVE  timeOut' \in 0 .. Left(t)'
    <3>1. t \in Timers /\ Left(t) > -HalfRange
      BY <1>1, <1>2, <2>1 DEF Listed, Latest
    <3>2. timer[t].targetTime \in Longs /\ now \in Longs /\ Left(t) \in Int /\ timeOut \in Int
      BY <3>1, Typed DEF IInv
    <3>3. Left(t)' = Left(t) - 1
      <4>1. Signed(timer[t].targetTime - now) > -HalfRange
        BY <3>1 DEF Left
      <4>2. Signed(timer[t].targetTime - Signed(now + 1)) = Signed(timer[t].targetTime - now) - 1
        BY <3>2, <4>1, OneLess
      <4> QED  BY <1>1, <4>2 DEF Left, timerVars
    <3> QED  BY <1>1, <2>1, <3>2, <3>3
  <2>2. Queueing => Queueing'
    BY <1>1 DEF Queueing
  <2> QED  BY <1>1, <1>5, <2>1, <2>2 DEF IInv, Covered, timerVars
<1> QED  BY <1>1, <1>4, <1>6, <1>7 DEF IInv, timerVars

LEMMA StartRoundStep ==
    ASSUME IInv, StartRound
    PROVE  IInv'
<1>1. misled' \in BOOLEAN
  BY DEF StartRound, IInv, TypeOK
<1>2. TypeOK'
  BY <1>1 DEF IInv, StartRound, TypeOK, Forever, timerVars, appVars
<1> QED  BY <1>2, NoWait DEF StartRound, timerVars

\* The first of a list in order has the least left, of those that are not overtaken.
LEMMA FirstIsLeast ==
    ASSUME IInv, \A t \in Range(timers) : ~BeingWritten(t), NEW t \in Range(timers), ~Overtaken(t)
    PROVE  timers # <<>> /\ timers[1] \in Timers /\ Left(timers[1]) <= Left(t)
<1>1. Sorted(timers, timer)
  BY DEF IInv, InOrder
<1>2. timers # <<>>
  BY RangeIs
<1>3. t = timers[1] \/ (Len(timers) = 2 /\ t = timers[2])
  BY <1>2, RangeIs, OneIs, TwoIs DEF IInv, Short
<1>4. t \in Timers /\ timers[1] \in Timers /\ timers[1] \in Range(timers)
  BY <1>2, OnlyTimers, RangeIs, OneIs, TwoIs DEF IInv, Short
<1> DEFINE x == timers[1]
<1>5. /\ timer[x].targetTime \in Int /\ timer[t].targetTime \in Int
      /\ Left(x) \in Int /\ Left(t) \in Int
  BY <1>4, Typed DEF IInv
<1>6. timer[x].targetTime <= timer[t].targetTime
  BY <1>1, <1>3, <1>5 DEF Sorted
<1>7. ~(timer[x].targetTime < timer[t].targetTime /\ Left(x) > Left(t))
  BY <1>4 DEF Overtaken
<1>8. timer[x].targetTime = timer[t].targetTime => Left(x) = Left(t)
  BY DEF Left
<1> QED  BY <1>2, <1>4, <1>5, <1>6, <1>7, <1>8

LEMMA NothingDueStep ==
    ASSUME IInv, NothingDue
    PROVE  IInv'
<1>1. /\ pc' = "wait" /\ misled' = \E t \in Range(timers) : BeingWritten(t) \/ Overtaken(t)
      /\ UNCHANGED <<workload, now, timerVars, appVars, setting, restart, pending>>
  BY DEF NothingDue, StartWait
<1>2. timers # <<>> => /\ Left(Head(timers)) > 1
                       /\ timeOut' = IF Left(Head(timers)) < 0 THEN Forever ELSE Left(Head(timers))
  BY DEF NothingDue, StartWait
<1>3. timers = <<>> => timeOut' = IF timeOut < 0 THEN Forever ELSE timeOut
  BY DEF NothingDue, StartWait
<1>4. \A t \in Timers : Left(t) \in Int
  BY Typed DEF IInv
<1>5. timers # <<>> => Head(timers) = timers[1] /\ timers[1] \in Timers
  BY OneIs, TwoIs DEF IInv, Short
<1>6. timers # <<>> => timeOut' = Left(timers[1]) /\ timeOut' > 1
  BY <1>2, <1>4, <1>5
<1>7. timeOut' \in Int
  BY <1>3, <1>4, <1>5, <1>6, Typed DEF IInv, Forever
<1>8. misled' \in BOOLEAN
  BY <1>1, Zenon
<1>9. TypeOK'
  BY <1>1, <1>7, <1>8 DEF IInv, TypeOK, timerVars, appVars
<1>10. InOrder'
  BY <1>1 DEF IInv, InOrder, BeingWritten, timerVars
<1>11. Covered'
  <2>1. SUFFICES ASSUME ~misled', NEW t \in Range(timers) PROVE timeOut' \in 0 .. Left(t)
    BY <1>1 DEF Covered, timerVars, Left
  <2>2. Left(timers[1]) <= Left(t) /\ timers # <<>>
    BY <1>1, <2>1, FirstIsLeast
  <2>3. t \in Timers
    BY OnlyTimers DEF IInv
  <2> QED  BY <1>4, <1>5, <1>6, <2>2, <2>3
<1> QED  BY <1>1, <1>9, <1>10, <1>11 DEF IInv, timerVars

LEMMA FireStep ==
    ASSUME IInv, Fire
    PROVE  IInv'
<1> DEFINE t == Head(timers)
<1>1. /\ timers # <<>> /\ Left(t) <= 1 /\ timeOut' = Left(t)
      /\ PutOff(t) \/ TakenOff(t)
      /\ queue' = queue \/ queue' = Message
      /\ UNCHANGED <<workload, now, alive, setting, restart, pending, pc, misled>> /\ pc = "fire"
  BY DEF Fire
<1>2. t \in Timers
  BY <1>1, OneIs, TwoIs DEF IInv, Short
<1> HIDE DEF t
<1>3. timer[t] \in Timer /\ timer[t].targetTime \in Int /\ Left(t) \in Int /\ timer[t].period \in Nat
  BY <1>2, Typed DEF IInv
<1>4. Covered'
  BY <1>1 DEF Covered
<1>5. \A u : BeingWritten(u)' <=> BeingWritten(u)
  BY <1>1 DEF BeingWritten
<1>6. ASSUME timer' \in [Timers -> Timer] PROVE TypeOK'
  <2>1. queue' \in 0 .. QueueSize
    BY <1>1, MessageFits DEF IInv, TypeOK
  <2> QED  BY <1>1, <1>3, <1>6, <2>1 DEF IInv, TypeOK
<1>7. CASE PutOff(t)
  <2> DEFINE x == Signed(timer[t].targetTime + timer[t].period)
  <2>1. timer' = [timer EXCEPT ![t].targetTime = x]
    BY <1>7 DEF PutOff
  <2>2. timer' \in [Timers -> Timer]
    <3>1. timer[t].targetTime + timer[t].period \in Int
      BY <1>3
    <3>2. x \in Longs
      BY <3>1, SignedFits
    <3> HIDE DEF x
    <3> QED  BY <1>2, <1>3, <2>1, <3>2 DEF IInv, TypeOK, Timer
  <2> DEFINE q == Queued(timers, timer', t)
  <2>3. timers' = q.list
    BY <1>7 DEF PutOff
  <2>4. \A u \in Timers : timer'[u].targetTime \in Int
    <3>1. \A y \in Longs : y \in Int
      BY SystemAssumption DEF Longs
    <3> QED  BY <2>2, <3>1 DEF Timer
  <2>5. PICK tm : tm = timer'
    OBVIOUS
  <2>6. Answers(Queued(timers, tm, t), timers, tm, t)
    <3>1. \A u, v \in Range(timers) : t = u \/ t = v \/ u = v
      BY <1>1, RangeIs, OneIs, TwoIs DEF IInv, Short, t
    <3> QED  BY <1>2, <2>4, <2>5, <3>1, QueuedIs DEF IInv
  <2>7. Answers(q, timers, timer', t)
    BY <2>5, <2>6
  <2> HIDE DEF q
  <2>8. Short(timers') /\ Sorted(timers', timer')
    BY <2>3, <2>7 DEF Answers
  <2> QED  BY <1>4, <1>6, <2>2, <2>8 DEF IInv, InOrder
<1>8. CASE TakenOff(t)
  <2>1. timers' = Tail(timers) /\ timer' = [timer EXCEPT ![t] = IF BeingWritten(t) THEN @ ELSE Unused]
    BY <1>8 DEF TakenOff
  <2>2. timer' \in [Timers -> Timer]
    <3>1. Unused \in Timer
      BY SystemAssumption DEF Unused, Timer, Longs
    <3> QED  BY <1>2, <1>3, <2>1, <3>1 DEF IInv, TypeOK
  <2>3. timers' = <<>> \/ \E u \in Timers : timers' = <<u>>
    <3>1. ASSUME NEW x PROVE Tail(<<x>>) = <<>>
      OBVIOUS
    <3>2. ASSUME NEW x, NEW y PROVE Tail(<<x, y>>) = <<y>>
      OBVIOUS
    <3> QED  BY <1>1, <2>1, <3>1, <3>2 DEF IInv, Short
  <2>4. Short(timers') /\ Len(timers') # 2
    BY <2>3, OneIs DEF Short
  <2> QED  BY <1>4, <1>6, <2>2, <2>4 DEF IInv, InOrder, Sorted
<1> QED  BY <1>1, <1>7, <1>8

LEMMA WakeStep ==
    ASSUME IInv, Wake
    PROVE  IInv'
<1>1. restart' \in BOOLEAN
  <2>1. restart' \in {restart, FALSE}
    BY Zenon DEF Wake
  <2>2. restart \in BOOLEAN
    BY DEF IInv, TypeOK
  <2> QED  BY <2>1, <2>2, Zenon
<1>2. pc' \in Range(Keyboards) /\ timeOut' \in Int
  BY NoKeyboard DEF Wake, Forever
<1>3. TypeOK'
  BY <1>1, <1>2 DEF IInv, Wake, TypeOK, timerVars, appVars
<1> QED  BY <1>3, NoWait, NoKeyboard DEF Wake, timerVars

LEMMA QuietStep ==
    ASSUME IInv, NEW k \in Range(Keyboards), Quiet(k)
    PROVE  IInv'
<1>1. pc' \in {"reap"} \cup Range(Keyboards) /\ pc' # "wait"
  BY NoKeyboard DEF Quiet
<1>2. TypeOK'
  BY <1>1 DEF IInv, Quiet, TypeOK, timerVars, appVars
<1> QED  BY <1>1, <1>2, NoWait DEF Quiet, timerVars

LEMMA SendKeyStep ==
    ASSUME IInv, NEW k \in Range(Keyboards), SendKey(k)
    PROVE  IInv'
<1>1. pc' \in {"reap"} \cup Range(Keyboards) /\ pc' # "wait"
  BY NoKeyboard DEF SendKey
<1>2. pending' \in [Range(Keyboards) -> Nat]
  BY DEF IInv, SendKey, TypeOK
<1>3. queue' \in 0 .. QueueSize
  BY MessageFits DEF IInv, SendKey
<1>4. TypeOK'
  BY <1>1, <1>2, <1>3 DEF IInv, SendKey, TypeOK, timerVars
<1> QED  BY <1>1, <1>4, NoWait DEF SendKey, timerVars

LEMMA ReapStep ==
    ASSUME IInv, Reap
    PROVE  IInv'
<1>1. pc' = "collect" /\ alive' = TRUE /\ UNCHANGED <<workload, now, timers, setting, restart, pending, timeOut, misled>>
  BY DEF Reap
<1>2. /\ queue' = queue \/ queue' = 1
      /\ \/ timer' = timer
         \/ timer' = [t \in Timers |-> IF Listed(t) /\ Mine(t)
                                       THEN [timer[t] EXCEPT !.app = "former"] ELSE timer[t]]
  BY DEF Reap
<1>3. ASSUME NEW t \in Timers
      PROVE  timer'[t] \in Timer /\ timer'[t].targetTime = timer[t].targetTime
  <2>1. timer[t] \in Timer
    BY Typed DEF IInv
  <2>2. timer'[t] = timer[t] \/ timer'[t] = [timer[t] EXCEPT !.app = "former"]
    BY <1>2
  <2> QED  BY <2>1, <2>2 DEF Timer
<1>4. timer' \in [Timers -> Timer]
  BY <1>2, <1>3 DEF IInv, TypeOK
<1>5. TypeOK'
  <2>1. queue' \in 0 .. QueueSize
    BY <1>2, SystemAssumption DEF IInv, TypeOK
  <2>2. alive' \in BOOLEAN
    BY <1>1, Zenon
  <2> QED  BY <1>1, <1>4, <2>1, <2>2 DEF IInv, TypeOK
<1>6. \A u : BeingWritten(u)' <=> BeingWritten(u)
  BY <1>1 DEF BeingWritten
<1>7. Sorted(timers, timer) => Sorted(timers, timer')
  <2>1. Len(timers) = 2 => timers[1] \in Timers /\ timers[2] \in Timers
    BY TwoIs, OneIs DEF IInv, Short
  <2> QED  BY <1>3, <2>1 DEF Sorted
<1>8. InOrder'
  BY <1>1, <1>6, <1>7 DEF IInv, InOrder
<1>9. Covered'
  BY <1>1 DEF Covered
<1> QED  BY <1>1, <1>5, <1>8, <1>9 DEF IInv

-------------------------------------------------------------------------------
LEMMA NextKeepsIInv ==
    ASSUME FewListed, IInv, [Next]_vars
    PROVE  IInv'
<1>1. ASSUME NEW s \in workload.sets, SetTargetTime(s[1], s[2], s[3]) PROVE IInv'
  <2>1. s[1] \in Timers /\ s[2] \in Nat
    BY SystemAssumption DEF IInv, TypeOK
  <2> QED  BY <1>1, <2>1, SetTargetTimeStep
<1>2. ASSUME NEW t \in Timers, Cancel(t) \/ Collect(t) PROVE IInv'
  BY <1>2, CancelStep, CollectStep
<1>3. ASSUME SetPeriod \/ SetCanceled \/ RegisterTimer \/ SetRestart PROVE IInv'
  BY <1>3, SetPeriodStep, RegisterTimerStep, SetRestartStep
<1>4. ASSUME Handle \/ Die \/ \E k \in Range(Keyboards) : Key(k) PROVE IInv'
  BY <1>4, HandleStep
<1>5. ASSUME Tick \/ StartRound \/ NothingDue \/ Fire PROVE IInv'
  BY <1>5, TickStep, StartRoundStep, NothingDueStep, FireStep
<1>6. ASSUME Wake \/ Reap PROVE IInv'
  BY <1>6, WakeStep, ReapStep
<1>7. ASSUME NEW k \in Range(Keyboards), Quiet(k) \/ SendKey(k) PROVE IInv'
  BY <1>7, QuietStep, SendKeyStep
<1>8. CASE UNCHANGED vars
  <2>1. TypeOK'
    BY <1>8 DEF IInv, TypeOK, vars, timerVars, appVars, sysVars
  <2> QED  BY <1>8, <2>1, TimesStay DEF vars, timerVars, appVars, sysVars, BeingWritten, Queueing
<1> QED  BY <1>1, <1>2, <1>3, <1>4, <1>5, <1>6, <1>7, <1>8 DEF Next

-------------------------------------------------------------------------------
(* The theorems. *)

\* The invariant, of every behaviour up to the first time that a third timer is to be
\* queued: the types of the variables, a list of timers without anything twice, in order
\* of their numbers but for the moment one is written, and a wait that is no longer than
\* any of the timers has left.  From three on a timer may be put to the wrong side of
\* another, or be lost, where the ring of a block moves its items (circarray.h:96, 141).
THEOREM Invariance == Spec /\ []FewListed => []IInv
<1>1. Init => IInv
  BY InitIInv
<1>2. FewListed /\ IInv /\ [Next]_vars => IInv'
  BY NextKeepsIInv
<1> QED  BY <1>1, <1>2, PTL DEF Spec

\* The list is sorted by the time that is left, without anything twice, but for timers with
\* the wrap-around of the counter between them, however the application sets timers again
\* that are on it and the system thread puts them off (system.cpp: queueTimer and the
\* loop over the timers): up to the first time that a third timer is to be queued.
THEOREM TimersSorted == Spec /\ []FewListed => []TimersInOrder
<1>1. IInv => TimersInOrder
  <2>1. SUFFICES ASSUME IInv, \A t \in Range(timers) : ~BeingWritten(t),
                        NEW m \in DOMAIN timers, NEW n \in DOMAIN timers, m < n
                 PROVE  /\ timers[m] # timers[n]
                        /\ BeyondTheWrap(timers[m]) = BeyondTheWrap(timers[n])
                              => Left(timers[m]) <= Left(timers[n])
    BY DEF TimersInOrder
  <2>2. Sorted(timers, timer)
    BY <2>1 DEF IInv, InOrder
  <2>3. PICK x \in Timers, y \in Timers : x # y /\ timers = <<x, y>>
    BY <2>1, OneIs DEF IInv, Short
  <2>4. m = 1 /\ n = 2 /\ Len(timers) = 2 /\ timers[1] = x /\ timers[2] = y
    BY <2>1, <2>3, TwoIs
  <2>5. timer[x].targetTime <= timer[y].targetTime
    BY <2>2, <2>4 DEF Sorted
  <2>6. timer[x].targetTime \in Longs /\ timer[y].targetTime \in Longs /\ now \in Longs
    BY <2>1, Typed DEF IInv
  <2>7. BeyondTheWrap(x) = BeyondTheWrap(y) => Left(x) <= Left(y)
    BY <2>5, <2>6, SameSide DEF BeyondTheWrap, Left
  <2> QED  BY <2>3, <2>4, <2>7
<1> QED  BY <1>1, Invariance, PTL

\* The wait of the system thread is never longer than its first timer has left, or
\* somebody is about to end it: a timer that is set while the system thread waits is not
\* slept through (system.cpp: registerTimer, restartEvent and the wait of the loop).  Up
\* to the first time that a third timer is to be queued.
THEOREM FirstIsCovered == Spec /\ []FewListed => []CoversTheFirst
<1>1. IInv => CoversTheFirst
  <2>1. SUFFICES ASSUME IInv, pc = "wait", timers # <<>>, ~misled, ~restart, setting = NotSetting
                 PROVE  timeOut \in 0 .. Left(Head(timers))
    BY DEF CoversTheFirst
  <2>2. Head(timers) \in Range(timers) /\ Head(timers) \in Timers
    BY <2>1, OneIs, TwoIs, RangeIs DEF IInv, Short
  <2>3. ~Queueing /\ ~BeingWritten(Head(timers))
    BY <2>1, <2>2, NotSettingIs DEF Queueing, BeingWritten
  <2> QED  BY <2>1, <2>2, <2>3 DEF IInv, Covered
<1> QED  BY <1>1, Invariance, PTL

\* No timer that is due is left behind when the system thread goes to wait, but for one
\* that was overtaken where the counter wraps around (system.cpp: the loop over the timers
\* ends at the first that is not due).  Up to the first time that a third timer is to be
\* queued.
THEOREM AllAreServed == Spec /\ []FewListed => RoundServesAll
<1> DEFINE Served == pc = "fire" /\ pc' = "wait" /\ (\A t \in Range(timers) : ~BeingWritten(t))
                        => \A t \in Range(timers) : Left(t) > 1 \/ Overtaken(t)
<1>1. IInv /\ [Next]_vars => [Served]_vars
  <2>1. SUFFICES ASSUME IInv, [Next]_vars, pc = "fire", pc' = "wait",
                        \A t \in Range(timers) : ~BeingWritten(t),
                        NEW t \in Range(timers), ~Overtaken(t)
                 PROVE  Left(t) > 1
    BY DEF Served
  <2>2. NothingDue
    BY <2>1, NoKeyboard DEF Next, vars, sysVars, SetTargetTime, Cancel, Collect, SetPeriod,
       SetCanceled, RegisterTimer, SetRestart, Handle, Die, Tick, StartRound, Fire, Wake, Reap,
       Key, Quiet, SendKey
  <2>3. timers # <<>> /\ timers[1] \in Timers /\ Left(timers[1]) <= Left(t)
    BY <2>1, FirstIsLeast
  <2>4. Left(timers[1]) > 1
    <3>1. Head(timers) = timers[1]
      BY <2>3, OneIs, TwoIs DEF IInv, Short
    <3> QED  BY <2>2, <2>3, <3>1 DEF NothingDue
  <2>5. Left(timers[1]) \in Int /\ Left(t) \in Int
    BY <2>1, <2>3, OnlyTimers, Typed DEF IInv
  <2> QED  BY <2>3, <2>4, <2>5
<1>2. [][Served]_vars => RoundServesAll
  BY PTL DEF RoundServesAll, Served
<1> QED  BY <1>1, <1>2, Invariance, PTL DEF Spec

-------------------------------------------------------------------------------
(* Lists (BlockList), which is what the timers are on, of any items and with     *)
(* blocks of any size: the rings in an array first, then the counts of the items *)
(* in the blocks, then what each operation makes of the blocks and of the        *)
(* sequence they stand for.                                                      *)

N == BlockSize + 1
Slots == 0 .. BlockSize
Rings == [items : [Slots -> Items \cup {NONE}], start : Slots, length : 0 .. BlockSize + 1]

\* The place a slot number stands for, however often it has gone round.
LEMMA Wraps ==
    ASSUME NEW a \in -1 .. 2 * BlockSize + 1
    PROVE  a % (BlockSize + 1) = IF a < 0 THEN a + BlockSize + 1
                                 ELSE IF a <= BlockSize THEN a ELSE a - (BlockSize + 1)
<1> DEFINE n == BlockSize + 1
           q == a \div n
           m == a % n
<1>1. n \in Nat /\ n > 2 /\ a \in Int /\ a >= -1 /\ a < 2 * n
  BY ListAssumption
<1> HIDE DEF n
<1>2. m \in 0 .. n - 1 /\ a = n * q + m /\ q \in Int
  BY <1>1
<1> HIDE DEF q, m
<1>a. q \in Int
  BY <1>2
<1>3. ASSUME q <= -2 PROVE FALSE
  <2>1. n * q <= n * (-2)
    BY <1>1, <1>2, <1>3
  <2> QED  BY <1>1, <1>2, <2>1
<1>4. ASSUME q >= 2 PROVE FALSE
  <2>1. n * q >= n * 2
    BY <1>1, <1>2, <1>4
  <2> QED  BY <1>1, <1>2, <2>1
<1>5. q = -1 \/ q = 0 \/ q = 1
  BY <1>a, <1>3, <1>4
<1>6. n * (-1) = -n /\ n * 0 = 0 /\ n * 1 = n
  BY <1>1
<1>7. m = IF a < 0 THEN a + n ELSE IF a < n THEN a ELSE a - n
  <2>1. CASE q = -1
    BY <1>1, <1>2, <1>6, <2>1
  <2>2. CASE q = 0
    BY <1>1, <1>2, <1>6, <2>2
  <2>3. CASE q = 1
    BY <1>1, <1>2, <1>6, <2>3
  <2> QED  BY <1>5, <2>1, <2>2, <2>3
<1>8. BlockSize \in Nat /\ n = BlockSize + 1
  BY ListAssumption DEF n
<1>9. a % n = IF a < 0 THEN a + n ELSE IF a < n THEN a ELSE a - n
  BY <1>7 DEF m
<1> QED  BY <1>8, <1>9

\* Where the items of a ring are.
LEMMA SlotIs ==
    ASSUME NEW r \in Rings, NEW i \in -1 .. BlockSize + 1
    PROVE  /\ Ring!Slot(r, i) \in Slots
           /\ Ring!Slot(r, i) = IF r.start + i < 0 THEN r.start + i + BlockSize + 1
                                ELSE IF r.start + i <= BlockSize THEN r.start + i
                                ELSE r.start + i - (BlockSize + 1)
<1>1. r.start \in 0 .. BlockSize /\ BlockSize \in Nat /\ BlockSize > 1
  BY ListAssumption DEF Rings, Slots
<1> DEFINE a == r.start + i
<1>2. a \in -1 .. 2 * BlockSize + 1
  BY <1>1
<1> HIDE DEF a
<1>3. Ring!Slot(r, i) = a % (BlockSize + 1)
  BY DEF Ring!Slot, a
<1>4. a % (BlockSize + 1) = IF a < 0 THEN a + BlockSize + 1
                            ELSE IF a <= BlockSize THEN a ELSE a - (BlockSize + 1)
  BY <1>2, Wraps
<1> QED  BY <1>1, <1>2, <1>3, <1>4 DEF a, Slots

LEMMA StepIs ==
    ASSUME NEW k \in Slots
    PROVE  /\ Ring!Next(k) = IF k = BlockSize THEN 0 ELSE k + 1
           /\ Ring!Prev(k) = IF k = 0 THEN BlockSize ELSE k - 1
           /\ Ring!Next(k) \in Slots /\ Ring!Prev(k) \in Slots
<1>1. BlockSize \in Nat /\ BlockSize > 1 /\ k \in 0 .. BlockSize
  BY ListAssumption DEF Slots
<1>2. k + 1 \in -1 .. 2 * BlockSize + 1 /\ k - 1 \in -1 .. 2 * BlockSize + 1
  BY <1>1
<1>3. Ring!Next(k) = IF k = BlockSize THEN 0 ELSE k + 1
  <2> DEFINE a == k + 1
  <2> HIDE DEF a
  <2>1. a \in -1 .. 2 * BlockSize + 1
    BY <1>2 DEF a
  <2>2. Ring!Next(k) = a % (BlockSize + 1)
    BY DEF a, Ring!Next
  <2>3. a % (BlockSize + 1) = IF a < 0 THEN a + BlockSize + 1
                              ELSE IF a <= BlockSize THEN a ELSE a - (BlockSize + 1)
    BY <2>1, Wraps
  <2>4. ~(a < 0) /\ (a <= BlockSize <=> k # BlockSize) /\ (k = BlockSize => a - (BlockSize + 1) = 0)
    BY <1>1 DEF a
  <2> QED  BY <2>2, <2>3, <2>4 DEF a
<1>4. Ring!Prev(k) = IF k = 0 THEN BlockSize ELSE k - 1
  <2> DEFINE a == k - 1
  <2> HIDE DEF a
  <2>1. a \in -1 .. 2 * BlockSize + 1
    BY <1>2 DEF a
  <2>2. Ring!Prev(k) = a % (BlockSize + 1)
    BY DEF a, Ring!Prev
  <2>3. a % (BlockSize + 1) = IF a < 0 THEN a + BlockSize + 1
                              ELSE IF a <= BlockSize THEN a ELSE a - (BlockSize + 1)
    BY <2>1, Wraps
  <2> QED  BY <1>1, <2>2, <2>3 DEF a
<1> QED  BY <1>1, <1>3, <1>4 DEF Slots

\* Slots next to each other, and different ones.
LEMMA SlotSteps ==
    ASSUME NEW r \in Rings, NEW i \in 0 .. BlockSize
    PROVE  /\ Ring!Next(Ring!Slot(r, i)) = Ring!Slot(r, i + 1)
           /\ Ring!Prev(Ring!Slot(r, i)) = Ring!Slot(r, i - 1)
<1>1. r.start \in 0 .. BlockSize /\ BlockSize \in Nat /\ BlockSize > 1
  BY ListAssumption DEF Rings, Slots
<1>2. i \in -1 .. BlockSize + 1 /\ i + 1 \in -1 .. BlockSize + 1 /\ i - 1 \in -1 .. BlockSize + 1
  BY <1>1
<1> DEFINE s == Ring!Slot(r, i)
           next == Ring!Slot(r, i + 1)
           prev == Ring!Slot(r, i - 1)
<1>3. s \in Slots /\ s = IF r.start + i <= BlockSize THEN r.start + i ELSE r.start + i - (BlockSize + 1)
  BY <1>1, <1>2, SlotIs
<1>4. next = IF r.start + i + 1 <= BlockSize THEN r.start + i + 1 ELSE r.start + i + 1 - (BlockSize + 1)
  BY <1>1, <1>2, SlotIs
<1>5. prev = IF r.start + i - 1 < 0 THEN r.start + i - 1 + BlockSize + 1
             ELSE IF r.start + i - 1 <= BlockSize THEN r.start + i - 1
             ELSE r.start + i - 1 - (BlockSize + 1)
  BY <1>1, <1>2, SlotIs
<1> HIDE DEF s, next, prev
<1>s. /\ Ring!Next(s) = IF s = BlockSize THEN 0 ELSE s + 1
      /\ Ring!Prev(s) = IF s = 0 THEN BlockSize ELSE s - 1
  BY <1>3, StepIs
<1>6. Ring!Next(s) = next
  BY <1>1, <1>3, <1>4, <1>s DEF Slots
<1>7. Ring!Prev(s) = prev
  BY <1>1, <1>3, <1>5, <1>s DEF Slots
<1> QED  BY <1>6, <1>7 DEF s, next, prev

\* A ring that starts one slot earlier, or later.
LEMMA StartMovesBack ==
    ASSUME NEW r \in Rings, NEW q \in Rings, q.start = Ring!Prev(r.start)
    PROVE  \A i \in 0 .. BlockSize : Ring!Slot(q, i + 1) = Ring!Slot(r, i)
<1>1. r.start \in Slots /\ BlockSize \in Nat /\ r.start \in 0 .. BlockSize
  BY ListAssumption DEF Rings, Slots
<1> SUFFICES ASSUME NEW i \in 0 .. BlockSize PROVE Ring!Slot(q, i + 1) = Ring!Slot(r, i)
  OBVIOUS
<1>2. i + 1 \in -1 .. BlockSize + 1 /\ i \in -1 .. BlockSize + 1
  BY <1>1
<1>3. Ring!Slot(q, i + 1) = IF q.start + (i + 1) < 0 THEN q.start + (i + 1) + BlockSize + 1
                            ELSE IF q.start + (i + 1) <= BlockSize THEN q.start + (i + 1)
                            ELSE q.start + (i + 1) - (BlockSize + 1)
  BY <1>2, SlotIs
<1>4. Ring!Slot(r, i) = IF r.start + i < 0 THEN r.start + i + BlockSize + 1
                        ELSE IF r.start + i <= BlockSize THEN r.start + i
                        ELSE r.start + i - (BlockSize + 1)
  BY <1>2, SlotIs
<1>5. q.start = IF r.start = 0 THEN BlockSize ELSE r.start - 1
  BY <1>1, StepIs
<1> QED  BY <1>1, <1>2, <1>3, <1>4, <1>5

LEMMA StartMovesOn ==
    ASSUME NEW r \in Rings, NEW q \in Rings, q.start = Ring!Next(r.start)
    PROVE  \A i \in 0 .. BlockSize : Ring!Slot(q, i) = Ring!Slot(r, i + 1)
<1>1. r.start \in Slots /\ BlockSize \in Nat /\ r.start \in 0 .. BlockSize
  BY ListAssumption DEF Rings, Slots
<1> SUFFICES ASSUME NEW i \in 0 .. BlockSize PROVE Ring!Slot(q, i) = Ring!Slot(r, i + 1)
  OBVIOUS
<1>2. i + 1 \in -1 .. BlockSize + 1 /\ i \in -1 .. BlockSize + 1
  BY <1>1
<1>3. Ring!Slot(r, i + 1) = IF r.start + (i + 1) < 0 THEN r.start + (i + 1) + BlockSize + 1
                            ELSE IF r.start + (i + 1) <= BlockSize THEN r.start + (i + 1)
                            ELSE r.start + (i + 1) - (BlockSize + 1)
  BY <1>2, SlotIs
<1>4. Ring!Slot(q, i) = IF q.start + i < 0 THEN q.start + i + BlockSize + 1
                        ELSE IF q.start + i <= BlockSize THEN q.start + i
                        ELSE q.start + i - (BlockSize + 1)
  BY <1>2, SlotIs
<1>5. q.start = IF r.start = BlockSize THEN 0 ELSE r.start + 1
  BY <1>1, StepIs
<1> QED  BY <1>1, <1>2, <1>3, <1>4, <1>5

LEMMA FirstSlot ==
    ASSUME NEW r \in Rings
    PROVE  /\ Ring!Slot(r, 0) = r.start
           /\ Ring!Slot(r, -1) = IF r.start = 0 THEN BlockSize ELSE r.start - 1
<1>1. r.start \in 0 .. BlockSize /\ BlockSize \in Nat
  BY ListAssumption DEF Rings, Slots
<1>2. 0 \in -1 .. BlockSize + 1 /\ -1 \in -1 .. BlockSize + 1
  BY <1>1
<1>3. Ring!Slot(r, 0) = r.start
  BY <1>1, <1>2, SlotIs
<1> DEFINE m == -1
<1>4. m \in -1 .. BlockSize + 1 /\ m = 0 - 1
  BY <1>2
<1> HIDE DEF m
<1>5. Ring!Slot(r, m) = IF r.start + m < 0 THEN r.start + m + BlockSize + 1
                        ELSE IF r.start + m <= BlockSize THEN r.start + m
                        ELSE r.start + m - (BlockSize + 1)
  BY <1>4, SlotIs
<1>6. Ring!Slot(r, m) = IF r.start = 0 THEN BlockSize ELSE r.start - 1
  BY <1>1, <1>4, <1>5
<1> QED  BY <1>3, <1>6 DEF m

LEMMA SlotsDiffer ==
    ASSUME NEW r \in Rings, NEW i \in -1 .. BlockSize + 1, NEW j \in -1 .. BlockSize + 1, i # j,
           i - j <= BlockSize, j - i <= BlockSize
    PROVE  Ring!Slot(r, i) # Ring!Slot(r, j)
<1>1. r.start \in 0 .. BlockSize /\ BlockSize \in Nat
  BY ListAssumption DEF Rings, Slots
<1> DEFINE f == r.start
           S == Ring!Slot(r, i)
           T == Ring!Slot(r, j)
<1>2. /\ S = IF f + i < 0 THEN f + i + BlockSize + 1
              ELSE IF f + i <= BlockSize THEN f + i ELSE f + i - (BlockSize + 1)
      /\ T = IF f + j < 0 THEN f + j + BlockSize + 1
              ELSE IF f + j <= BlockSize THEN f + j ELSE f + j - (BlockSize + 1)
  BY SlotIs
<1>3. f \in Nat /\ BlockSize \in Nat /\ i \in Int /\ j \in Int
  BY <1>1
<1> HIDE DEF f, S, T
\* Two slots that are the same are a whole number of rounds apart.
<1>4. \/ S - T = i - j
      \/ S - T = (i - j) + (BlockSize + 1) \/ S - T = (i - j) - (BlockSize + 1)
      \/ (f + i < 0 /\ f + j > BlockSize) \/ (f + j < 0 /\ f + i > BlockSize)
  BY <1>2, <1>3
<1>5. ~(f + i < 0 /\ f + j > BlockSize) /\ ~(f + j < 0 /\ f + i > BlockSize)
  BY <1>3
<1>6. S \in Int /\ T \in Int
  BY <1>2, <1>3
<1>7. S # T
  <2> SUFFICES ASSUME S = T PROVE FALSE
    OBVIOUS
  <2>1. S - T = 0
    BY <1>6
  <2> QED  BY <1>3, <1>4, <1>5, <2>1
<1> QED  BY <1>7 DEF S, T

-------------------------------------------------------------------------------
(* What an operation makes of a ring. *)

Values == Items \cup {NONE}

LEMMA RingIs ==
    ASSUME NEW r \in Rings
    PROVE  /\ r = [items |-> r.items, start |-> r.start, length |-> r.length]
           /\ r.items \in [Slots -> Values] /\ r.start \in Slots /\ r.length \in 0 .. BlockSize + 1
           /\ r.start \in Int /\ r.length \in Nat /\ BlockSize \in Nat /\ BlockSize > 1
           /\ \A i \in 0 .. BlockSize : Ring!At(r, i) \in Values /\ Ring!Slot(r, i) \in Slots
                                        /\ Ring!At(r, i) = r.items[Ring!Slot(r, i)]
<1>1. BlockSize \in Nat /\ BlockSize > 1
  BY ListAssumption
<1>2. r = [items |-> r.items, start |-> r.start, length |-> r.length]
      /\ r.items \in [Slots -> Values] /\ r.start \in Slots /\ r.length \in 0 .. BlockSize + 1
  BY DEF Rings, Values
<1>3. \A i \in 0 .. BlockSize : Ring!Slot(r, i) \in Slots
  BY <1>1, SlotIs
<1> QED  BY <1>1, <1>2, <1>3 DEF Ring!At, Slots

LEMMA IsRing ==
    ASSUME NEW items \in [Slots -> Values], NEW start \in Slots, NEW n \in 0 .. BlockSize + 1,
           NEW q, q = [items |-> items, start |-> start, length |-> n]
    PROVE  q \in Rings /\ q.items = items /\ q.start = start /\ q.length = n
BY DEF Rings, Values

LEMMA PushBackIs ==
    ASSUME NEW r \in Rings, r.length <= BlockSize, NEW x \in Values,
           NEW q, q = Ring!PushBack(r, x)
    PROVE  /\ q \in Rings /\ q.length = r.length + 1
           /\ \A i \in 0 .. r.length - 1 : Ring!At(q, i) = Ring!At(r, i)
           /\ Ring!At(q, r.length) = x
<1> DEFINE p == Ring!Slot(r, r.length)
           items == [r.items EXCEPT ![p] = x]
<1>1. /\ r = [items |-> r.items, start |-> r.start, length |-> r.length]
      /\ r.items \in [Slots -> Values] /\ r.start \in Slots /\ r.length \in 0 .. BlockSize
      /\ BlockSize \in Nat
  BY RingIs
<1>2. p \in Slots
  BY <1>1, RingIs
<1>3. q = [items |-> items, start |-> r.start, length |-> r.length + 1]
  <2>1. q = [r EXCEPT !.items = [@ EXCEPT ![p] = x], !.length = @ + 1]
    BY DEF Ring!PushBack
  <2> QED  BY <1>1, <2>1
<1> HIDE DEF p, items
<1>4. items \in [Slots -> Values] /\ \A s \in Slots : items[s] = IF s = p THEN x ELSE r.items[s]
  BY <1>1, <1>2 DEF items
<1>5. q \in Rings /\ q.items = items /\ q.start = r.start /\ q.length = r.length + 1
  <2>1. r.length + 1 \in 0 .. BlockSize + 1
    BY <1>1
  <2> QED  BY <1>1, <1>3, <1>4, <2>1, IsRing
<1>6. \A i : Ring!Slot(q, i) = Ring!Slot(r, i)
  BY <1>5 DEF Ring!Slot
<1>7. ASSUME NEW i \in 0 .. r.length - 1 PROVE Ring!At(q, i) = Ring!At(r, i)
  <2>1. i \in 0 .. BlockSize /\ i # r.length /\ r.length \in 0 .. BlockSize
    BY <1>1
  <2>2. Ring!Slot(r, i) # p /\ Ring!Slot(r, i) \in Slots
    BY <1>1, <2>1, SlotsDiffer, RingIs DEF p
  <2> QED  BY <1>4, <1>5, <1>6, <2>2 DEF Ring!At
<1>8. Ring!At(q, r.length) = x
  BY <1>2, <1>4, <1>5, <1>6 DEF Ring!At, p
<1> QED  BY <1>5, <1>7, <1>8

LEMMA RemoveBackIs ==
    ASSUME NEW r \in Rings, r.length >= 1, NEW q, q = Ring!RemoveBack(r)
    PROVE  /\ q \in Rings /\ q.length = r.length - 1
           /\ \A i \in 0 .. r.length - 2 : Ring!At(q, i) = Ring!At(r, i)
<1> DEFINE p == Ring!Slot(r, r.length - 1)
           items == [r.items EXCEPT ![p] = NONE]
<1>1. /\ r = [items |-> r.items, start |-> r.start, length |-> r.length]
      /\ r.items \in [Slots -> Values] /\ r.start \in Slots /\ r.length \in 1 .. BlockSize + 1
      /\ BlockSize \in Nat
  BY RingIs
<1>2. q = [items |-> items, start |-> r.start, length |-> r.length - 1]
  <2>1. q = [r EXCEPT !.items = [@ EXCEPT ![p] = NONE], !.length = @ - 1]
    BY DEF Ring!RemoveBack
  <2> QED  BY <1>1, <2>1
<1> HIDE DEF p, items
<1>3. items \in [Slots -> Values] /\ \A s \in Slots : s # p => items[s] = r.items[s]
  BY <1>1 DEF items, Values
<1>4. q \in Rings /\ q.items = items /\ q.start = r.start /\ q.length = r.length - 1
  <2>1. r.length - 1 \in 0 .. BlockSize + 1
    BY <1>1
  <2> QED  BY <1>1, <1>2, <1>3, <2>1, IsRing
<1>5. \A i : Ring!Slot(q, i) = Ring!Slot(r, i)
  BY <1>4 DEF Ring!Slot
<1>6. ASSUME NEW i \in 0 .. r.length - 2 PROVE Ring!At(q, i) = Ring!At(r, i)
  <2>1. i \in 0 .. BlockSize /\ i # r.length - 1 /\ r.length - 1 \in 0 .. BlockSize
    BY <1>1
  <2>2. Ring!Slot(r, i) # p /\ Ring!Slot(r, i) \in Slots
    BY <1>1, <2>1, SlotsDiffer, RingIs DEF p
  <2> QED  BY <1>3, <1>4, <1>5, <2>2 DEF Ring!At
<1> QED  BY <1>4, <1>6

LEMMA PushFrontIs ==
    ASSUME NEW r \in Rings, r.length <= BlockSize, NEW x \in Values,
           NEW q, q = Ring!PushFront(r, x)
    PROVE  /\ q \in Rings /\ q.length = r.length + 1 /\ Ring!At(q, 0) = x
           /\ \A i \in 0 .. r.length - 1 : Ring!At(q, i + 1) = Ring!At(r, i)
<1> DEFINE p == Ring!Prev(r.start)
           items == [r.items EXCEPT ![p] = x]
<1>1. /\ r = [items |-> r.items, start |-> r.start, length |-> r.length]
      /\ r.items \in [Slots -> Values] /\ r.start \in Slots /\ r.length \in 0 .. BlockSize
      /\ BlockSize \in Nat
  BY RingIs
<1>2. p \in Slots /\ p = IF r.start = 0 THEN BlockSize ELSE r.start - 1
  BY <1>1, StepIs
<1>3. q = [items |-> items, start |-> p, length |-> r.length + 1]
  <2>1. q = [r EXCEPT !.items = [@ EXCEPT ![p] = x], !.start = p, !.length = @ + 1]
    BY DEF Ring!PushFront
  <2> QED  BY <1>1, <2>1
<1> HIDE DEF p, items
<1>4. items \in [Slots -> Values] /\ \A s \in Slots : items[s] = IF s = p THEN x ELSE r.items[s]
  BY <1>1, <1>2 DEF items
<1>5. q \in Rings /\ q.items = items /\ q.start = p /\ q.length = r.length + 1
  <2>1. r.length + 1 \in 0 .. BlockSize + 1
    BY <1>1
  <2> QED  BY <1>2, <1>3, <1>4, <2>1, IsRing
<1>6. Ring!Slot(q, 0) = p
  BY <1>1, <1>2, <1>5, SlotIs DEF Slots
<1>7. ASSUME NEW i \in 0 .. r.length - 1 PROVE Ring!At(q, i + 1) = Ring!At(r, i)
  <2>1. i \in 0 .. BlockSize /\ i + 1 \in 0 .. BlockSize
    BY <1>1
  <2>2. Ring!Slot(q, i + 1) = Ring!Slot(r, i) /\ Ring!Slot(r, i) \in Slots
    BY <1>1, <1>5, <2>1, StartMovesBack, RingIs DEF p
  <2>3. Ring!Slot(q, i + 1) # Ring!Slot(q, 0)
    BY <1>1, <1>5, <2>1, SlotsDiffer
  <2> QED  BY <1>4, <1>5, <1>6, <2>2, <2>3 DEF Ring!At
<1>8. Ring!At(q, 0) = x
  BY <1>2, <1>4, <1>5, <1>6 DEF Ring!At
<1> QED  BY <1>5, <1>7, <1>8

LEMMA RemoveFrontIs ==
    ASSUME NEW r \in Rings, r.length >= 1, NEW q, q = Ring!RemoveFront(r)
    PROVE  /\ q \in Rings /\ q.length = r.length - 1
           /\ \A i \in 0 .. r.length - 2 : Ring!At(q, i) = Ring!At(r, i + 1)
<1> DEFINE n == Ring!Next(r.start)
           items == [r.items EXCEPT ![r.start] = NONE]
<1>1. /\ r = [items |-> r.items, start |-> r.start, length |-> r.length]
      /\ r.items \in [Slots -> Values] /\ r.start \in Slots /\ r.length \in 1 .. BlockSize + 1
      /\ BlockSize \in Nat
  BY RingIs
<1>2. n \in Slots /\ n = IF r.start = BlockSize THEN 0 ELSE r.start + 1
  BY <1>1, StepIs
<1>3. q = [items |-> items, start |-> n, length |-> r.length - 1]
  <2>1. q = [r EXCEPT !.items = [@ EXCEPT ![r.start] = NONE], !.start = n, !.length = @ - 1]
    BY DEF Ring!RemoveFront
  <2> QED  BY <1>1, <2>1
<1> HIDE DEF n, items
<1>4. items \in [Slots -> Values] /\ \A s \in Slots : s # r.start => items[s] = r.items[s]
  BY <1>1 DEF items, Values
<1>5. q \in Rings /\ q.items = items /\ q.start = n /\ q.length = r.length - 1
  <2>1. r.length - 1 \in 0 .. BlockSize + 1
    BY <1>1
  <2> QED  BY <1>2, <1>3, <1>4, <2>1, IsRing
<1>6. Ring!Slot(r, 0) = r.start
  BY <1>1, SlotIs DEF Slots
<1>7. ASSUME NEW i \in 0 .. r.length - 2 PROVE Ring!At(q, i) = Ring!At(r, i + 1)
  <2>1. i \in 0 .. BlockSize /\ i + 1 \in 0 .. BlockSize
    BY <1>1
  <2>2. Ring!Slot(q, i) = Ring!Slot(r, i + 1) /\ Ring!Slot(r, i + 1) \in Slots
    BY <1>1, <1>5, <2>1, StartMovesOn, RingIs DEF n
  <2>3. Ring!Slot(r, i + 1) # Ring!Slot(r, 0)
    BY <1>1, <2>1, SlotsDiffer
  <2> QED  BY <1>4, <1>5, <1>6, <2>2, <2>3 DEF Ring!At
<1> QED  BY <1>5, <1>7

LEMMA SetAtIs ==
    ASSUME NEW r \in Rings, NEW i \in 0 .. r.length - 1, NEW x \in Values,
           NEW q, q = Ring!SetAt(r, i, x)
    PROVE  /\ q \in Rings /\ q.length = r.length
           /\ \A j \in 0 .. r.length - 1 : Ring!At(q, j) = IF j = i THEN x ELSE Ring!At(r, j)
<1> DEFINE p == Ring!Slot(r, i)
           items == [r.items EXCEPT ![p] = x]
<1>1. /\ r = [items |-> r.items, start |-> r.start, length |-> r.length]
      /\ r.items \in [Slots -> Values] /\ r.start \in Slots /\ r.length \in 0 .. BlockSize + 1
      /\ BlockSize \in Nat /\ i \in 0 .. BlockSize
  BY RingIs
<1>2. p \in Slots
  BY <1>1, RingIs
<1>3. q = [items |-> items, start |-> r.start, length |-> r.length]
  <2>1. q = [r EXCEPT !.items = [@ EXCEPT ![p] = x]]
    BY DEF Ring!SetAt
  <2> QED  BY <1>1, <2>1
<1> HIDE DEF p, items
<1>4. items \in [Slots -> Values] /\ \A s \in Slots : items[s] = IF s = p THEN x ELSE r.items[s]
  BY <1>1, <1>2 DEF items
<1>5. q \in Rings /\ q.items = items /\ q.start = r.start /\ q.length = r.length
  BY <1>1, <1>3, <1>4, IsRing
<1>6. \A j : Ring!Slot(q, j) = Ring!Slot(r, j)
  BY <1>5 DEF Ring!Slot
<1>7. ASSUME NEW j \in 0 .. r.length - 1 PROVE Ring!At(q, j) = IF j = i THEN x ELSE Ring!At(r, j)
  <2>1. j \in 0 .. BlockSize
    BY <1>1
  <2>2. Ring!Slot(r, j) \in Slots /\ (j # i => Ring!Slot(r, j) # p)
    BY <1>1, <2>1, SlotsDiffer, RingIs DEF p
  <2> QED  BY <1>4, <1>5, <1>6, <2>2 DEF Ring!At, p
<1> QED  BY <1>5, <1>7

\* The slots with x put into slot a, and items of r moved to the slots "moved" says.
Shifted(r, a, x, moved) ==
    [s \in Ring!Indices |->
       IF s = a THEN x
       ELSE IF {k \in DOMAIN moved : moved[k] = s} # {}
            THEN Ring!At(r, CHOOSE k \in {k \in DOMAIN moved : moved[k] = s} : TRUE)
       ELSE r.items[s]]

Placed(items, r, a, x, D, moved) ==
    /\ items \in [Slots -> Values] /\ items[a] = x
    /\ \A s \in Slots : s # a /\ (\A k \in D : moved[k] # s) => items[s] = r.items[s]
    /\ \A s \in Slots, k \in D :
          s # a /\ moved[k] = s /\ (\A h \in D : h # k => moved[h] # s)
          => items[s] = Ring!At(r, k)

\* What becomes of the items when those at the places in D move to the slots "moved" says.
LEMMA MovedIs ==
    ASSUME NEW r \in Rings, NEW a \in Slots, NEW x \in Values, NEW D \in SUBSET (0 .. BlockSize),
           NEW moved \in [D -> Slots],
           NEW items, items = Shifted(r, a, x, moved)
    PROVE  Placed(items, r, a, x, D, moved)
<1> DEFINE target(s) == {k \in DOMAIN moved : moved[k] = s}
           pick(s) == CHOOSE k \in target(s) : TRUE
<1>1. DOMAIN moved = D /\ Ring!Indices = Slots
  BY ListAssumption DEF Ring!Indices, Slots
<1>2. \A s : target(s) # {} => pick(s) \in D /\ moved[pick(s)] = s
  BY <1>1
<1>3. \A s : target(s) = {} <=> \A k \in D : moved[k] # s
  BY <1>1
<1>4. items = [s \in Slots |-> IF s = a THEN x ELSE IF target(s) # {} THEN Ring!At(r, pick(s))
                               ELSE r.items[s]]
  BY <1>1 DEF Shifted
<1> HIDE DEF target, pick
<1>5. \A s \in Slots : r.items[s] \in Values
  BY RingIs
<1>6. \A k \in D : Ring!At(r, k) \in Values
  BY RingIs
<1>7. items \in [Slots -> Values]
  <2>1. ASSUME NEW s \in Slots
        PROVE  (IF s = a THEN x ELSE IF target(s) # {} THEN Ring!At(r, pick(s)) ELSE r.items[s])
               \in Values
    <3>1. CASE s = a
      BY <3>1
    <3>2. CASE s # a /\ target(s) # {}
      BY <1>2, <1>6, <3>2
    <3>3. CASE s # a /\ target(s) = {}
      BY <1>5, <3>3
    <3> QED  BY <3>1, <3>2, <3>3
  <2> QED  BY <1>4, <2>1
<1>8. items[a] = x
  BY <1>4
<1>9. ASSUME NEW s \in Slots, s # a, \A k \in D : moved[k] # s PROVE items[s] = r.items[s]
  BY <1>3, <1>4, <1>9
<1>10. ASSUME NEW s \in Slots, NEW k \in D, s # a, moved[k] = s,
              \A h \in D : h # k => moved[h] # s
       PROVE  items[s] = Ring!At(r, k)
  <2>1. target(s) # {}
    BY <1>3, <1>10
  <2>2. pick(s) = k
    BY <1>2, <1>10, <2>1
  <2> QED  BY <1>4, <1>10, <2>1, <2>2
<1> QED  BY <1>7, <1>8, <1>9, <1>10 DEF Placed

\* An item put into a ring that has room comes in at i, or behind the item there: in the
\* front half.
Entry(r, i) == IF Ring!InFrontHalf(r, i) THEN i + 1 ELSE i

LEMMA InsertAtIs ==
    ASSUME NEW r \in Rings, r.length <= BlockSize, NEW i \in 0 .. r.length, NEW x \in Values,
           NEW q, q = Ring!InsertAt(r, i, x)
    PROVE  /\ q \in Rings /\ q.length = r.length + 1
           /\ Entry(r, i) \in 0 .. r.length
           /\ \A j \in 0 .. Entry(r, i) - 1 : Ring!At(q, j) = Ring!At(r, j)
           /\ Ring!At(q, Entry(r, i)) = x
           /\ \A j \in Entry(r, i) .. r.length - 1 : Ring!At(q, j + 1) = Ring!At(r, j)
<1> DEFINE front == Ring!InFrontHalf(r, i)
           moved == IF front THEN [k \in 0 .. i |-> Ring!Prev(Ring!Slot(r, k))]
                    ELSE [k \in i .. r.length - 1 |-> Ring!Next(Ring!Slot(r, k))]
           D == IF front THEN 0 .. i ELSE i .. r.length - 1
           start == IF front THEN Ring!Prev(r.start) ELSE r.start
           items == [s \in Ring!Indices |->
                      IF s = Ring!Slot(r, i) THEN x
                      ELSE IF {k \in DOMAIN moved : moved[k] = s} # {}
                           THEN Ring!At(r, CHOOSE k \in {k \in DOMAIN moved : moved[k] = s} : TRUE)
                      ELSE r.items[s]]
<1>1. /\ r.start \in Slots /\ r.length \in 0 .. BlockSize /\ BlockSize \in Nat /\ BlockSize > 1
      /\ i \in 0 .. BlockSize /\ i <= r.length
  BY RingIs
<1>2. q = [items |-> items, start |-> start, length |-> r.length + 1]
  BY DEF Ring!InsertAt
<1>3. front => i < r.length
  <2>1. r.length \div 2 <= r.length
    BY <1>1
  <2> QED  BY <1>1, <2>1 DEF Ring!InFrontHalf
<1>4. D \in SUBSET (0 .. BlockSize) /\ \A k \in D : k \in 0 .. BlockSize
  BY <1>1
<1>5. /\ moved \in [D -> Slots]
      /\ front => \A k \in D : moved[k] = Ring!Slot(r, k - 1)
      /\ ~front => \A k \in D : moved[k] = Ring!Slot(r, k + 1)
  <2>1. \A k \in D : /\ Ring!Prev(Ring!Slot(r, k)) = Ring!Slot(r, k - 1)
                     /\ Ring!Next(Ring!Slot(r, k)) = Ring!Slot(r, k + 1)
    BY <1>4, SlotSteps
  <2>2. \A k \in D : Ring!Prev(Ring!Slot(r, k)) \in Slots /\ Ring!Next(Ring!Slot(r, k)) \in Slots
    BY <1>4, RingIs, StepIs
  <2>3. CASE front
    BY <2>1, <2>2, <2>3
  <2>4. CASE ~front
    BY <2>1, <2>2, <2>4
  <2> QED  BY <2>3, <2>4
<1>6. Ring!Slot(r, i) \in Slots
  BY <1>1, RingIs
<1>7. start \in Slots
  BY <1>1, StepIs
<1>8. /\ items \in [Slots -> Values] /\ items[Ring!Slot(r, i)] = x
      /\ \A s \in Slots : s # Ring!Slot(r, i) /\ (\A k \in D : moved[k] # s) => items[s] = r.items[s]
      /\ \A s \in Slots, k \in D :
            s # Ring!Slot(r, i) /\ moved[k] = s /\ (\A h \in D : h # k => moved[h] # s)
            => items[s] = Ring!At(r, k)
  <2> DEFINE slot == Ring!Slot(r, i)
  <2>1. items = Shifted(r, slot, x, moved)
    BY DEF Shifted
  <2>2. slot \in Slots /\ D \in SUBSET (0 .. BlockSize) /\ moved \in [D -> Slots]
    BY <1>4, <1>5, <1>6
  <2>3. slot = Ring!Slot(r, i)
    OBVIOUS
  <2> HIDE DEF D, moved, items, slot
  <2>4. Placed(items, r, slot, x, D, moved)
    BY <2>1, <2>2, MovedIs
  <2> QED  BY <2>3, <2>4 DEF Placed
<1> HIDE DEF moved, items
<1>9. q \in Rings /\ q.items = items /\ q.start = start /\ q.length = r.length + 1
  <2>1. r.length + 1 \in 0 .. BlockSize + 1
    BY <1>1
  <2> HIDE DEF start
  <2> QED  BY <1>2, <1>7, <1>8, <2>1, IsRing
<1>10. \A j, k \in -1 .. BlockSize : j # k /\ j - k <= BlockSize /\ k - j <= BlockSize
                                     => Ring!Slot(r, j) # Ring!Slot(r, k)
  BY <1>1, SlotsDiffer
<1>11. \A j \in 0 .. BlockSize : Ring!Slot(r, j) \in Slots /\ Ring!At(r, j) = r.items[Ring!Slot(r, j)]
  BY RingIs
<1>12. CASE front
  <2> DEFINE e == i + 1
  <2>1. Entry(r, i) = e /\ e \in 0 .. r.length
    BY <1>1, <1>3, <1>12 DEF Entry
  <2>2. D = 0 .. i /\ \A k \in 0 .. i : moved[k] = Ring!Slot(r, k - 1)
    BY <1>5, <1>12
  <2>3. \A j \in 0 .. BlockSize : Ring!Slot(q, j) = Ring!Slot(r, j - 1)
    <3>1. \A j \in 0 .. BlockSize : Ring!Slot(q, j + 1) = Ring!Slot(r, j)
      BY <1>9, <1>12, StartMovesBack
    <3>2. Ring!Slot(q, 0) = Ring!Slot(r, -1)
      <4>1. q.start = Ring!Prev(r.start)
        BY <1>9, <1>12
      <4>2. q.start = IF r.start = 0 THEN BlockSize ELSE r.start - 1
        BY <1>1, <4>1, StepIs
      <4>3. Ring!Slot(q, 0) = q.start
        BY <1>9, FirstSlot
      <4>4. Ring!Slot(r, -1) = IF r.start = 0 THEN BlockSize ELSE r.start - 1
        BY FirstSlot
      <4> QED  BY <4>2, <4>3, <4>4
    <3>3. ASSUME NEW j \in 0 .. BlockSize, j # 0 PROVE Ring!Slot(q, j) = Ring!Slot(r, j - 1)
      <4>1. j - 1 \in 0 .. BlockSize /\ (j - 1) + 1 = j
        BY <1>1, <3>3
      <4> QED  BY <3>1, <4>1
    <3> QED  BY <3>2, <3>3
  <2>4. ASSUME NEW j \in 0 .. i PROVE Ring!At(q, j) = Ring!At(r, j)
    <3>1. j \in 0 .. BlockSize /\ j - 1 \in -1 .. BlockSize /\ j \in D /\ j - 1 # i
      BY <1>1, <2>2
    <3>2. Ring!Slot(r, j - 1) # Ring!Slot(r, i)
      BY <1>1, <1>3, <1>10, <1>12, <3>1
    <3>3. ASSUME NEW h \in D, h # j PROVE moved[h] # Ring!Slot(r, j - 1)
      <4>1. h \in 0 .. i /\ h - 1 \in -1 .. BlockSize
        BY <1>1, <2>2
      <4> QED  BY <1>1, <1>10, <2>2, <3>1, <3>3, <4>1
    <3>4. moved[j] = Ring!Slot(r, j - 1) /\ Ring!Slot(r, j - 1) \in Slots
      BY <1>5, <1>12, <2>2, <3>1
    <3>5. items[Ring!Slot(r, j - 1)] = Ring!At(r, j)
      BY <1>8, <3>1, <3>2, <3>3, <3>4
    <3> QED  BY <1>9, <2>3, <3>1, <3>5 DEF Ring!At
  <2>5. Ring!At(q, e) = x
    <3>1. e \in 0 .. BlockSize /\ e - 1 = i
      BY <1>1, <2>1
    <3> HIDE DEF e
    <3> QED  BY <1>8, <1>9, <2>3, <3>1 DEF Ring!At
  <2>6. ASSUME NEW j \in e .. r.length - 1 PROVE Ring!At(q, j + 1) = Ring!At(r, j)
    <3>1. j \in 0 .. BlockSize /\ j + 1 \in 0 .. BlockSize /\ j # i /\ (j + 1) - 1 = j /\ j > i
          /\ j < r.length
      BY <1>1
    <3>2. Ring!Slot(r, j) # Ring!Slot(r, i)
      BY <1>1, <1>10, <3>1
    <3>3. ASSUME NEW h \in D PROVE moved[h] # Ring!Slot(r, j)
      <4>1. h \in 0 .. i /\ h - 1 \in -1 .. BlockSize /\ h - 1 # j /\ j - (h - 1) <= BlockSize
            /\ (h - 1) - j <= BlockSize
        BY <1>1, <2>2, <3>1
      <4> QED  BY <1>1, <1>10, <2>2, <3>1, <4>1
    <3>4. items[Ring!Slot(r, j)] = r.items[Ring!Slot(r, j)]
      BY <1>8, <1>11, <3>1, <3>2, <3>3
    <3>5. Ring!Slot(q, j + 1) = Ring!Slot(r, j)
      BY <2>3, <3>1
    <3> QED  BY <1>9, <1>11, <3>1, <3>4, <3>5 DEF Ring!At
  <2>7. \A j \in 0 .. e - 1 : Ring!At(q, j) = Ring!At(r, j)
    BY <1>1, <2>4
  <2> HIDE DEF e
  <2> QED  BY <1>9, <2>1, <2>5, <2>6, <2>7
<1>13. CASE ~front
  <2>1. Entry(r, i) = i
    BY <1>13 DEF Entry
  <2>2. D = i .. r.length - 1 /\ \A k \in D : moved[k] = Ring!Slot(r, k + 1)
    BY <1>5, <1>13
  <2>3. \A j : Ring!Slot(q, j) = Ring!Slot(r, j)
    BY <1>9, <1>13 DEF Ring!Slot
  <2>4. ASSUME NEW j \in 0 .. i - 1 PROVE Ring!At(q, j) = Ring!At(r, j)
    <3>1. j \in 0 .. BlockSize /\ j # i
      BY <1>1
    <3>2. Ring!Slot(r, j) # Ring!Slot(r, i)
      BY <1>1, <1>10, <3>1
    <3>3. ASSUME NEW h \in D PROVE moved[h] # Ring!Slot(r, j)
      <4>1. h + 1 \in -1 .. BlockSize /\ h + 1 # j /\ j - (h + 1) <= BlockSize
            /\ (h + 1) - j <= BlockSize
        BY <1>1, <2>2, <3>1
      <4> QED  BY <1>1, <1>10, <2>2, <3>1, <4>1
    <3>4. items[Ring!Slot(r, j)] = r.items[Ring!Slot(r, j)]
      BY <1>8, <1>11, <3>1, <3>2, <3>3
    <3> QED  BY <1>9, <1>11, <2>3, <3>1, <3>4 DEF Ring!At
  <2>5. Ring!At(q, i) = x
    BY <1>8, <1>9, <2>3 DEF Ring!At
  <2>6. ASSUME NEW j \in i .. r.length - 1 PROVE Ring!At(q, j + 1) = Ring!At(r, j)
    <3>1. j \in 0 .. BlockSize /\ j + 1 \in 0 .. BlockSize /\ j + 1 # i /\ j \in D
      BY <1>1, <2>2
    <3>2. Ring!Slot(r, j + 1) # Ring!Slot(r, i) /\ Ring!Slot(r, j + 1) \in Slots
      BY <1>1, <1>10, <1>11, <3>1
    <3>3. ASSUME NEW h \in D, h # j PROVE moved[h] # Ring!Slot(r, j + 1)
      <4>1. h + 1 \in -1 .. BlockSize /\ h + 1 # j + 1 /\ (j + 1) - (h + 1) <= BlockSize
            /\ (h + 1) - (j + 1) <= BlockSize
        BY <1>1, <2>2, <3>1, <3>3
      <4> QED  BY <1>1, <1>10, <2>2, <3>1, <4>1
    <3>4. items[Ring!Slot(r, j + 1)] = Ring!At(r, j)
      BY <1>8, <2>2, <3>1, <3>2, <3>3
    <3> QED  BY <1>9, <2>3, <3>4 DEF Ring!At
  <2>7. i \in 0 .. r.length
    OBVIOUS
  <2> QED  BY <1>9, <2>1, <2>4, <2>5, <2>6, <2>7
<1> QED  BY <1>12, <1>13

LEMMA RemoveAtIs ==
    ASSUME NEW r \in Rings, NEW i \in 0 .. r.length - 1, NEW q, q = Ring!RemoveAt(r, i)
    PROVE  /\ q \in Rings /\ q.length = r.length - 1
           /\ \A j \in 0 .. i - 1 : Ring!At(q, j) = Ring!At(r, j)
           /\ \A j \in i .. r.length - 2 : Ring!At(q, j) = Ring!At(r, j + 1)
<1> DEFINE front == Ring!InFrontHalf(r, i)
           moved == IF front THEN [k \in 0 .. i - 1 |-> Ring!Next(Ring!Slot(r, k))]
                    ELSE [k \in i + 1 .. r.length - 1 |-> Ring!Prev(Ring!Slot(r, k))]
           D == IF front THEN 0 .. i - 1 ELSE i + 1 .. r.length - 1
           start == IF front THEN Ring!Next(r.start) ELSE r.start
           slot == IF front THEN r.start ELSE Ring!Slot(r, r.length - 1)
           items == Shifted(r, slot, NONE, moved)
<1>1. /\ r.start \in Slots /\ r.length \in 1 .. BlockSize + 1 /\ BlockSize \in Nat /\ BlockSize > 1
      /\ i \in 0 .. BlockSize /\ i < r.length /\ r.length - 1 \in 0 .. BlockSize
  BY RingIs
<1>2. q = [items |-> items, start |-> start, length |-> r.length - 1]
  BY DEF Ring!RemoveAt, Shifted
<1>4. D \in SUBSET (0 .. BlockSize) /\ \A k \in D : k \in 0 .. BlockSize
  BY <1>1
<1>5. /\ moved \in [D -> Slots]
      /\ front => \A k \in D : moved[k] = Ring!Slot(r, k + 1)
      /\ ~front => \A k \in D : moved[k] = Ring!Slot(r, k - 1)
  <2>1. \A k \in D : /\ Ring!Prev(Ring!Slot(r, k)) = Ring!Slot(r, k - 1)
                     /\ Ring!Next(Ring!Slot(r, k)) = Ring!Slot(r, k + 1)
    BY <1>4, SlotSteps
  <2>2. \A k \in D : Ring!Prev(Ring!Slot(r, k)) \in Slots /\ Ring!Next(Ring!Slot(r, k)) \in Slots
    BY <1>4, RingIs, StepIs
  <2>3. CASE front
    BY <2>1, <2>2, <2>3
  <2>4. CASE ~front
    BY <2>1, <2>2, <2>4
  <2> QED  BY <2>3, <2>4
<1>6. slot \in Slots /\ slot = IF front THEN Ring!Slot(r, 0) ELSE Ring!Slot(r, r.length - 1)
  BY <1>1, RingIs, FirstSlot
<1>7. start \in Slots
  BY <1>1, StepIs
<1>8. Placed(items, r, slot, NONE, D, moved)
  <2>1. slot \in Slots /\ D \in SUBSET (0 .. BlockSize) /\ moved \in [D -> Slots] /\ NONE \in Values
        /\ items = Shifted(r, slot, NONE, moved)
    BY <1>4, <1>5, <1>6 DEF Values
  <2> HIDE DEF D, moved, items, slot
  <2> QED  BY <2>1, MovedIs
<1> HIDE DEF moved, items, slot
<1>9. q \in Rings /\ q.items = items /\ q.start = start /\ q.length = r.length - 1
  <2>1. r.length - 1 \in 0 .. BlockSize + 1 /\ items \in [Slots -> Values]
    BY <1>1, <1>8 DEF Placed
  <2> HIDE DEF start
  <2> QED  BY <1>2, <1>7, <2>1, IsRing
<1>10. \A j, k \in -1 .. BlockSize + 1 : j # k /\ j - k <= BlockSize /\ k - j <= BlockSize
                                     => Ring!Slot(r, j) # Ring!Slot(r, k)
  BY <1>1, SlotsDiffer
<1>11. \A j \in 0 .. BlockSize : Ring!Slot(r, j) \in Slots /\ Ring!At(r, j) = r.items[Ring!Slot(r, j)]
  BY RingIs
<1>12. CASE front
  <2>0. i < r.length - 1
    <3> DEFINE n == r.length
    <3>1. n \in Nat /\ i \in Nat /\ n >= 1
      BY <1>1
    <3>2. i < n \div 2
      BY <1>12 DEF Ring!InFrontHalf
    <3> HIDE DEF n
    <3>3. i < n - 1
      BY <3>1, <3>2
    <3> QED  BY <3>3 DEF n
  <2>2. D = 0 .. i - 1 /\ \A k \in 0 .. i - 1 : moved[k] = Ring!Slot(r, k + 1)
    BY <1>5, <1>12
  <2>3. \A j \in 0 .. BlockSize : Ring!Slot(q, j) = Ring!Slot(r, j + 1)
    BY <1>9, <1>12, StartMovesOn
  <2>4. ASSUME NEW j \in 0 .. i - 1 PROVE Ring!At(q, j) = Ring!At(r, j)
    <3>1. j \in 0 .. BlockSize /\ j + 1 \in 0 .. BlockSize /\ j \in D
      BY <1>1, <2>2
    <3>2. Ring!Slot(r, j + 1) # slot
      BY <1>1, <1>6, <1>10, <1>12, <3>1
    <3>3. ASSUME NEW h \in D, h # j PROVE moved[h] # Ring!Slot(r, j + 1)
      <4>1. h \in 0 .. i - 1 /\ h + 1 \in 0 .. BlockSize
        BY <1>1, <2>2
      <4> QED  BY <1>1, <1>10, <2>2, <3>1, <3>3, <4>1
    <3>5. items[Ring!Slot(r, j + 1)] = Ring!At(r, j)
      BY <1>8, <1>11, <2>2, <3>1, <3>2, <3>3 DEF Placed
    <3> QED  BY <1>9, <2>3, <3>1, <3>5 DEF Ring!At
  <2>6. ASSUME NEW j \in i .. r.length - 2 PROVE Ring!At(q, j) = Ring!At(r, j + 1)
    <3>1. j \in 0 .. BlockSize /\ j + 1 \in 0 .. BlockSize /\ j >= i
      BY <1>1
    <3>2. Ring!Slot(r, j + 1) # slot
      BY <1>1, <1>6, <1>10, <1>12, <3>1
    <3>3. ASSUME NEW h \in D PROVE moved[h] # Ring!Slot(r, j + 1)
      <4>1. h \in 0 .. i - 1 /\ h + 1 \in 0 .. BlockSize /\ h + 1 # j + 1
        BY <1>1, <2>2, <3>1
      <4> QED  BY <1>1, <1>10, <2>2, <3>1, <4>1
    <3>4. items[Ring!Slot(r, j + 1)] = r.items[Ring!Slot(r, j + 1)]
      BY <1>8, <1>11, <3>1, <3>2, <3>3 DEF Placed
    <3> QED  BY <1>9, <1>11, <2>3, <3>1, <3>4 DEF Ring!At
  <2> QED  BY <1>9, <2>4, <2>6
<1>13. CASE ~front
  <2>2. D = i + 1 .. r.length - 1 /\ \A k \in D : moved[k] = Ring!Slot(r, k - 1)
    BY <1>5, <1>13
  <2>3. \A j : Ring!Slot(q, j) = Ring!Slot(r, j)
    BY <1>9, <1>13 DEF Ring!Slot
  <2>4. ASSUME NEW j \in 0 .. i - 1 PROVE Ring!At(q, j) = Ring!At(r, j)
    <3>1. j \in 0 .. BlockSize /\ j < i
      BY <1>1
    <3>2. Ring!Slot(r, j) # slot
      BY <1>1, <1>6, <1>10, <1>13, <3>1
    <3>3. ASSUME NEW h \in D PROVE moved[h] # Ring!Slot(r, j)
      <4>1. h - 1 \in 0 .. BlockSize /\ h - 1 # j
        BY <1>1, <2>2, <3>1
      <4> QED  BY <1>1, <1>10, <2>2, <3>1, <4>1
    <3>4. items[Ring!Slot(r, j)] = r.items[Ring!Slot(r, j)]
      BY <1>8, <1>11, <3>1, <3>2, <3>3 DEF Placed
    <3> QED  BY <1>9, <1>11, <2>3, <3>1, <3>4 DEF Ring!At
  <2>6. ASSUME NEW j \in i .. r.length - 2 PROVE Ring!At(q, j) = Ring!At(r, j + 1)
    <3>1. j \in 0 .. BlockSize /\ j + 1 \in D /\ (j + 1) - 1 = j
      BY <1>1, <2>2
    <3>2. Ring!Slot(r, j) # slot /\ Ring!Slot(r, j) \in Slots
      BY <1>1, <1>6, <1>10, <1>11, <1>13, <3>1
    <3>3. ASSUME NEW h \in D, h # j + 1 PROVE moved[h] # Ring!Slot(r, j)
      <4>1. h - 1 \in 0 .. BlockSize /\ h - 1 # j
        BY <1>1, <2>2, <3>1, <3>3
      <4> QED  BY <1>1, <1>10, <2>2, <3>1, <4>1
    <3>4. moved[j + 1] = Ring!Slot(r, j)
      BY <2>2, <3>1
    <3>5. items[Ring!Slot(r, j)] = Ring!At(r, j + 1)
      BY <1>8, <3>1, <3>2, <3>3, <3>4 DEF Placed
    <3> QED  BY <1>9, <2>3, <3>5 DEF Ring!At
  <2> QED  BY <1>9, <2>4, <2>6
<1> QED  BY <1>12, <1>13

LEMMA EmptyIs == Ring!Empty \in Rings /\ Ring!Empty.length = 0
<1>1. BlockSize \in Nat /\ Ring!Indices = Slots /\ 0 \in Slots
  BY ListAssumption DEF Ring!Indices, Slots
<1> QED  BY <1>1 DEF Ring!Empty, Rings, Slots

-------------------------------------------------------------------------------
(* Sums over blocks. *)

NatLess == {p \in Nat \X Nat : p[1] < p[2]}

\* A set of naturals that is not empty has a least element.
LEMMA LeastOf ==
    ASSUME NEW T \in SUBSET Nat, T # {}
    PROVE  \E m \in T : \A k \in T : m <= k
<1>1. IsWellFoundedOn(NatLess, Nat)
  BY NatLessThanWellFounded DEF OpToRel, NatLess
<1>2. PICK m \in T : \A k \in T : ~(<<k, m>> \in NatLess)
  BY <1>1, WFMin, Zenon
<1>3. ASSUME NEW k \in T, k < m PROVE FALSE
  <2>1. <<k, m>> \in NatLess
    BY <1>3 DEF NatLess
  <2> QED  BY <2>1, <1>2
<1>4. \A k \in T : m <= k
  BY <1>3
<1> QED  BY <1>4

LEMMA MinOf ==
    ASSUME NEW T \in SUBSET Nat, T # {}, NEW m, m = Min(T)
    PROVE  m \in T /\ m \in Nat /\ \A k \in T : m <= k
BY LeastOf DEF Min

LEMMA MaxOf ==
    ASSUME NEW n \in Nat, NEW T \in SUBSET Nat, \A k \in T : k <= n, T # {},
           NEW m, m = Max(T)
    PROVE  m \in T /\ m \in Nat /\ \A k \in T : k <= m
<1> DEFINE D == {k \in Nat : n - k \in T}
<1>1. PICK z \in T : TRUE
  OBVIOUS
<1>2. n - z \in D
  BY <1>1
<1>3. PICK d \in D : \A k \in D : d <= k
  BY <1>2, LeastOf
<1>4. n - d \in T /\ d \in Nat
  BY <1>3
<1>5. ASSUME NEW k \in T PROVE k <= n - d
  <2>0. n - k \in Nat /\ n - (n - k) = k /\ k \in Nat
    OBVIOUS
  <2>1. n - k \in D
    BY <2>0
  <2>2. d <= n - k /\ d \in Nat
    BY <1>3, <1>4, <2>1
  <2> HIDE DEF D
  <2> QED  BY <2>0, <2>2
<1>6. \E x \in T : \A y \in T : x >= y
  <2>1. \A k \in T : n - d >= k
    BY <1>4, <1>5
  <2> QED  BY <1>4, <2>1
<1>7. m = CHOOSE x \in T : \A y \in T : x >= y
  BY DEF Max
<1>8. m \in T /\ \A k \in T : m >= k
  BY <1>6, <1>7
<1> QED  BY <1>8

\* What holds at 0, and one further wherever it holds, holds as far as n.
LEMMA StepByStep ==
    ASSUME NEW n \in Nat, NEW S, 0 \in S, \A k \in 0 .. n - 1 : k \in S => k + 1 \in S
    PROVE  0 .. n \subseteq S
<1> DEFINE T == {k \in 0 .. n : k \notin S}
<1> SUFFICES ASSUME T # {} PROVE FALSE
  OBVIOUS
<1>0. T \in SUBSET Nat /\ T # {}
  OBVIOUS
<1>1. PICK m \in T : \A k \in T : m <= k
  <2> HIDE DEF T
  <2> QED  BY <1>0, LeastOf
<1>2. m # 0 /\ m \in 1 .. n
  BY <1>1
<1>3. m - 1 \in 0 .. n - 1 /\ m - 1 \notin T /\ (m - 1) + 1 = m
  BY <1>1, <1>2
<1>4. m - 1 \in S
  BY <1>3
<1>5. m \in S
  BY <1>3, <1>4
<1> QED  BY <1>1, <1>5

LEMMA SumExists ==
    ASSUME NEW n \in Nat, NEW f \in [1 .. n -> Nat], NEW b \in Nat \ {0}
    PROVE  \E s \in [0 .. n -> Nat] :
              s = [k \in 0 .. n |-> IF k < b THEN 0 ELSE s[k - 1] + f[k]]
<1> DEFINE S == {m \in 0 .. n : \E s \in [0 .. m -> Nat] :
                    \A k \in 0 .. m : s[k] = IF k < b THEN 0 ELSE s[k - 1] + f[k]}
<1>1. 0 \in S
  <2> DEFINE s == [k \in 0 .. 0 |-> 0]
  <2>1. s \in [0 .. 0 -> Nat] /\ \A k \in 0 .. 0 : s[k] = IF k < b THEN 0 ELSE s[k - 1] + f[k]
    OBVIOUS
  <2> QED  BY <2>1
<1>2. ASSUME NEW m \in 0 .. n - 1, m \in S PROVE m + 1 \in S
  <2>1. PICK s \in [0 .. m -> Nat] :
               \A k \in 0 .. m : s[k] = IF k < b THEN 0 ELSE s[k - 1] + f[k]
    BY <1>2
  <2> DEFINE v == IF m + 1 < b THEN 0 ELSE s[m] + f[m + 1]
             t == [k \in 0 .. m + 1 |-> IF k = m + 1 THEN v ELSE s[k]]
  <2>2. v \in Nat
    OBVIOUS
  <2>3. t \in [0 .. m + 1 -> Nat]
    BY <2>2
  <2>4. ASSUME NEW k \in 0 .. m + 1 PROVE t[k] = IF k < b THEN 0 ELSE t[k - 1] + f[k]
    <3>1. CASE k = m + 1
      BY <3>1
    <3>2. CASE k # m + 1
      <4>1. k \in 0 .. m /\ (k >= b => k - 1 \in 0 .. m)
        BY <3>2
      <4>2. t[k] = s[k] /\ (k >= b => t[k - 1] = s[k - 1])
        BY <4>1
      <4> QED  BY <2>1, <4>1, <4>2
    <3> QED  BY <3>1, <3>2
  <2>5. m + 1 \in 0 .. n
    OBVIOUS
  <2> HIDE DEF t
  <2>6. \E u \in [0 .. m + 1 -> Nat] :
            \A k \in 0 .. m + 1 : u[k] = IF k < b THEN 0 ELSE u[k - 1] + f[k]
    BY <2>3, <2>4
  <2> QED  BY <2>5, <2>6
<1> HIDE DEF S
<1>3. n \in S
  <2>1. \A k \in 0 .. n - 1 : k \in S => k + 1 \in S
    BY <1>2
  <2>2. 0 .. n \subseteq S
    BY <1>1, <2>1, StepByStep
  <2> QED  BY <2>2
<1>4. PICK s \in [0 .. n -> Nat] : \A k \in 0 .. n : s[k] = IF k < b THEN 0 ELSE s[k - 1] + f[k]
  BY <1>3 DEF S
<1>5. s = [k \in 0 .. n |-> IF k < b THEN 0 ELSE s[k - 1] + f[k]]
  BY <1>4
<1> QED  BY <1>5

CountIn(bs, b, c) ==
    LET sum[n \in 0 .. Len(bs)] == IF n < b THEN 0 ELSE sum[n - 1] + bs[n].length
    IN  sum[c]

LEMMA CountInIs ==
    ASSUME NEW bs \in Seq(Rings), NEW b \in Nat \ {0}
    PROVE  \A c \in 0 .. Len(bs) :
              /\ CountIn(bs, b, c) \in Nat
              /\ CountIn(bs, b, c) = IF c < b THEN 0 ELSE CountIn(bs, b, c - 1) + bs[c].length
<1> DEFINE n == Len(bs)
           f == [k \in 1 .. n |-> bs[k].length]
           sum == CHOOSE s : s = [k \in 0 .. n |-> IF k < b THEN 0 ELSE s[k - 1] + bs[k].length]
<1>1. n \in Nat /\ f \in [1 .. n -> Nat]
  <2>1. \A k \in 1 .. n : bs[k] \in Rings
    OBVIOUS
  <2>2. \A k \in 1 .. n : bs[k].length \in Nat
    BY <2>1, RingIs
  <2> QED  BY <2>2
<1>2. PICK s \in [0 .. n -> Nat] : s = [k \in 0 .. n |-> IF k < b THEN 0 ELSE s[k - 1] + f[k]]
  <2> HIDE DEF f, n, sum
  <2>1. n \in Nat /\ f \in [1 .. n -> Nat] /\ b \in Nat \ {0}
    BY <1>1
  <2> QED  BY ONLY <2>1, SumExists, Zenon
<1>3. s = [k \in 0 .. n |-> IF k < b THEN 0 ELSE s[k - 1] + bs[k].length]
  <2>1. \A k \in 0 .. n : ~(k < b) => f[k] = bs[k].length
    BY <1>1
  <2> HIDE DEF f, n
  <2> QED  BY <1>2, <2>1
<1>4. sum = [k \in 0 .. n |-> IF k < b THEN 0 ELSE sum[k - 1] + bs[k].length]
  <2> HIDE DEF n
  <2> QED  BY <1>3
<1>5. \A c : CountIn(bs, b, c) = sum[c]
  BY DEF CountIn
<1> DEFINE T == {c \in 0 .. n : sum[c] \in Nat}
<1> HIDE DEF sum
<1>6. \A k \in 0 .. n : sum[k] = IF k < b THEN 0 ELSE sum[k - 1] + bs[k].length
  BY <1>4
<1>7. n \in Nat /\ 0 \in T
  BY <1>1, <1>6
<1>8. ASSUME NEW k \in 0 .. n - 1, k \in T PROVE k + 1 \in T
  <2>1. k + 1 \in 0 .. n /\ (k + 1) - 1 = k /\ k + 1 \in 1 .. n
    BY <1>1
  <2>2. bs[k + 1].length \in Nat
    BY <1>1, <2>1
  <2>3. sum[k + 1] = IF k + 1 < b THEN 0 ELSE sum[k] + bs[k + 1].length
    BY <1>6, <2>1
  <2> QED  BY <1>8, <2>1, <2>2, <2>3
<1> HIDE DEF T, n
<1>9. 0 .. n \subseteq T
  BY <1>7, <1>8, StepByStep
<1>10. \A c \in 0 .. n : sum[c] \in Nat
  BY <1>9 DEF T
<1> QED  BY <1>5, <1>6, <1>10 DEF n

\* The items in the first c blocks.
Upto(bs, c) == CountIn(bs, 1, c)

LEMMA UptoIs ==
    ASSUME NEW bs \in Seq(Rings)
    PROVE  /\ Len(bs) \in Nat /\ Upto(bs, 0) = 0
           /\ \A c \in 0 .. Len(bs) : Upto(bs, c) \in Nat
           /\ \A c \in 1 .. Len(bs) : /\ bs[c] \in Rings /\ bs[c].length \in 0 .. BlockSize + 1
                                      /\ Upto(bs, c) = Upto(bs, c - 1) + bs[c].length
<1>1. Len(bs) \in Nat /\ 0 \in 0 .. Len(bs) /\ 1 \in Nat \ {0}
  OBVIOUS
<1>2. \A c \in 0 .. Len(bs) :
         /\ CountIn(bs, 1, c) \in Nat
         /\ CountIn(bs, 1, c) = IF c < 1 THEN 0 ELSE CountIn(bs, 1, c - 1) + bs[c].length
  BY <1>1, CountInIs
<1>3. \A c \in 1 .. Len(bs) : bs[c] \in Rings /\ bs[c].length \in 0 .. BlockSize + 1
  <2>1. \A c \in 1 .. Len(bs) : bs[c] \in Rings
    OBVIOUS
  <2> QED  BY <2>1, RingIs
<1> QED  BY <1>1, <1>2, <1>3 DEF Upto

LEMMA CountIs ==
    ASSUME NEW bs \in Seq(Rings), NEW b \in 1 .. Len(bs) + 1
    PROVE  \A c \in b - 1 .. Len(bs) : CountIn(bs, b, c) = Upto(bs, c) - Upto(bs, b - 1)
<1> DEFINE n == Len(bs)
           S == {c \in 0 .. n : c >= b - 1 => CountIn(bs, b, c) = Upto(bs, c) - Upto(bs, b - 1)}
<1>1. /\ n \in Nat /\ b \in Nat \ {0} /\ b - 1 \in 0 .. n
      /\ \A c \in 0 .. n : Upto(bs, c) \in Nat
      /\ \A c \in 1 .. n : bs[c].length \in Nat /\ Upto(bs, c) = Upto(bs, c - 1) + bs[c].length
  BY UptoIs
<1>2. \A c \in 0 .. n :
         /\ CountIn(bs, b, c) \in Nat
         /\ CountIn(bs, b, c) = IF c < b THEN 0 ELSE CountIn(bs, b, c - 1) + bs[c].length
  BY <1>1, CountInIs
<1>3. \A c \in 0 .. n : c = b - 1 => c \in S
  BY <1>1, <1>2
<1>4. 0 \in S
  BY <1>1, <1>3
<1>5. ASSUME NEW c \in 0 .. n - 1, c \in S PROVE c + 1 \in S
  <2>1. c + 1 \in 1 .. n /\ (c + 1) - 1 = c /\ c + 1 \in 0 .. n
    BY <1>1
  <2>2. CASE c + 1 = b - 1
    BY <1>3, <2>1, <2>2
  <2>3. CASE c + 1 < b - 1
    BY <1>1, <2>1, <2>3
  <2>4. CASE c + 1 > b - 1
    <3>1. c >= b - 1 /\ ~(c + 1 < b)
      BY <1>1, <2>1, <2>4
    <3>2. CountIn(bs, b, c) = Upto(bs, c) - Upto(bs, b - 1)
      BY <1>5, <3>1
    <3>3. CountIn(bs, b, c + 1) = CountIn(bs, b, c) + bs[c + 1].length
      BY <1>2, <2>1, <3>1
    <3>4. Upto(bs, c + 1) = Upto(bs, c) + bs[c + 1].length
      BY <1>1, <2>1
    <3>5. Upto(bs, c) \in Nat /\ Upto(bs, b - 1) \in Nat /\ bs[c + 1].length \in Nat
      BY <1>1, <2>1
    <3>6. CountIn(bs, b, c + 1) = Upto(bs, c + 1) - Upto(bs, b - 1)
      BY <3>2, <3>3, <3>4, <3>5
    <3> QED  BY <2>1, <3>6
  <2> QED  BY <1>1, <2>2, <2>3, <2>4
<1> HIDE DEF S
<1>6. 0 .. n \subseteq S
  <2>1. \A c \in 0 .. n - 1 : c \in S => c + 1 \in S
    BY <1>5
  <2> HIDE DEF n
  <2> QED  BY <1>1, <1>4, <2>1, StepByStep
<1>7. b - 1 .. n \subseteq 0 .. n
  BY <1>1
<1> QED  BY <1>6, <1>7 DEF S

LEMMA UptoGrows ==
    ASSUME NEW bs \in Seq(Rings), NEW c \in 0 .. Len(bs), NEW d \in 0 .. Len(bs), c <= d
    PROVE  Upto(bs, c) <= Upto(bs, d)
<1> DEFINE n == Len(bs)
           S == {k \in 0 .. n : c <= k => Upto(bs, c) <= Upto(bs, k)}
<1>1. /\ n \in Nat
      /\ \A k \in 0 .. n : Upto(bs, k) \in Nat
      /\ \A k \in 1 .. n : bs[k].length \in Nat /\ Upto(bs, k) = Upto(bs, k - 1) + bs[k].length
  BY UptoIs
<1>2. 0 \in S
  BY <1>1
<1>3. ASSUME NEW k \in 0 .. n - 1, k \in S PROVE k + 1 \in S
  <2>1. k + 1 \in 1 .. n /\ (k + 1) - 1 = k /\ k \in 0 .. n /\ k + 1 \in 0 .. n
    BY <1>1
  <2>2. Upto(bs, k + 1) = Upto(bs, k) + bs[k + 1].length /\ bs[k + 1].length \in Nat
    BY <1>1, <2>1
  <2>3. CASE c = k + 1
    BY <1>1, <2>1, <2>3
  <2>4. CASE c # k + 1
    BY <1>1, <1>3, <2>1, <2>2, <2>4
  <2> QED  BY <2>3, <2>4
<1> HIDE DEF S
<1>4. 0 .. n \subseteq S
  <2>1. \A k \in 0 .. n - 1 : k \in S => k + 1 \in S
    BY <1>3
  <2> HIDE DEF n
  <2> QED  BY <1>1, <1>2, <2>1, StepByStep
<1> QED  BY <1>4 DEF S

\* The first m blocks are as long as before, but for block u with e items more.
LengthsDiffer(cs, bs, m, u, e) ==
    \A c \in 1 .. m : cs[c].length = bs[c].length + (IF c = u THEN e ELSE 0)
CountsDiffer(cs, bs, m, u, e) ==
    \A c \in 0 .. m : Upto(cs, c) = Upto(bs, c) + (IF c >= u THEN e ELSE 0)

\* One block that gets or loses items moves the count of those behind it.
LEMMA UptoChanges ==
    ASSUME NEW bs \in Seq(Rings), NEW cs \in Seq(Rings), NEW m \in Nat, m <= Len(bs), m <= Len(cs),
           NEW u \in Nat \ {0}, NEW e \in Int, LengthsDiffer(cs, bs, m, u, e)
    PROVE  CountsDiffer(cs, bs, m, u, e)
<1> DEFINE S == {k \in 0 .. m : Upto(cs, k) = Upto(bs, k) + (IF k >= u THEN e ELSE 0)}
<1>1. /\ Len(bs) \in Nat /\ Upto(bs, 0) = 0
      /\ \A k \in 0 .. Len(bs) : Upto(bs, k) \in Nat
      /\ \A k \in 1 .. Len(bs) : bs[k].length \in Nat
                                 /\ Upto(bs, k) = Upto(bs, k - 1) + bs[k].length
  BY UptoIs
<1>2. /\ Len(cs) \in Nat /\ Upto(cs, 0) = 0
      /\ \A k \in 0 .. Len(cs) : Upto(cs, k) \in Nat
      /\ \A k \in 1 .. Len(cs) : cs[k].length \in Nat
                                 /\ Upto(cs, k) = Upto(cs, k - 1) + cs[k].length
  BY UptoIs
<1>3. 0 \in S
  BY <1>1, <1>2
<1>4. ASSUME NEW k \in 0 .. m - 1, k \in S PROVE k + 1 \in S
  <2>1. k + 1 \in 1 .. m /\ (k + 1) - 1 = k /\ k \in 0 .. m /\ k + 1 \in 0 .. m
    OBVIOUS
  <2>2. Upto(bs, k + 1) = Upto(bs, k) + bs[k + 1].length /\ bs[k + 1].length \in Nat
    BY <1>1, <2>1
  <2>3. Upto(cs, k + 1) = Upto(cs, k) + cs[k + 1].length
        /\ cs[k + 1].length = bs[k + 1].length + (IF k + 1 = u THEN e ELSE 0)
    BY <1>2, <2>1 DEF LengthsDiffer
  <2>4. Upto(cs, k) = Upto(bs, k) + (IF k >= u THEN e ELSE 0)
    BY <1>4
  <2>5. Upto(bs, k) \in Nat
    BY <1>1, <2>1
  <2>6. Upto(cs, k + 1) = Upto(bs, k + 1) + (IF k + 1 >= u THEN e ELSE 0)
    BY <2>1, <2>2, <2>3, <2>4, <2>5
  <2> QED  BY <2>1, <2>6
<1> HIDE DEF S
<1>5. 0 .. m \subseteq S
  <2>1. \A k \in 0 .. m - 1 : k \in S => k + 1 \in S
    BY <1>4
  <2> QED  BY <1>3, <2>1, StepByStep
<1> QED  BY <1>5 DEF S, CountsDiffer

-------------------------------------------------------------------------------
(* The items of all blocks, in their order. *)

LEMMA FlattenExists ==
    ASSUME NEW V, NEW ss \in Seq(Seq(V)), Len(ss) # 0
    PROVE  \E s \in [1 .. Len(ss) -> Seq(V)] :
              s = [k \in 1 .. Len(ss) |-> IF k = 1 THEN ss[k] ELSE s[k - 1] \o ss[k]]
<1> DEFINE n == Len(ss)
           S == {m \in 0 .. n : \E s \in [1 .. m -> Seq(V)] :
                    \A k \in 1 .. m : s[k] = IF k = 1 THEN ss[k] ELSE s[k - 1] \o ss[k]}
<1>0. n \in Nat /\ \A k \in 1 .. n : ss[k] \in Seq(V)
  OBVIOUS
<1>1. 0 \in S
  <2> DEFINE s == [k \in 1 .. 0 |-> <<>>]
  <2>1. s \in [1 .. 0 -> Seq(V)]
        /\ \A k \in 1 .. 0 : s[k] = IF k = 1 THEN ss[k] ELSE s[k - 1] \o ss[k]
    OBVIOUS
  <2>2. 0 \in 0 .. n
    BY <1>0
  <2> HIDE DEF s
  <2>3. \E u \in [1 .. 0 -> Seq(V)] :
            \A k \in 1 .. 0 : u[k] = IF k = 1 THEN ss[k] ELSE u[k - 1] \o ss[k]
    BY <2>1
  <2> QED  BY <2>2, <2>3
<1>2. ASSUME NEW m \in 0 .. n - 1, m \in S PROVE m + 1 \in S
  <2>1. PICK s \in [1 .. m -> Seq(V)] :
               \A k \in 1 .. m : s[k] = IF k = 1 THEN ss[k] ELSE s[k - 1] \o ss[k]
    BY <1>2
  <2> DEFINE v == IF m + 1 = 1 THEN ss[m + 1] ELSE s[m] \o ss[m + 1]
             t == [k \in 1 .. m + 1 |-> IF k = m + 1 THEN v ELSE s[k]]
  <2>2. v \in Seq(V)
    <3>1. m + 1 \in 1 .. n /\ (m + 1 # 1 => m \in 1 .. m)
      BY <1>0
    <3>2. ss[m + 1] \in Seq(V) /\ (m + 1 # 1 => s[m] \in Seq(V))
      BY <1>0, <3>1
    <3> QED  BY <3>2
  <2> HIDE DEF v
  <2>3. t \in [1 .. m + 1 -> Seq(V)]
    BY <2>2
  <2>4. ASSUME NEW k \in 1 .. m + 1 PROVE t[k] = IF k = 1 THEN ss[k] ELSE t[k - 1] \o ss[k]
    <3>1. CASE k = m + 1
      <4>1. t[k] = v /\ (k # 1 => t[k - 1] = s[m])
        BY <3>1
      <4> HIDE DEF t
      <4> QED  BY <3>1, <4>1 DEF v
    <3>2. CASE k # m + 1
      <4>1. k \in 1 .. m /\ (k # 1 => k - 1 \in 1 .. m)
        BY <3>2
      <4>2. t[k] = s[k] /\ (k # 1 => t[k - 1] = s[k - 1])
        BY <4>1
      <4> HIDE DEF t
      <4> QED  BY <2>1, <4>1, <4>2
    <3> QED  BY <3>1, <3>2
  <2>5. m + 1 \in 0 .. n
    BY <1>0
  <2> HIDE DEF t
  <2>6. \E u \in [1 .. m + 1 -> Seq(V)] :
            \A k \in 1 .. m + 1 : u[k] = IF k = 1 THEN ss[k] ELSE u[k - 1] \o ss[k]
    BY <2>3, <2>4
  <2> QED  BY <2>5, <2>6
<1> HIDE DEF S
<1>3. n \in S
  <2>1. \A k \in 0 .. n - 1 : k \in S => k + 1 \in S
    BY <1>2
  <2> HIDE DEF n
  <2>2. 0 .. n \subseteq S
    BY <1>0, <1>1, <2>1, StepByStep
  <2> QED  BY <1>0, <2>2
<1>4. PICK s \in [1 .. n -> Seq(V)] :
             \A k \in 1 .. n : s[k] = IF k = 1 THEN ss[k] ELSE s[k - 1] \o ss[k]
  BY <1>3 DEF S
<1>5. s = [k \in 1 .. n |-> IF k = 1 THEN ss[k] ELSE s[k - 1] \o ss[k]]
  BY <1>4
<1> QED  BY <1>5

\* The contents of a sequence of blocks, and where the items of each are in it.
ContentsIn(bs) == FlattenSeq([b \in 1 .. Len(bs) |-> Ring!Contents(bs[b])])

\* s has the items of the first c blocks.
Lines(s, bs, c) ==
    /\ Len(s) = Upto(bs, c)
    /\ \A b \in 1 .. c : \A i \in 0 .. bs[b].length - 1 : s[Upto(bs, b - 1) + i + 1] = Ring!At(bs[b], i)

LEMMA RingContents ==
    ASSUME NEW r \in Rings, NEW s, s = Ring!Contents(r)
    PROVE  s \in Seq(Values) /\ Len(s) = r.length
           /\ \A i \in 0 .. r.length - 1 : s[i + 1] = Ring!At(r, i)
<1>1. r.length \in 0 .. BlockSize + 1 /\ BlockSize \in Nat
      /\ \A i \in 0 .. BlockSize : Ring!At(r, i) \in Values
  BY RingIs
<1>2. s = [n \in 1 .. r.length |-> Ring!At(r, n - 1)]
  BY DEF Ring!Contents
<1>3. \A n \in 1 .. r.length : n - 1 \in 0 .. BlockSize /\ Ring!At(r, n - 1) \in Values
  BY <1>1
<1>4. s \in [1 .. r.length -> Values] /\ r.length \in Nat
  BY <1>1, <1>2, <1>3
<1>5. \A i \in 0 .. r.length - 1 : i + 1 \in 1 .. r.length /\ (i + 1) - 1 = i
  BY <1>1
<1>6. \A i \in 0 .. r.length - 1 : s[i + 1] = Ring!At(r, i)
  BY <1>2, <1>5
<1>7. s \in Seq(Values) /\ Len(s) = r.length
  <2> DEFINE n == r.length
  <2>1. n \in Nat /\ s \in [1 .. n -> Values]
    BY <1>4
  <2> HIDE DEF n
  <2>2. s \in Seq(Values) /\ Len(s) = n
    BY <2>1
  <2> QED  BY <2>2 DEF n
<1> QED  BY <1>6, <1>7

LEMMA LinesGrow ==
    ASSUME NEW bs \in Seq(Rings), NEW c \in 0 .. Len(bs) - 1, NEW s \in Seq(Values), Lines(s, bs, c),
           NEW t, t = s \o Ring!Contents(bs[c + 1])
    PROVE  t \in Seq(Values) /\ Lines(t, bs, c + 1)
<1> DEFINE r == bs[c + 1]
           x == Ring!Contents(r)
<1>1. /\ Len(bs) \in Nat /\ c + 1 \in 1 .. Len(bs) /\ c \in 0 .. Len(bs) /\ (c + 1) - 1 = c
      /\ r \in Rings /\ r.length \in Nat /\ Upto(bs, c + 1) = Upto(bs, c) + r.length
      /\ Upto(bs, c) \in Nat
      /\ \A b \in 1 .. Len(bs) : /\ bs[b].length \in Nat
                                 /\ Upto(bs, b) = Upto(bs, b - 1) + bs[b].length
      /\ \A b \in 0 .. Len(bs) : Upto(bs, b) \in Nat
  <2>1. Len(bs) \in Nat /\ c + 1 \in 1 .. Len(bs) /\ c \in 0 .. Len(bs) /\ (c + 1) - 1 = c
    OBVIOUS
  <2> QED  BY <2>1, UptoIs
<1>2. x \in Seq(Values) /\ Len(x) = r.length
      /\ \A i \in 0 .. r.length - 1 : x[i + 1] = Ring!At(r, i)
  BY <1>1, RingContents
<1>3. Len(s) = Upto(bs, c)
      /\ \A b \in 1 .. c : \A i \in 0 .. bs[b].length - 1 :
            s[Upto(bs, b - 1) + i + 1] = Ring!At(bs[b], i)
  BY DEF Lines
<1>4. t = s \o x
  OBVIOUS
<1> HIDE DEF x
<1>5. t \in Seq(Values) /\ Len(t) = Len(s) + Len(x)
      /\ (\A k \in 1 .. Len(s) : t[k] = s[k])
      /\ \A k \in 1 .. Len(x) : t[Len(s) + k] = x[k]
  BY <1>2, <1>4, ConcatProperties
<1>6. Len(t) = Upto(bs, c + 1)
  <2> DEFINE U == Upto(bs, c)
             rlen == r.length
  <2>1. Len(t) = Len(s) + Len(x) /\ Len(s) = U /\ Len(x) = rlen
    BY <1>2, <1>3, <1>5
  <2>2. Upto(bs, c + 1) = U + rlen
    BY <1>1
  <2> HIDE DEF U, rlen
  <2> QED  BY <2>1, <2>2
<1>7. ASSUME NEW b \in 1 .. c + 1, NEW i \in 0 .. bs[b].length - 1
      PROVE  t[Upto(bs, b - 1) + i + 1] = Ring!At(bs[b], i)
  <2>1. CASE b = c + 1
    <3>1. i + 1 \in 1 .. Len(x) /\ i \in 0 .. r.length - 1
      <4>1. Len(x) = r.length /\ r.length \in Nat
        BY <1>1, <1>2
      <4>2. i \in 0 .. r.length - 1
        BY <2>1
      <4> HIDE DEF r
      <4> QED  BY <4>1, <4>2
    <3>2. t[Len(s) + (i + 1)] = Ring!At(r, i)
      BY <1>2, <1>5, <3>1
    <3>3. Upto(bs, b - 1) + i + 1 = Len(s) + (i + 1)
      BY <1>1, <1>3, <2>1
    <3> QED  BY <2>1, <3>2, <3>3
  <2>2. CASE b # c + 1
    <3> DEFINE k == Upto(bs, b - 1) + i + 1
    <3>1. b \in 1 .. c /\ b \in 1 .. Len(bs) /\ b - 1 \in 0 .. Len(bs) /\ b \in 0 .. Len(bs) /\ b <= c
      <4>1. PICK n : n = Len(bs)
        OBVIOUS
      <4>2. n \in Nat /\ c \in 0 .. n /\ c + 1 \in 1 .. n
        BY <1>1, <4>1
      <4>3. b \in 1 .. c /\ b \in 1 .. n /\ b - 1 \in 0 .. n /\ b \in 0 .. n /\ b <= c
        BY <2>2, <4>2
      <4> QED  BY <4>1, <4>3
    <3>2. Upto(bs, b) <= Upto(bs, c)
      BY <1>1, <3>1, UptoGrows
    <3>3. Upto(bs, b) = Upto(bs, b - 1) + bs[b].length /\ bs[b].length \in Nat
          /\ Upto(bs, b - 1) \in Nat
      BY <1>1, <3>1
    <3>4. k \in 1 .. Len(s)
      <4>1. Len(s) = Upto(bs, c) /\ Upto(bs, c) \in Nat
        BY <1>1, <1>3
      <4>2. i \in Nat /\ i < bs[b].length
        BY <3>3
      <4>3. k \in Nat /\ k >= 1 /\ k <= Upto(bs, b)
        <5> DEFINE U == Upto(bs, b - 1)
                   V == Upto(bs, b)
                   len == bs[b].length
        <5>1. U \in Nat /\ len \in Nat /\ V = U + len /\ i \in Nat /\ i < len /\ k = U + i + 1
          BY <3>3, <4>2
        <5> HIDE DEF U, V, len, k
        <5>2. k \in Nat /\ k >= 1 /\ k <= V
          BY <5>1
        <5> QED  BY <5>2 DEF V
      <4>4. Upto(bs, b) \in Nat
        BY <1>1, <3>1
      <4> HIDE DEF k
      <4> QED  BY <3>2, <4>1, <4>3, <4>4
    <3> HIDE DEF k
    <3>5. t[k] = s[k]
      BY <1>5, <3>4
    <3>6. s[k] = Ring!At(bs[b], i)
      BY <1>3, <3>1 DEF k
    <3> QED  BY <3>5, <3>6 DEF k
  <2> QED  BY <2>1, <2>2
<1> QED  BY <1>5, <1>6, <1>7 DEF Lines

LEMMA ContentsIs ==
    ASSUME NEW bs \in Seq(Rings), NEW s, s = ContentsIn(bs)
    PROVE  s \in Seq(Values) /\ Lines(s, bs, Len(bs))
<1> DEFINE n == Len(bs)
           ss == [b \in 1 .. n |-> Ring!Contents(bs[b])]
<1>1. n \in Nat /\ Upto(bs, 0) = 0 /\ \A b \in 1 .. n : bs[b] \in Rings
  BY UptoIs
<1>2. \A b \in 1 .. n : Ring!Contents(bs[b]) \in Seq(Values)
  BY <1>1, RingContents
<1>3. ss \in Seq(Seq(Values)) /\ Len(ss) = n /\ \A b \in 1 .. n : ss[b] = Ring!Contents(bs[b])
  BY <1>1, <1>2
<1>4. s = FlattenSeq(ss)
  BY DEF ContentsIn
<1> HIDE DEF ss
<1>5. CASE n = 0
  <2>1. s = ss /\ ss = <<>>
    BY <1>3, <1>4, <1>5 DEF FlattenSeq
  <2>2. Lines(s, bs, 0)
    BY <1>1, <2>1 DEF Lines
  <2> QED  BY <1>5, <2>1, <2>2
<1>6. CASE n # 0
  <2> DEFINE F == CHOOSE f : f = [k \in 1 .. Len(ss) |-> IF k = 1 THEN ss[k] ELSE f[k - 1] \o ss[k]]
             S == {k \in 0 .. n - 1 : F[k + 1] \in Seq(Values) /\ Lines(F[k + 1], bs, k + 1)}
  <2>1. F = [k \in 1 .. Len(ss) |-> IF k = 1 THEN ss[k] ELSE F[k - 1] \o ss[k]]
    <3>1. \E f \in [1 .. Len(ss) -> Seq(Values)] :
             f = [k \in 1 .. Len(ss) |-> IF k = 1 THEN ss[k] ELSE f[k - 1] \o ss[k]]
      BY <1>3, <1>6, FlattenExists
    <3> QED  BY <3>1
  <2>2. s = F[Len(ss)]
    <3>1. Len(ss) # 0
      BY <1>3, <1>6
    <3> QED  BY <1>4, <3>1 DEF FlattenSeq
  <2> HIDE DEF F
  <2>3. \A k \in 1 .. n : F[k] = IF k = 1 THEN ss[k] ELSE F[k - 1] \o ss[k]
    BY <1>3, <2>1
  <2>4. 0 \in S
    <3>1. Lines(<<>>, bs, 0) /\ <<>> \in Seq(Values)
      BY <1>1 DEF Lines
    <3>2. 0 \in 0 .. n - 1 /\ 1 \in 1 .. n
      BY <1>1, <1>6
    <3>3. ss[1] = Ring!Contents(bs[0 + 1]) /\ ss[1] \in Seq(Values)
      BY <1>2, <1>3, <3>2
    <3>4. F[1] = <<>> \o Ring!Contents(bs[0 + 1])
      BY <2>3, <3>2, <3>3
    <3>5. F[1] \in Seq(Values) /\ Lines(F[1], bs, 0 + 1)
      BY <3>1, <3>2, <3>4, LinesGrow
    <3> QED  BY <3>2, <3>5
  <2>5. ASSUME NEW k \in 0 .. (n - 1) - 1, k \in S PROVE k + 1 \in S
    <3>1. k + 1 \in 0 .. n - 1 /\ (k + 1) + 1 \in 1 .. n /\ (k + 1) + 1 # 1
          /\ ((k + 1) + 1) - 1 = k + 1
      BY <1>1
    <3>2. F[(k + 1) + 1] = F[k + 1] \o Ring!Contents(bs[(k + 1) + 1])
      BY <1>3, <2>3, <3>1
    <3>3. F[k + 1] \in Seq(Values) /\ Lines(F[k + 1], bs, k + 1)
      BY <2>5
    <3>4. F[(k + 1) + 1] \in Seq(Values) /\ Lines(F[(k + 1) + 1], bs, (k + 1) + 1)
      <4> DEFINE c == k + 1
                 s1 == F[c]
                 t1 == F[c + 1]
      <4>1. c \in 0 .. Len(bs) - 1 /\ s1 \in Seq(Values) /\ Lines(s1, bs, c)
            /\ t1 = s1 \o Ring!Contents(bs[c + 1])
        BY <3>1, <3>2, <3>3
      <4> HIDE DEF c, s1, t1
      <4>2. t1 \in Seq(Values) /\ Lines(t1, bs, c + 1)
        BY <4>1, LinesGrow
      <4> QED  BY <4>2 DEF c, t1
    <3> QED  BY <3>1, <3>4
  <2> HIDE DEF S
  <2>6. n - 1 \in S
    <3>1. n - 1 \in Nat
      BY <1>1, <1>6
    <3>2. \A k \in 0 .. (n - 1) - 1 : k \in S => k + 1 \in S
      BY <2>5
    <3> DEFINE m == n - 1
    <3> HIDE DEF m
    <3>3. m \in Nat /\ \A k \in 0 .. m - 1 : k \in S => k + 1 \in S
      BY <3>1, <3>2 DEF m
    <3>4. 0 .. m \subseteq S
      BY <2>4, <3>3, StepByStep
    <3>5. m \in S
      BY <3>3, <3>4
    <3> QED  BY <3>5 DEF m
  <2>7. F[(n - 1) + 1] \in Seq(Values) /\ Lines(F[(n - 1) + 1], bs, (n - 1) + 1)
    BY <2>6 DEF S
  <2>8. (n - 1) + 1 = n
    BY <1>1
  <2> QED  BY <1>3, <2>2, <2>7, <2>8
<1> QED  BY <1>5, <1>6

-------------------------------------------------------------------------------
(* The list. *)

\* The blocks are filled as they should be, all but the last with BlockSize - 1 items or
\* more.
WellFilled(bs) ==
    /\ bs \in Seq(Rings)
    /\ \A b \in 1 .. Len(bs) :
         /\ bs[b].length \in 1 .. BlockSize + 1
         /\ b < Len(bs) => bs[b].length >= BlockSize - 1
         /\ \A i \in 0 .. bs[b].length - 1 : Ring!At(bs[b], i) \in Items

Stands(place, bs) ==
    /\ place = Place(place.block, place.i)
    /\ place.block \in 1 .. Len(bs)
    /\ place.i \in 0 .. bs[place.block].length - 1

\* Behind the items of a block that is not the last, and not full.
Beyond(place, bs) ==
    /\ place = Place(place.block, place.i)
    /\ place.block \in 1 .. Len(bs) - 1
    /\ place.i \in bs[place.block].length .. BlockSize + 1
    /\ bs[place.block].length <= BlockSize

ListInv ==
    /\ WellFilled(blocks)
    /\ length = Upto(blocks, Len(blocks))
    /\ cursor = NONE \/ Stands(cursor, blocks) \/ Beyond(cursor, blocks)

\* Every item is in a block.
LEMMA InABlock ==
    ASSUME NEW bs \in Seq(Rings), NEW k \in 0 .. Upto(bs, Len(bs)) - 1,
           NEW b, b = Min({c \in 1 .. Len(bs) : k < Upto(bs, c)})
    PROVE  b \in 1 .. Len(bs) /\ k - Upto(bs, b - 1) \in 0 .. bs[b].length - 1
<1> DEFINE T == {c \in 1 .. Len(bs) : k < Upto(bs, c)}
<1>1. /\ Len(bs) \in Nat /\ Upto(bs, 0) = 0
      /\ \A c \in 0 .. Len(bs) : Upto(bs, c) \in Nat
      /\ \A c \in 1 .. Len(bs) : bs[c].length \in Nat
                                 /\ Upto(bs, c) = Upto(bs, c - 1) + bs[c].length
  BY UptoIs
<1>2. k \in Nat /\ k < Upto(bs, Len(bs))
  BY <1>1
<1>3. Len(bs) \in T
  <2>1. Len(bs) # 0
    BY <1>1, <1>2
  <2> QED  BY <1>1, <1>2, <2>1
<1>4. b \in T /\ \A c \in T : b <= c
  <2>1. T \in SUBSET Nat /\ T # {}
    BY <1>3
  <2> HIDE DEF T
  <2>2. b = Min(T)
    BY DEF T
  <2> QED  BY <2>1, <2>2, MinOf
<1>5. b \in 1 .. Len(bs) /\ b - 1 \in 0 .. Len(bs) /\ k < Upto(bs, b)
  BY <1>1, <1>4
<1>6. Upto(bs, b - 1) <= k
  <2>1. CASE b = 1
    BY <1>1, <1>2, <2>1
  <2>2. CASE b # 1
    <3>0. b - 1 \in 1 .. Len(bs) /\ ~(b <= b - 1)
      BY <1>1, <1>5, <2>2
    <3>1. b - 1 \in 1 .. Len(bs) /\ b - 1 \notin T
      BY <1>4, <3>0
    <3>2. ~(k < Upto(bs, b - 1)) /\ Upto(bs, b - 1) \in Nat
      BY <1>1, <1>5, <3>1
    <3> QED  BY <1>2, <3>2
  <2> QED  BY <2>1, <2>2
<1>7. Upto(bs, b) = Upto(bs, b - 1) + bs[b].length /\ bs[b].length \in Nat /\ Upto(bs, b - 1) \in Nat
  BY <1>1, <1>5
<1> QED  BY <1>2, <1>5, <1>6, <1>7

LEMMA CountOf ==
    ASSUME blocks \in Seq(Rings)
    PROVE  /\ \A c \in 0 .. LastBlock : Count(1, c) = Upto(blocks, c)
           /\ \A b \in 1 .. LastBlock + 1 :
                 Count(b, LastBlock) = Upto(blocks, LastBlock) - Upto(blocks, b - 1)
           /\ \A b \in 1 .. LastBlock : Count(2, b) = Upto(blocks, b) - Upto(blocks, 1)
<1>1. \A b, c : Count(b, c) = CountIn(blocks, b, c)
  BY DEF Count, CountIn, LastBlock
<1>2. LastBlock = Len(blocks) /\ LastBlock \in Nat
  BY DEF LastBlock
<1>3. \A b \in 1 .. LastBlock + 1 :
         Count(b, LastBlock) = Upto(blocks, LastBlock) - Upto(blocks, b - 1)
  <2> TAKE b \in 1 .. LastBlock + 1
  <2>1. LastBlock \in b - 1 .. Len(blocks) /\ b \in 1 .. Len(blocks) + 1
    BY <1>2
  <2>2. CountIn(blocks, b, LastBlock) = Upto(blocks, LastBlock) - Upto(blocks, b - 1)
    BY <2>1, CountIs
  <2> QED  BY <1>1, <2>2
<1>4. \A b \in 1 .. LastBlock : Count(2, b) = Upto(blocks, b) - Upto(blocks, 1)
  <2> TAKE b \in 1 .. LastBlock
  <2>1. b \in 2 - 1 .. Len(blocks) /\ 2 \in 1 .. Len(blocks) + 1
    BY <1>2
  <2>2. CountIn(blocks, 2, b) = Upto(blocks, b) - Upto(blocks, 2 - 1)
    BY <2>1, CountIs
  <2> QED  BY <1>1, <2>2
<1> QED  BY <1>1, <1>3, <1>4 DEF Upto

\* The item at i in a list of n, and in a block of "size" that has "before" in front of it.
LEMMA FromTheEnd ==
    ASSUME NEW n \in Nat, NEW i \in 0 .. n - 1, NEW size \in Nat, NEW before \in Nat,
           NEW upto, upto = before + size, NEW j \in Nat, j = n - 1 - i,
           NEW tail, tail = n - upto, tail <= j, j < n - before,
           NEW k, k = size - 1 - (j - tail)
    PROVE  k = i - before /\ k \in 0 .. size - 1
OBVIOUS

\* Counted from either end, the place of an item is the same.
LEMMA LocationIs ==
    ASSUME blocks \in Seq(Rings), length = Upto(blocks, Len(blocks)),
           NEW i \in 0 .. length - 1, NEW p, p = Location(i)
    PROVE  /\ Stands(p, blocks)
           /\ Upto(blocks, p.block - 1) + p.i = i
<1>1. /\ LastBlock = Len(blocks) /\ LastBlock \in Nat /\ Upto(blocks, 0) = 0
      /\ \A c \in 0 .. LastBlock : Upto(blocks, c) \in Nat
      /\ \A c \in 1 .. LastBlock : blocks[c].length \in Nat
                                   /\ Upto(blocks, c) = Upto(blocks, c - 1) + blocks[c].length
  BY UptoIs DEF LastBlock
<1>2. length \in Nat /\ i \in Nat /\ i < length
  BY <1>1
<1>3. LastBlock # 0
  BY <1>1, <1>2
<1>4. CASE i < length \div 2
  <2> DEFINE T == {c \in 1 .. LastBlock : i < Upto(blocks, c)}
             b == Min(T)
  <2>1. b \in 1 .. LastBlock /\ i - Upto(blocks, b - 1) \in 0 .. blocks[b].length - 1
    <3>1. i \in 0 .. Upto(blocks, Len(blocks)) - 1 /\ b = Min({c \in 1 .. Len(blocks) : i < Upto(blocks, c)})
      BY <1>1
    <3> HIDE DEF b
    <3> QED  BY <1>1, <3>1, InABlock
  <2>2. T = {c \in 1 .. LastBlock : i < Count(1, c)}
    BY <1>1, CountOf
  <2>3. p = FromFront(i)
    BY <1>4 DEF Location
  <2> HIDE DEF T
  <2>4. p = [block |-> b, i |-> i - Count(1, b - 1)]
    BY <2>2, <2>3 DEF FromFront
  <2> HIDE DEF b
  <2>5. Count(1, b - 1) = Upto(blocks, b - 1) /\ Upto(blocks, b - 1) \in Nat
    <3>1. b - 1 \in 0 .. LastBlock
      BY <1>1, <2>1
    <3> QED  BY <1>1, <3>1, CountOf
  <2>6. p.block = b /\ p.i = i - Upto(blocks, b - 1) /\ p = [block |-> p.block, i |-> p.i]
    BY <2>4, <2>5
  <2> QED  BY <1>1, <1>2, <2>1, <2>5, <2>6 DEF Stands, Place
<1>5. CASE ~(i < length \div 2)
  <2> DEFINE j == length - 1 - i
             n == LastBlock
             T == {c \in 1 .. n : j < Upto(blocks, n) - Upto(blocks, c - 1)}
             b == Max(T)
  <2>1. j \in Nat /\ j < Upto(blocks, n)
    BY <1>1, <1>2
  <2>2. 1 \in T
    BY <1>1, <1>3, <2>1
  <2>3. b \in T /\ \A c \in T : c <= b
    <3>0. n \in Nat /\ \A c \in T : c \in 1 .. n
      BY <1>1
    <3>1. T \in SUBSET Nat /\ T # {} /\ n \in Nat /\ \A c \in T : c <= n
      <4> HIDE DEF T, n
      <4> QED  BY <2>2, <3>0
    <3> HIDE DEF T, n
    <3> QED  BY <3>1, MaxOf
  <2>4. T = {c \in 1 .. n : j < Count(c, n)}
    <3>1. \A c \in 1 .. n : c \in 1 .. n + 1
      BY <1>1
    <3>2. \A c \in 1 .. n : Count(c, n) = Upto(blocks, n) - Upto(blocks, c - 1)
      BY <3>1, CountOf
    <3> HIDE DEF j
    <3> QED  BY <3>2
  <2>5. p = FromBack(j)
    BY <1>5 DEF Location
  <2>6. p = [block |-> b, i |-> blocks[b].length - 1 - (j - Count(b + 1, n))]
    <3> HIDE DEF j, T
    <3> QED  BY <2>4, <2>5 DEF FromBack
  <2>7. b \in 1 .. n /\ j < Upto(blocks, n) - Upto(blocks, b - 1)
    BY <2>3
  <2> HIDE DEF b
  <2>8. b + 1 \in 1 .. n + 1 /\ b - 1 \in 0 .. n /\ b \in 0 .. n /\ (b + 1) - 1 = b
    BY <1>1, <2>7
  <2>9. Count(b + 1, n) = Upto(blocks, n) - Upto(blocks, b)
    <3> DEFINE d == b + 1
    <3>1. d \in 1 .. n + 1 /\ d - 1 = b
      BY <2>8
    <3> HIDE DEF d
    <3>2. Count(d, n) = Upto(blocks, n) - Upto(blocks, d - 1)
      BY <3>1, CountOf
    <3> QED  BY <3>1, <3>2 DEF d
  <2>10. Upto(blocks, n) - Upto(blocks, b) <= j
    <3>1. CASE b = n
      BY <1>1, <2>1, <2>8, <3>1
    <3>2. CASE b # n
      <4>1. b + 1 \in 1 .. n /\ b + 1 \notin T
        BY <1>1, <2>3, <2>7, <3>2
      <4>2. ~(j < Upto(blocks, n) - Upto(blocks, (b + 1) - 1))
        BY <4>1
      <4>3. ~(j < Upto(blocks, n) - Upto(blocks, b))
        BY <2>8, <4>2
      <4>4. Upto(blocks, n) \in Nat /\ Upto(blocks, b) \in Nat
        BY <1>1, <2>8
      <4> QED  BY <2>1, <4>3, <4>4
    <3> QED  BY <3>1, <3>2
  <2>11. /\ Upto(blocks, b) = Upto(blocks, b - 1) + blocks[b].length
         /\ Upto(blocks, b) \in Nat /\ Upto(blocks, b - 1) \in Nat /\ blocks[b].length \in Nat
         /\ Upto(blocks, n) \in Nat /\ length = Upto(blocks, n)
    BY <1>1, <2>7, <2>8
  <2>12. p.block = b /\ p.i = blocks[b].length - 1 - (j - Count(b + 1, n))
         /\ p = [block |-> p.block, i |-> p.i]
    BY <2>6
  <2> DEFINE tail == Upto(blocks, n) - Upto(blocks, b)
  <2>13. p.i = blocks[b].length - 1 - (j - tail) /\ j = length - 1 - i
    BY <2>9, <2>12
  <2>14. tail = length - Upto(blocks, b) /\ tail <= j
    BY <2>10, <2>11
  <2>15. j < length - Upto(blocks, b - 1)
    BY <2>7, <2>11
  <2> HIDE DEF tail, j
  <2> DEFINE size == blocks[b].length
             before == Upto(blocks, b - 1)
             upto == Upto(blocks, b)
             k == p.i
             total == length
             item == i
  <2>18. /\ size \in Nat /\ before \in Nat /\ upto = before + size
         /\ k = size - 1 - (j - tail) /\ j = total - 1 - item /\ tail = total - upto
         /\ tail <= j /\ j < total - before /\ j \in Nat
         /\ item \in 0 .. total - 1 /\ total \in Nat
    BY <1>2, <2>1, <2>11, <2>13, <2>14, <2>15
  <2> HIDE DEF size, before, upto, k, total, item
  <2>19. k = item - before /\ k \in 0 .. size - 1
    BY <2>18, FromTheEnd
  <2>16. p.i = i - Upto(blocks, b - 1)
    BY <2>19 DEF k, before, item
  <2>17. p.i \in 0 .. blocks[b].length - 1
    BY <2>19 DEF k, size
  <2> QED  BY <1>1, <1>2, <2>7, <2>11, <2>12, <2>16, <2>17 DEF Stands, Place
<1> QED  BY <1>4, <1>5

LEMMA FoundFromInv == ListInv => EveryItemIsFound
<1> SUFFICES ASSUME ListInv PROVE EveryItemIsFound
  OBVIOUS
<1>1. /\ blocks \in Seq(Rings) /\ length = Upto(blocks, Len(blocks)) /\ LastBlock = Len(blocks)
      /\ length \in Nat
  BY UptoIs DEF ListInv, WellFilled, LastBlock
<1>2. Contents = ContentsIn(blocks)
  BY DEF Contents, ContentsIn, LastBlock
<1>3. Lines(Contents, blocks, Len(blocks))
  BY <1>1, <1>2, ContentsIs
<1>4. length = Len(Contents)
  BY <1>1, <1>3 DEF Lines
<1>5. \A b \in 1 .. LastBlock :
         /\ blocks[b].length \in 1 .. BlockSize + 1
         /\ b < LastBlock => blocks[b].length >= BlockSize - 1
  BY <1>1 DEF ListInv, WellFilled
<1>6. ASSUME NEW i \in 0 .. length - 1 PROVE GetAt(i) = Contents[i + 1] /\ GetAt(i) # NONE
  <2> DEFINE p == Location(i)
  <2>1. Stands(p, blocks) /\ Upto(blocks, p.block - 1) + p.i = i
    <3> HIDE DEF p
    <3>1. p = Location(i)
      BY DEF p
    <3> QED  BY <1>1, <3>1, LocationIs
  <2>2. GetAt(i) = Ring!At(blocks[p.block], p.i)
    BY DEF GetAt
  <2> HIDE DEF p
  <2>3. p.block \in 1 .. Len(blocks) /\ p.i \in 0 .. blocks[p.block].length - 1
    BY <2>1 DEF Stands
  <2>4. Contents[Upto(blocks, p.block - 1) + p.i + 1] = GetAt(i)
    BY <1>3, <2>2, <2>3 DEF Lines
  <2>5. GetAt(i) \in Items
    BY <2>2, <2>3 DEF ListInv, WellFilled
  <2> QED  BY <2>1, <2>4, <2>5, ListAssumption
<1> QED  BY <1>4, <1>5, <1>6 DEF EveryItemIsFound

-------------------------------------------------------------------------------
(* An item that comes in. *)

LEMMA ReachIs ==
    ASSUME NEW b \in 1 .. LastBlock, ~Spreads(b), NEW r, r = Reach(b, BlockSize + 1),
           LastBlock \in Nat
    PROVE  /\ r \in b .. LastBlock
           /\ \A c \in b .. r - 1 : blocks[c].length = BlockSize + 1
           /\ r = LastBlock \/ blocks[r].length # BlockSize + 1
<1> DEFINE n == LastBlock
           T == {u \in b .. n : u = b + BlockSize \/ u = n \/ blocks[u].length # BlockSize + 1}
<1>1. n \in Nat /\ b \in 1 .. n /\ BlockSize \in Nat
  BY ListAssumption
<1>2. n \in T
  BY <1>1
<1>3. r = Min(T)
  BY DEF Reach
<1>4. T \in SUBSET Nat /\ T # {}
  <2>1. T \subseteq b .. n
    OBVIOUS
  <2>2. b .. n \subseteq Nat
    <3> HIDE DEF n, T
    <3> QED  BY <1>1
  <2> HIDE DEF T
  <2> QED  BY <1>2, <2>1, <2>2
<1>5. r \in T /\ r \in Nat /\ \A k \in T : r <= k
  <2> HIDE DEF T
  <2> QED  BY <1>3, <1>4, MinOf
<1>6. ~(r = b + BlockSize /\ b + BlockSize < n)
  BY DEF Spreads
<1> HIDE DEF n
<1>7. r \in b .. n /\ (r = n \/ blocks[r].length # BlockSize + 1)
  BY <1>1, <1>5, <1>6
<1>8. ASSUME NEW c \in b .. r - 1 PROVE blocks[c].length = BlockSize + 1
  <2>1. c \in b .. n /\ ~(r <= c)
    BY <1>1, <1>5, <1>7
  <2>2. c \notin T
    BY <1>5, <2>1
  <2> QED  BY <2>1, <2>2
<1> QED  BY <1>7, <1>8 DEF n

\* x has come into block b of bs, at e; the blocks behind it have each taken the last item
\* of the one before, as far as u.
Pushed(q, bs, b, e, u, x) ==
    /\ q \in Seq(Rings) /\ bs \in Seq(Rings) /\ Len(q) = Len(bs)
    /\ b \in 1 .. Len(bs) /\ u \in b .. Len(bs) /\ e \in 0 .. q[b].length - 1
    /\ \A c \in 1 .. Len(bs) : /\ q[c].length = bs[c].length + (IF c = u THEN 1 ELSE 0)
                               /\ c < b \/ c > u => q[c] = bs[c]
    /\ \A j \in 0 .. q[b].length - 1 :
          Ring!At(q[b], j) = IF j < e THEN Ring!At(bs[b], j) ELSE IF j = e THEN x
                             ELSE Ring!At(bs[b], j - 1)
    /\ \A c \in b + 1 .. u :
          /\ bs[c - 1].length >= 1 /\ Ring!At(q[c], 0) = Ring!At(bs[c - 1], bs[c - 1].length - 1)
          /\ \A j \in 1 .. q[c].length - 1 : Ring!At(q[c], j) = Ring!At(bs[c], j - 1)

\* The blocks with an empty one behind them.
Extended(bs, cs) == \/ cs = bs
                    \/ cs = Append(bs, Ring!Empty)

\* The ring the item is put into.
Room(b) == IF blocks[b].length = BlockSize + 1 THEN Ring!RemoveBack(blocks[b]) ELSE blocks[b]

LEMMA InsertedBlocks ==
    ASSUME WellFilled(blocks), NEW b \in 1 .. LastBlock, ~Spreads(b),
           NEW i \in 0 .. blocks[b].length, i <= BlockSize, NEW x \in Items,
           NEW q, q = InsertedAt(b, i, x)
    PROVE  \E bs, u : /\ Extended(blocks, bs) /\ Pushed(q, bs, b, Entry(Room(b), i), u, x)
                      /\ bs = blocks \/ (u = Len(bs) /\ blocks[LastBlock].length = BlockSize + 1)
                      /\ bs[u].length <= BlockSize
<1> DEFINE n == LastBlock
           r == Reach(b, BlockSize + 1)
           full == blocks[r].length = BlockSize + 1
           bs == IF full THEN Append(blocks, Ring!Empty) ELSE blocks
           u == IF full THEN r + 1 ELSE r
           given(c) == IF b <= c /\ c < u THEN Ring!RemoveBack(bs[c]) ELSE bs[c]
           taken(c) == IF b < c /\ c <= u THEN Ring!PushFront(given(c), Passed(bs, c - 1))
                                          ELSE given(c)
           made(c) == IF c = b THEN Ring!InsertAt(given(c), i, x) ELSE taken(c)
           e == Entry(Room(b), i)
<1>1. /\ n = Len(blocks) /\ n \in Nat /\ BlockSize \in Nat /\ BlockSize > 1 /\ blocks \in Seq(Rings)
      /\ \A c \in 1 .. n : blocks[c] \in Rings /\ blocks[c].length \in 1 .. BlockSize + 1
                           /\ \A j \in 0 .. blocks[c].length - 1 : Ring!At(blocks[c], j) \in Items
  BY ListAssumption, UptoIs DEF LastBlock, WellFilled
<1>2. /\ r \in b .. n
      /\ \A c \in b .. r - 1 : blocks[c].length = BlockSize + 1
      /\ r = n \/ blocks[r].length # BlockSize + 1
  <2> HIDE DEF r
  <2>1. r = Reach(b, BlockSize + 1)
    BY DEF r
  <2> QED  BY <1>1, <2>1, ReachIs
<1>3. q = [c \in 1 .. Len(bs) |-> made(c)]
  BY DEF InsertedAt
<1> HIDE DEF r
<1>4. /\ bs \in Seq(Rings) /\ Len(bs) = (IF full THEN n + 1 ELSE n) /\ Extended(blocks, bs)
      /\ \A c \in 1 .. n : bs[c] = blocks[c]
      /\ full => bs[n + 1] = Ring!Empty
  <2>1. CASE full
    BY <1>1, <2>1, EmptyIs, AppendProperties DEF Extended
  <2>2. CASE ~full
    BY <1>1, <2>2 DEF Extended
  <2> QED  BY <2>1, <2>2
<1>5. /\ u \in b .. Len(bs) /\ u \in Nat /\ b <= n
      /\ \A c \in b .. u - 1 : c \in 1 .. n /\ blocks[c].length = BlockSize + 1
      /\ bs[u].length <= BlockSize /\ bs[u] \in Rings
      /\ bs = blocks \/ (u = Len(bs) /\ blocks[n].length = BlockSize + 1)
  <2>1. CASE full
    <3>1. r = n /\ u = n + 1 /\ Len(bs) = n + 1
      BY <1>2, <1>4, <2>1
    <3>2. bs[u] = Ring!Empty
      BY <1>4, <2>1, <3>1
    <3>3. \A c \in b .. n : blocks[c].length = BlockSize + 1
      <4> TAKE c \in b .. n
      <4>1. c = n \/ c \in b .. r - 1
        BY <1>1, <3>1
      <4> QED  BY <1>2, <2>1, <3>1, <4>1
    <3>4. Ring!Empty \in Rings /\ Ring!Empty.length <= BlockSize
      BY <1>1, EmptyIs
    <3>5. /\ u \in b .. Len(bs) /\ u \in Nat /\ b <= n /\ n \in b .. n
          /\ \A c \in b .. u - 1 : c \in 1 .. n /\ c \in b .. n
      BY <1>1, <3>1
    <3> QED  BY <3>1, <3>2, <3>3, <3>4, <3>5
  <2>2. CASE ~full
    <3>1. u = r /\ bs = blocks /\ r \in 1 .. n
      BY <1>1, <1>2, <2>2
    <3>2. blocks[r].length \in 1 .. BlockSize + 1 /\ blocks[r] \in Rings /\ blocks[r].length # BlockSize + 1
      BY <1>1, <2>2, <3>1
    <3>3. blocks[r].length <= BlockSize
      BY <1>1, <3>2
    <3>4. u \in b .. Len(bs) /\ u \in Nat /\ b <= n /\ \A c \in b .. u - 1 : c \in 1 .. n
      BY <1>1, <1>2, <3>1
    <3> QED  BY <1>2, <3>1, <3>2, <3>3, <3>4
  <2> QED  BY <2>1, <2>2
<1> HIDE DEF bs, u, full
\* What each of the blocks between b and u gives.
<1>6. ASSUME NEW c \in b .. u
      PROVE  /\ c \in 1 .. Len(bs) /\ given(c) \in Rings /\ given(c).length <= BlockSize
             /\ given(c).length = bs[c].length - (IF c < u THEN 1 ELSE 0)
             /\ \A j \in 0 .. given(c).length - 1 : Ring!At(given(c), j) = Ring!At(bs[c], j)
  <2>1. c \in 1 .. Len(bs)
    BY <1>1, <1>5
  <2>2. CASE c < u
    <3>1. c \in b .. u - 1 /\ b <= c
      BY <1>1, <1>5, <2>2
    <3>2. bs[c] = blocks[c] /\ bs[c].length = BlockSize + 1 /\ bs[c] \in Rings
      BY <1>1, <1>4, <1>5, <3>1
    <3>3. given(c) = Ring!RemoveBack(bs[c])
      BY <2>2, <3>1
    <3> DEFINE g == given(c)
               a == bs[c]
    <3> HIDE DEF given
    <3>4. a \in Rings /\ a.length >= 1 /\ g = Ring!RemoveBack(a)
      BY <1>1, <3>2, <3>3
    <3> HIDE DEF g, a
    <3>5. /\ g \in Rings /\ g.length = a.length - 1
          /\ \A j \in 0 .. a.length - 2 : Ring!At(g, j) = Ring!At(a, j)
      BY <3>4, RemoveBackIs
    <3>6. a.length = BlockSize + 1
      BY <3>2 DEF a
    <3>7. /\ g \in Rings /\ g.length <= BlockSize
          /\ g.length = a.length - (IF c < u THEN 1 ELSE 0)
          /\ \A j \in 0 .. g.length - 1 : Ring!At(g, j) = Ring!At(a, j)
      BY <1>1, <2>2, <3>5, <3>6
    <3> QED  BY <2>1, <3>7 DEF g, a
  <2>3. CASE ~(c < u)
    <3>1. c = u
      BY <1>1, <1>5, <2>3
    <3>2. given(c) = bs[c] /\ bs[u].length \in 0 .. BlockSize + 1
      BY <1>5, <2>3, RingIs
    <3>3. given(c) \in Rings /\ given(c).length <= BlockSize
          /\ given(c).length = bs[c].length - (IF c < u THEN 1 ELSE 0)
      BY <1>1, <1>5, <2>3, <3>1, <3>2
    <3> QED  BY <2>1, <3>2, <3>3
  <2> QED  BY <2>2, <2>3
<1>7. given(b) = Room(b)
  <2>1. bs[b] = blocks[b]
    BY <1>4
  <2>2. CASE b < u
    <3>1. b \in b .. u - 1
      BY <1>1, <1>5, <2>2
    <3> QED  BY <1>5, <2>1, <2>2, <3>1 DEF Room
  <2>3. CASE ~(b < u)
    <3>1. b = u
      BY <1>1, <1>5, <2>3
    <3> QED  BY <1>1, <1>5, <2>1, <2>3, <3>1 DEF Room
  <2> QED  BY <2>2, <2>3
<1> HIDE DEF given
<1>8. /\ made(b) \in Rings /\ made(b).length = bs[b].length + (IF b = u THEN 1 ELSE 0)
      /\ e \in 0 .. made(b).length - 1
      /\ \A j \in 0 .. made(b).length - 1 :
            Ring!At(made(b), j) = IF j < e THEN Ring!At(bs[b], j) ELSE IF j = e THEN x
                                  ELSE Ring!At(bs[b], j - 1)
  <2> DEFINE g == Room(b)
             m == made(b)
             a == bs[b]
  <2>1. b \in b .. u /\ b \in Nat
    BY <1>1, <1>5
  <2>2. /\ g \in Rings /\ g.length <= BlockSize /\ g.length = a.length - (IF b < u THEN 1 ELSE 0)
        /\ \A j \in 0 .. g.length - 1 : Ring!At(g, j) = Ring!At(a, j)
    BY <1>6, <1>7, <2>1
  <2>3. a.length = blocks[b].length /\ a.length \in 1 .. BlockSize + 1 /\ i \in 0 .. a.length
    BY <1>1, <1>4
  <2>4. m = Ring!InsertAt(g, i, x) /\ x \in Values
    BY <1>7 DEF Values
  <2>5. b < u => a.length = BlockSize + 1
    <3>1. ASSUME b < u PROVE b \in b .. u - 1
      BY <1>1, <1>5, <3>1
    <3> QED  BY <1>4, <1>5, <3>1
  <2> HIDE DEF g, m, a
  <2>6. g.length \in Nat /\ i \in 0 .. g.length
    BY <1>1, <2>2, <2>3, <2>5, RingIs
  <2>7. /\ m \in Rings /\ m.length = g.length + 1
        /\ Entry(g, i) \in 0 .. g.length
        /\ \A j \in 0 .. Entry(g, i) - 1 : Ring!At(m, j) = Ring!At(g, j)
        /\ Ring!At(m, Entry(g, i)) = x
        /\ \A j \in Entry(g, i) .. g.length - 1 : Ring!At(m, j + 1) = Ring!At(g, j)
    BY <2>2, <2>4, <2>6, InsertAtIs
  <2>8. e = Entry(g, i)
    BY DEF g
  <2> HIDE DEF e
  <2>9. m.length = a.length + (IF b = u THEN 1 ELSE 0) /\ e \in 0 .. m.length - 1
    BY <1>5, <2>1, <2>2, <2>3, <2>6, <2>7, <2>8
  <2>10. ASSUME NEW j \in 0 .. m.length - 1
         PROVE  Ring!At(m, j) = IF j < e THEN Ring!At(a, j) ELSE IF j = e THEN x ELSE Ring!At(a, j - 1)
    <3>1. CASE j < e
      <4>1. j \in 0 .. e - 1 /\ j \in 0 .. g.length - 1
        BY <2>6, <2>7, <2>8, <3>1
      <4> QED  BY <2>2, <2>7, <2>8, <3>1, <4>1
    <3>2. CASE j = e
      BY <2>6, <2>7, <2>8, <3>2
    <3>3. CASE j > e
      <4>1. j - 1 \in e .. g.length - 1 /\ j - 1 \in 0 .. g.length - 1 /\ (j - 1) + 1 = j
        BY <2>6, <2>7, <2>8, <3>3
      <4>2. Ring!At(m, (j - 1) + 1) = Ring!At(g, j - 1)
        BY <2>7, <2>8, <4>1
      <4>3. Ring!At(g, j - 1) = Ring!At(a, j - 1)
        BY <2>2, <4>1
      <4>4. ~(j < e) /\ j # e
        BY <2>6, <2>7, <2>8, <3>3
      <4> QED  BY <4>1, <4>2, <4>3, <4>4
    <3> QED  BY <2>6, <2>7, <2>8, <3>1, <3>2, <3>3
  <2> QED  BY <2>7, <2>9, <2>10 DEF m, a
<1>9. ASSUME NEW c \in b + 1 .. u
      PROVE  /\ made(c) \in Rings /\ made(c).length = bs[c].length + (IF c = u THEN 1 ELSE 0)
             /\ bs[c - 1].length >= 1 /\ Ring!At(made(c), 0) = Ring!At(bs[c - 1], bs[c - 1].length - 1)
             /\ \A j \in 1 .. made(c).length - 1 : Ring!At(made(c), j) = Ring!At(bs[c], j - 1)
  <2> DEFINE g == given(c)
             m == made(c)
             a == bs[c]
             p == Passed(bs, c - 1)
  <2>1. c \in b .. u /\ c # b /\ b < c /\ c <= u /\ c - 1 \in b .. u - 1
    BY <1>1, <1>5
  <2>2. /\ g \in Rings /\ g.length <= BlockSize /\ g.length = a.length - (IF c < u THEN 1 ELSE 0)
        /\ \A j \in 0 .. g.length - 1 : Ring!At(g, j) = Ring!At(a, j)
    BY <1>6, <2>1
  <2>3. a.length \in Nat
    <3>1. c \in 1 .. Len(bs)
      BY <1>6, <2>1
    <3> QED  BY <1>4, <3>1, UptoIs
  <2>4. m = Ring!PushFront(g, p)
    BY <2>1
  <2>5. c - 1 \in 1 .. n /\ bs[c - 1] = blocks[c - 1] /\ bs[c - 1].length = BlockSize + 1
    BY <1>4, <1>5, <2>1
  <2>6. p = Ring!At(bs[c - 1], bs[c - 1].length - 1)
    BY DEF Passed, Ring!Back
  <2>7. p \in Values
    <3>1. blocks[c - 1].length - 1 \in 0 .. blocks[c - 1].length - 1
      BY <1>1, <2>5
    <3>2. Ring!At(blocks[c - 1], blocks[c - 1].length - 1) \in Items
      BY <1>1, <2>5, <3>1
    <3> QED  BY <2>5, <2>6, <3>2 DEF Values
  <2> HIDE DEF g, m, a, p
  <2>8. /\ m \in Rings /\ m.length = g.length + 1 /\ Ring!At(m, 0) = p
        /\ \A j \in 0 .. g.length - 1 : Ring!At(m, j + 1) = Ring!At(g, j)
    BY <2>2, <2>4, <2>7, PushFrontIs
  <2>9. m.length = a.length + (IF c = u THEN 1 ELSE 0)
    BY <1>5, <2>1, <2>2, <2>3, <2>8
  <2>10. ASSUME NEW j \in 1 .. m.length - 1 PROVE Ring!At(m, j) = Ring!At(a, j - 1)
    <3>1. g.length \in Nat
      BY <2>2, RingIs
    <3>2. j - 1 \in 0 .. g.length - 1 /\ (j - 1) + 1 = j
      BY <2>8, <3>1
    <3>3. Ring!At(m, (j - 1) + 1) = Ring!At(g, j - 1) /\ Ring!At(g, j - 1) = Ring!At(a, j - 1)
      BY <2>2, <2>8, <3>2
    <3> QED  BY <3>2, <3>3
  <2>11. bs[c - 1].length >= 1
    BY <1>1, <2>5
  <2> QED  BY <2>6, <2>8, <2>9, <2>10, <2>11 DEF m, a
<1>10. ASSUME NEW c \in 1 .. Len(bs), c < b \/ c > u PROVE made(c) = bs[c] /\ c # u
  <2>1. given(c) = bs[c] /\ c # b /\ ~(b < c /\ c <= u) /\ c # u
    <3>1. b \in Nat /\ u \in Nat /\ b <= u /\ c \in Nat
      BY <1>1, <1>5
    <3>2. ~(b <= c /\ c < u) /\ c # b /\ ~(b < c /\ c <= u) /\ c # u
      BY <1>10, <3>1
    <3> QED  BY <3>2 DEF given
  <2> QED  BY <2>1
<1> HIDE DEF made
<1>11. Len(bs) \in Nat /\ \A c \in 1 .. Len(bs) : bs[c] \in Rings /\ bs[c].length \in Nat
  BY <1>4, UptoIs
<1>12. \A c \in 1 .. Len(bs) : c < b \/ c > u \/ c = b \/ c \in b + 1 .. u
  BY <1>1, <1>5, <1>11
<1>13. \A c \in 1 .. Len(bs) : /\ made(c) \in Rings
                               /\ made(c).length = bs[c].length + (IF c = u THEN 1 ELSE 0)
                               /\ c < b \/ c > u => made(c) = bs[c]
  <2> TAKE c \in 1 .. Len(bs)
  <2>1. CASE c < b \/ c > u
    BY <1>10, <1>11, <2>1
  <2>2. CASE c = b /\ ~(c < b \/ c > u)
    BY <1>8, <2>2
  <2>3. CASE c \in b + 1 .. u /\ ~(c < b \/ c > u)
    BY <1>9, <2>3
  <2> QED  BY <1>12, <2>1, <2>2, <2>3
<1>14. q \in Seq(Rings) /\ Len(q) = Len(bs) /\ \A c \in 1 .. Len(bs) : q[c] = made(c)
  BY <1>3, <1>11, <1>13
<1>15. b \in 1 .. Len(bs) /\ \A c \in b + 1 .. u : c \in 1 .. Len(bs)
  BY <1>1, <1>4, <1>5, <1>11
<1> HIDE DEF e
<1>16. Pushed(q, bs, b, e, u, x)
  <2>1. q \in Seq(Rings) /\ bs \in Seq(Rings) /\ Len(q) = Len(bs)
        /\ b \in 1 .. Len(bs) /\ u \in b .. Len(bs) /\ e \in 0 .. q[b].length - 1
    BY <1>4, <1>5, <1>8, <1>14, <1>15
  <2>2. \A c \in 1 .. Len(bs) : /\ q[c].length = bs[c].length + (IF c = u THEN 1 ELSE 0)
                                /\ c < b \/ c > u => q[c] = bs[c]
    BY <1>13, <1>14
  <2>3. q[b] = made(b)
    BY <1>14, <1>15
  <2>4. \A j \in 0 .. q[b].length - 1 :
          Ring!At(q[b], j) = IF j < e THEN Ring!At(bs[b], j) ELSE IF j = e THEN x
                             ELSE Ring!At(bs[b], j - 1)
    BY <1>8, <2>3
  <2>5. ASSUME NEW c \in b + 1 .. u
        PROVE  /\ bs[c - 1].length >= 1
               /\ Ring!At(q[c], 0) = Ring!At(bs[c - 1], bs[c - 1].length - 1)
               /\ \A j \in 1 .. q[c].length - 1 : Ring!At(q[c], j) = Ring!At(bs[c], j - 1)
    <3>1. q[c] = made(c)
      BY <1>14, <1>15
    <3> QED  BY <1>9, <3>1
  <2> QED  BY <2>1, <2>2, <2>4, <2>5 DEF Pushed
<1> QED  BY <1>4, <1>5, <1>16 DEF e

LEMMA ExtendedIs ==
    ASSUME NEW bs \in Seq(Rings), NEW cs, Extended(bs, cs)
    PROVE  /\ cs \in Seq(Rings) /\ Len(cs) \in Len(bs) .. Len(bs) + 1
           /\ \A c \in 1 .. Len(bs) : cs[c] = bs[c]
           /\ \A c \in Len(bs) + 1 .. Len(cs) : cs[c].length = 0
           /\ \A c \in 0 .. Len(bs) : Upto(cs, c) = Upto(bs, c)
           /\ Upto(cs, Len(cs)) = Upto(bs, Len(bs))
           /\ ContentsIn(cs) = ContentsIn(bs)
<1> DEFINE n == Len(bs)
           s == ContentsIn(bs)
           t == ContentsIn(cs)
<1>1. /\ n \in Nat /\ \A c \in 0 .. n : Upto(bs, c) \in Nat
      /\ \A c \in 1 .. n : bs[c].length \in Nat
  BY UptoIs
<1>2. CASE cs = bs
  <2>1. Len(cs) \in n .. n + 1 /\ \A c \in n + 1 .. Len(cs) : cs[c].length = 0
    BY <1>1, <1>2
  <2> QED  BY <1>2, <2>1
<1>3. CASE cs = Append(bs, Ring!Empty)
  <2>1. /\ cs \in Seq(Rings) /\ Len(cs) = n + 1 /\ (\A c \in 1 .. n : cs[c] = bs[c])
        /\ cs[n + 1] = Ring!Empty
    BY <1>3, EmptyIs, AppendProperties
  <2>2. cs[n + 1].length = 0
    BY <2>1, EmptyIs
  <2>3. \A c \in 0 .. n : Upto(cs, c) = Upto(bs, c) + (IF c >= n + 1 THEN 0 ELSE 0)
    <3> DEFINE w == n + 1
    <3>1. /\ n \in Nat /\ n <= Len(bs) /\ n <= Len(cs) /\ w \in Nat \ {0} /\ 0 \in Int
          /\ LengthsDiffer(cs, bs, n, w, 0)
      BY <1>1, <2>1 DEF LengthsDiffer
    <3> HIDE DEF w, n
    <3>2. CountsDiffer(cs, bs, n, w, 0)
      BY <2>1, <3>1, UptoChanges
    <3> QED  BY <3>2 DEF w, CountsDiffer
  <2>4. \A c \in 0 .. n : Upto(cs, c) = Upto(bs, c)
    BY <1>1, <2>3
  <2>5. Upto(cs, n + 1) = Upto(bs, n)
    <3>1. n + 1 \in 1 .. Len(cs) /\ (n + 1) - 1 = n /\ n \in 0 .. n
      BY <1>1, <2>1
    <3>2. Upto(cs, n + 1) = Upto(cs, (n + 1) - 1) + cs[n + 1].length
      BY <2>1, <3>1, UptoIs
    <3> QED  BY <1>1, <2>2, <2>4, <3>1, <3>2
  <2>6. s \in Seq(Values) /\ Lines(s, bs, n) /\ t \in Seq(Values) /\ Lines(t, cs, Len(cs))
    BY <2>1, ContentsIs
  <2>7. Len(s) = Upto(bs, n) /\ Len(t) = Len(s)
    BY <2>1, <2>5, <2>6 DEF Lines
  <2>8. ASSUME NEW k \in 1 .. Len(s) PROVE t[k] = s[k]
    <3> DEFINE h == k - 1
               b == Min({c \in 1 .. Len(bs) : h < Upto(bs, c)})
               j == h - Upto(bs, b - 1)
    <3>1. h \in 0 .. Upto(bs, n) - 1 /\ h + 1 = k
      BY <1>1, <2>7
    <3> HIDE DEF h
    <3>2. b \in 1 .. n /\ j \in 0 .. bs[b].length - 1
      <4>1. b = Min({c \in 1 .. Len(bs) : h < Upto(bs, c)})
        OBVIOUS
      <4> HIDE DEF b
      <4> QED  BY <3>1, <4>1, InABlock
    <3> HIDE DEF b
    <3>3. b - 1 \in 0 .. n /\ b \in 1 .. Len(cs)
      BY <1>1, <2>1, <3>2
    <3>4. Upto(cs, b - 1) = Upto(bs, b - 1) /\ Upto(bs, b - 1) \in Nat /\ cs[b] = bs[b]
      BY <1>1, <2>1, <2>4, <3>2, <3>3
    <3>5. s[Upto(bs, b - 1) + j + 1] = Ring!At(bs[b], j)
      BY <2>6, <3>2 DEF Lines
    <3>6. t[Upto(cs, b - 1) + j + 1] = Ring!At(bs[b], j)
      BY <2>6, <3>2, <3>3, <3>4 DEF Lines
    <3>7. Upto(bs, b - 1) + j + 1 = k
      BY <3>1, <3>4
    <3> QED  BY <3>4, <3>5, <3>6, <3>7
  <2>9. s = t
    <3> HIDE DEF s, t
    <3> QED  BY <2>6, <2>7, <2>8, SeqEqual
  <2>10. Len(cs) \in n .. n + 1 /\ \A c \in n + 1 .. Len(cs) : cs[c].length = 0
    BY <1>1, <2>1, <2>2
  <2> QED  BY <2>1, <2>4, <2>5, <2>9, <2>10
<1> QED  BY <1>2, <1>3 DEF Extended

LEMMA InsertedInto ==
    ASSUME NEW V, NEW s \in Seq(V), NEW t \in Seq(V), NEW x \in V, NEW k \in 0 .. Len(s),
           Len(t) = Len(s) + 1,
           \A h \in 0 .. Len(s) : t[h + 1] = IF h < k THEN s[h + 1] ELSE IF h = k THEN x ELSE s[h]
    PROVE  t = InsertAt(s, k + 1, x)
<1> DEFINE n == Len(s)
           l == SubSeq(s, 1, (k + 1) - 1)
           m == <<x>>
           r == SubSeq(s, k + 1, n)
<1>1. n \in Nat /\ k \in 0 .. n /\ (\A i \in 1 .. n : s[i] \in V) /\ (k + 1) - 1 = k
  OBVIOUS
<1>2. l \in Seq(V) /\ Len(l) = k /\ \A i \in 1 .. k : l[i] = s[i]
  BY <1>1
<1>3. r \in Seq(V) /\ Len(r) = n - k /\ \A i \in 1 .. n - k : r[i] = s[k + i]
  BY <1>1
<1>4. m \in Seq(V) /\ Len(m) = 1 /\ m[1] = x
  OBVIOUS
<1>5. InsertAt(s, k + 1, x) = (l \o m) \o r
  BY DEF InsertAt
<1> DEFINE lm == l \o m
           w == lm \o r
<1> HIDE DEF l, m, r
<1>6. lm \in Seq(V) /\ Len(lm) = k + 1 /\ (\A i \in 1 .. k : lm[i] = s[i]) /\ lm[k + 1] = x
  <2>1. lm \in Seq(V) /\ Len(lm) = Len(l) + Len(m)
        /\ \A i \in 1 .. Len(l) + Len(m) : lm[i] = IF i <= Len(l) THEN l[i] ELSE m[i - Len(l)]
    BY <1>2, <1>4, ConcatProperties
  <2>2. Len(l) + Len(m) = k + 1 /\ Len(l) = k /\ k + 1 \in 1 .. k + 1 /\ ~(k + 1 <= k) /\ (k + 1) - k = 1
    BY <1>1, <1>2, <1>4
  <2>3. \A i \in 1 .. k : i \in 1 .. k + 1 /\ i <= k
    BY <1>1
  <2> HIDE DEF lm
  <2>4. lm[k + 1] = x
    BY <1>4, <2>1, <2>2
  <2>5. \A i \in 1 .. k : lm[i] = s[i]
    BY <1>2, <2>1, <2>2, <2>3
  <2> QED  BY <2>1, <2>2, <2>4, <2>5
<1> HIDE DEF lm
<1>7. w \in Seq(V) /\ Len(w) = n + 1
      /\ \A i \in 1 .. n + 1 : w[i] = IF i <= k + 1 THEN lm[i] ELSE r[i - (k + 1)]
  <2>1. w \in Seq(V) /\ Len(w) = Len(lm) + Len(r)
        /\ \A i \in 1 .. Len(lm) + Len(r) : w[i] = IF i <= Len(lm) THEN lm[i] ELSE r[i - Len(lm)]
    BY <1>3, <1>6, ConcatProperties
  <2>2. Len(lm) + Len(r) = n + 1 /\ Len(lm) = k + 1
    BY <1>1, <1>3, <1>6
  <2> HIDE DEF w
  <2> QED  BY <2>1, <2>2
<1> HIDE DEF w
<1>8. ASSUME NEW i \in 1 .. n + 1 PROVE t[i] = w[i]
  <2>1. i - 1 \in 0 .. n /\ (i - 1) + 1 = i
    BY <1>1
  <2>2. t[i] = IF i - 1 < k THEN s[i] ELSE IF i - 1 = k THEN x ELSE s[i - 1]
    BY <2>1
  <2>3. CASE i <= k
    <3>1. i \in 1 .. k /\ i <= k + 1 /\ i - 1 < k
      BY <1>1, <2>3
    <3> QED  BY <1>6, <1>7, <2>2, <3>1
  <2>4. CASE i = k + 1
    <3>1. i <= k + 1 /\ i - 1 = k /\ ~(k < k)
      BY <1>1, <2>4
    <3> QED  BY <1>6, <1>7, <2>2, <2>4, <3>1
  <2>5. CASE i > k + 1
    <3>1. i - (k + 1) \in 1 .. n - k /\ ~(i <= k + 1) /\ ~(i - 1 < k) /\ i - 1 # k
          /\ k + (i - (k + 1)) = i - 1
      BY <1>1, <2>5
    <3>2. r[i - (k + 1)] = s[i - 1]
      BY <1>3, <3>1
    <3> QED  BY <1>7, <2>2, <3>1, <3>2
  <2> QED  BY <1>1, <2>3, <2>4, <2>5
<1>9. t = w
  BY <1>1, <1>7, <1>8, SeqEqual
<1> QED  BY <1>5, <1>9 DEF w, lm

\* The items as the caller sees them: x is one more.
LEMMA PushedContents ==
    ASSUME NEW q, NEW bs, NEW b, NEW e, NEW u, NEW x \in Values, Pushed(q, bs, b, e, u, x),
           NEW s, s = ContentsIn(bs), NEW t, t = ContentsIn(q),
           NEW k, k = Upto(bs, b - 1) + e
    PROVE  /\ \A c \in 0 .. Len(bs) : Upto(q, c) = Upto(bs, c) + (IF c >= u THEN 1 ELSE 0)
           /\ k \in 0 .. Len(s) /\ t = InsertAt(s, k + 1, x)
<1> DEFINE n == Len(bs)
<1>1. /\ bs \in Seq(Rings) /\ n \in Nat /\ Upto(bs, 0) = 0
      /\ \A c \in 0 .. n : Upto(bs, c) \in Nat
      /\ \A c \in 1 .. n : bs[c].length \in Nat /\ Upto(bs, c) = Upto(bs, c - 1) + bs[c].length
  <2>1. bs \in Seq(Rings)
    BY DEF Pushed
  <2> QED  BY <2>1, UptoIs
<1>2. /\ q \in Seq(Rings) /\ Len(q) = n
      /\ \A c \in 0 .. n : Upto(q, c) \in Nat
      /\ \A c \in 1 .. n : q[c].length \in Nat /\ Upto(q, c) = Upto(q, c - 1) + q[c].length
  <2>1. q \in Seq(Rings) /\ Len(q) = n
    BY DEF Pushed
  <2> QED  BY <2>1, UptoIs
<1>3. /\ b \in 1 .. n /\ u \in b .. n /\ e \in 0 .. q[b].length - 1
      /\ \A c \in 1 .. n : /\ q[c].length = bs[c].length + (IF c = u THEN 1 ELSE 0)
                           /\ c < b \/ c > u => q[c] = bs[c]
      /\ \A j \in 0 .. q[b].length - 1 :
            Ring!At(q[b], j) = IF j < e THEN Ring!At(bs[b], j) ELSE IF j = e THEN x
                               ELSE Ring!At(bs[b], j - 1)
      /\ \A c \in b + 1 .. u :
            /\ bs[c - 1].length >= 1 /\ Ring!At(q[c], 0) = Ring!At(bs[c - 1], bs[c - 1].length - 1)
            /\ \A j \in 1 .. q[c].length - 1 : Ring!At(q[c], j) = Ring!At(bs[c], j - 1)
  BY DEF Pushed
<1>4. \A c \in 0 .. n : Upto(q, c) = Upto(bs, c) + (IF c >= u THEN 1 ELSE 0)
  <2>1. n \in Nat /\ n <= Len(bs) /\ n <= Len(q) /\ u \in Nat \ {0} /\ 1 \in Int
        /\ LengthsDiffer(q, bs, n, u, 1)
    BY <1>1, <1>2, <1>3 DEF LengthsDiffer
  <2> HIDE DEF n
  <2>2. CountsDiffer(q, bs, n, u, 1)
    BY <1>1, <1>2, <2>1, UptoChanges
  <2> QED  BY <2>2 DEF CountsDiffer
<1>5. /\ s \in Seq(Values) /\ Len(s) = Upto(bs, n)
      /\ \A c \in 1 .. n : \A j \in 0 .. bs[c].length - 1 : s[Upto(bs, c - 1) + j + 1] = Ring!At(bs[c], j)
  BY <1>1, ContentsIs DEF Lines
<1>6. /\ t \in Seq(Values) /\ Len(t) = Upto(q, n)
      /\ \A c \in 1 .. n : \A j \in 0 .. q[c].length - 1 : t[Upto(q, c - 1) + j + 1] = Ring!At(q[c], j)
  BY <1>2, ContentsIs DEF Lines
<1>7. Len(t) = Len(s) + 1 /\ Len(s) \in Nat /\ b - 1 \in 0 .. n
  <2>1. n \in 0 .. n /\ u \in 1 .. n /\ n >= u /\ b - 1 \in 0 .. n
    <3>1. n \in Nat /\ b \in 1 .. n /\ u \in b .. n
      BY <1>1, <1>3
    <3> HIDE DEF n
    <3> QED  BY <3>1
  <2> DEFINE S == Upto(bs, n)
             T == Upto(q, n)
  <2>2. S \in Nat /\ T = S + 1
    BY <1>1, <1>4, <2>1
  <2>3. Len(s) = S /\ Len(t) = T
    BY <1>5, <1>6
  <2> HIDE DEF S, T
  <2>4. Len(t) = Len(s) + 1 /\ Len(s) \in Nat
    BY <2>2, <2>3
  <2> QED  BY <2>1, <2>4
<1> DEFINE B == Upto(bs, b - 1)
<1>8. B \in Nat /\ k = B + e /\ k \in 0 .. Len(s)
  <2> DEFINE up == Upto(bs, b)
             len == bs[b].length
             qlen == q[b].length
             ls == Len(s)
             f == IF b = u THEN 1 ELSE 0
  <2>1. Upto(bs, b) <= Upto(bs, n)
    BY <1>1, <1>3, UptoGrows
  <2>2. B \in Nat /\ k = B + e /\ up = B + len /\ len \in Nat /\ qlen = len + f /\ e \in 0 .. qlen - 1
        /\ up <= ls /\ ls \in Nat /\ f \in 0 .. 1
    BY <1>1, <1>3, <1>5, <1>7, <2>1
  <2> HIDE DEF B, up, len, qlen, ls, f
  <2>3. e \in 0 .. len
    BY <2>2
  <2>4. k \in 0 .. ls
    BY <2>2, <2>3
  <2> QED  BY <2>2, <2>4 DEF ls
<1>9. ASSUME NEW h \in 0 .. Len(s)
      PROVE  t[h + 1] = IF h < k THEN s[h + 1] ELSE IF h = k THEN x ELSE s[h]
  <2> DEFINE c == Min({d \in 1 .. Len(q) : h < Upto(q, d)})
             j == h - Upto(q, c - 1)
             Q == Upto(q, c - 1)
             P == Upto(bs, c - 1)
  <2>1. h \in 0 .. Upto(q, Len(q)) - 1 /\ h \in Nat
    BY <1>2, <1>6, <1>7
  <2>2. c \in 1 .. n /\ j \in 0 .. q[c].length - 1
    <3>1. c = Min({d \in 1 .. Len(q) : h < Upto(q, d)})
      OBVIOUS
    <3> HIDE DEF c
    <3> QED  BY <1>2, <2>1, <3>1, InABlock
  <2> HIDE DEF c
  <2>3. c - 1 \in 0 .. n /\ c \in Nat
    BY <1>1, <2>2
  <2>a. Q \in Nat /\ P \in Nat /\ Q = P + (IF c - 1 >= u THEN 1 ELSE 0)
    BY <1>1, <1>2, <1>4, <2>3
  <2>b. j = h - Q
    OBVIOUS
  <2>4. Q \in Nat /\ P \in Nat /\ Q = P + (IF c - 1 >= u THEN 1 ELSE 0) /\ h = Q + j
    <3> HIDE DEF j, Q, P
    <3> QED  BY <2>1, <2>a, <2>b
  <2>5. t[Q + j + 1] = Ring!At(q[c], j)
    BY <1>6, <2>2
  <2>6. j \in Nat /\ q[c].length \in Nat /\ j < q[c].length
    BY <1>2, <2>2
  <2>7. t[h + 1] = Ring!At(q[c], j)
    BY <2>4, <2>5, <2>6
  <2>8. \A i \in 0 .. bs[c].length - 1 : s[P + i + 1] = Ring!At(bs[c], i)
    BY <1>5, <2>2
  <2>9. bs[c].length \in Nat /\ q[c].length = bs[c].length + (IF c = u THEN 1 ELSE 0)
        /\ Upto(bs, c) = P + bs[c].length
    BY <1>1, <1>3, <2>2
  <2>10. b \in Nat /\ u \in Nat /\ b <= u /\ e \in Nat
    BY <1>1, <1>2, <1>3
  <2> HIDE DEF j, Q, P, B
  <2>11. CASE c < b
    <3>1. Upto(bs, c) <= B
      <4>1. c \in 0 .. n /\ c <= b - 1
        BY <1>1, <1>3, <2>2, <2>11
      <4> QED  BY <1>1, <1>7, <4>1, UptoGrows DEF B
    <3>2. q[c] = bs[c] /\ ~(c - 1 >= u) /\ c # u
      BY <1>3, <2>2, <2>3, <2>10, <2>11
    <3>3. Q = P /\ j \in 0 .. bs[c].length - 1
      BY <2>4, <2>6, <2>9, <3>2
    <3>4. s[P + j + 1] = Ring!At(bs[c], j)
      BY <2>8, <3>3
    <3>5. h < k /\ P + j + 1 = h + 1
      <4> DEFINE len == bs[c].length
      <4>1. h = P + j /\ P \in Nat /\ j \in Nat /\ j < len /\ len \in Nat /\ P + len <= B
            /\ B \in Nat /\ e \in Nat /\ k = B + e
        <5>1. h = P + j /\ P \in Nat /\ j \in Nat
          BY <2>4, <2>6, <3>3
        <5>2. len \in Nat /\ j < len
          BY <2>6, <2>9, <3>3
        <5>3. P + len <= B
          BY <2>9, <3>1
        <5> QED  BY <1>8, <2>10, <5>1, <5>2, <5>3
      <4> HIDE DEF len
      <4> QED  BY <4>1
    <3> QED  BY <2>7, <3>2, <3>4, <3>5
  <2>12. CASE c = b
    <3>1. P = B /\ Q = P /\ h = P + j
      BY <2>4, <2>3, <2>10, <2>12 DEF P, B
    <3>2. Ring!At(q[c], j) = IF j < e THEN Ring!At(bs[c], j) ELSE IF j = e THEN x
                             ELSE Ring!At(bs[c], j - 1)
      BY <1>3, <2>2, <2>12
    <3>3. CASE j < e
      <4>1. j \in 0 .. bs[c].length - 1
        <5>1. e < q[c].length
          BY <1>3, <2>6, <2>10, <2>12
        <5> QED  BY <2>6, <2>9, <2>10, <3>3, <5>1
      <4>2. h < k /\ P + j + 1 = h + 1
        BY <1>8, <2>6, <2>10, <3>1, <3>3
      <4> QED  BY <2>7, <2>8, <3>2, <3>3, <4>1, <4>2
    <3>4. CASE j = e
      <4>1. h = k
        BY <1>8, <3>1, <3>4
      <4>2. ~(h < k) /\ ~(j < e)
        BY <2>1, <2>10, <3>4, <4>1
      <4> QED  BY <2>7, <3>2, <3>4, <4>1, <4>2
    <3>5. CASE j > e
      <4>1. j - 1 \in 0 .. bs[c].length - 1 /\ ~(j < e) /\ j # e
        <5> DEFINE len == bs[c].length
                   qlen == q[c].length
                   g == IF c = u THEN 1 ELSE 0
        <5>1. j \in Nat /\ j < qlen /\ len \in Nat /\ qlen = len + g /\ g \in 0 .. 1
              /\ e \in Nat /\ j > e
          BY <2>6, <2>9, <2>10, <3>5
        <5> HIDE DEF len, qlen, g
        <5>2. j - 1 \in 0 .. len - 1 /\ ~(j < e) /\ j # e
          BY <5>1
        <5> QED  BY <5>2 DEF len
      <4>2. ~(h < k) /\ h # k /\ P + (j - 1) + 1 = h
        BY <1>8, <2>6, <2>10, <3>1, <3>5
      <4>3. s[P + (j - 1) + 1] = Ring!At(bs[c], j - 1)
        BY <2>8, <4>1
      <4> QED  BY <2>7, <3>2, <4>1, <4>2, <4>3
    <3> QED  BY <2>6, <2>10, <3>3, <3>4, <3>5
  <2>13. CASE c > b
    <3>1. B + bs[b].length <= P /\ bs[b].length \in Nat
      <4>1. b \in 0 .. n /\ b <= c - 1
        BY <1>1, <1>3, <2>2, <2>13
      <4>2. Upto(bs, b) <= Upto(bs, c - 1)
        BY <1>1, <2>3, <4>1, UptoGrows
      <4> QED  BY <1>1, <1>3, <4>2 DEF P, B
    <3>2. e <= bs[b].length /\ (b < u => e < bs[b].length)
      <4>1. q[b].length = bs[b].length + (IF b = u THEN 1 ELSE 0) /\ e < q[b].length
        BY <1>2, <1>3, <2>10
      <4> QED  BY <2>10, <3>1, <4>1
    <3>3. CASE c > u
      <4>1. q[c] = bs[c] /\ c - 1 >= u /\ c # u
        BY <1>3, <2>2, <2>3, <2>10, <3>3
      <4>2. Q = P + 1 /\ j \in 0 .. bs[c].length - 1
        BY <2>4, <2>6, <2>9, <4>1
      <4>3. s[P + j + 1] = Ring!At(bs[c], j)
        BY <2>8, <4>2
      <4>4. ~(h < k) /\ h # k /\ P + j + 1 = h
        BY <1>8, <2>4, <2>6, <2>10, <3>1, <3>2, <4>2
      <4> QED  BY <2>7, <4>1, <4>3, <4>4
    <3>4. CASE c <= u
      <4>1. c \in b + 1 .. u /\ ~(c - 1 >= u) /\ b < u
        BY <2>3, <2>10, <2>13, <3>4
      <4>2. Q = P /\ h = P + j
        BY <2>4, <4>1
      <4>3. ~(h < k)
        BY <1>8, <2>4, <2>6, <2>10, <3>1, <3>2, <4>1, <4>2
      <4>4. h # k
        BY <1>8, <2>4, <2>6, <2>10, <3>1, <3>2, <4>1, <4>2
      <4>5. CASE j = 0
        <5> DEFINE l == bs[c - 1].length
        <5>1. c - 1 \in 1 .. n /\ (c - 1) - 1 \in 0 .. n
          BY <1>1, <1>3, <2>2, <2>3, <4>1
        <5>2. Ring!At(q[c], 0) = Ring!At(bs[c - 1], l - 1) /\ l >= 1 /\ l \in Nat
          BY <1>1, <1>3, <4>1, <5>1
        <5>3. P = Upto(bs, (c - 1) - 1) + l /\ Upto(bs, (c - 1) - 1) \in Nat
          BY <1>1, <5>1 DEF P
        <5>4. s[Upto(bs, (c - 1) - 1) + (l - 1) + 1] = Ring!At(bs[c - 1], l - 1)
          <6>1. l - 1 \in 0 .. l - 1
            BY <5>2
          <6> QED  BY <1>5, <5>1, <6>1
        <5> HIDE DEF l
        <5>5. Upto(bs, (c - 1) - 1) + (l - 1) + 1 = h
          BY <2>4, <4>2, <4>5, <5>2, <5>3
        <5> QED  BY <2>7, <4>3, <4>4, <4>5, <5>2, <5>4, <5>5
      <4>6. CASE j # 0
        <5>1. j \in 1 .. q[c].length - 1 /\ j - 1 \in 0 .. bs[c].length - 1
          BY <2>6, <2>9, <4>6
        <5>2. Ring!At(q[c], j) = Ring!At(bs[c], j - 1)
          BY <1>3, <4>1, <5>1
        <5>3. s[P + (j - 1) + 1] = Ring!At(bs[c], j - 1) /\ P + (j - 1) + 1 = h
          <6>1. s[P + (j - 1) + 1] = Ring!At(bs[c], j - 1)
            BY <2>8, <5>1
          <6>2. P \in Nat /\ j \in Nat /\ h = P + j
            BY <2>4, <2>6, <4>2
          <6>3. P + (j - 1) + 1 = h
            BY <6>2
          <6> QED  BY <6>1, <6>3
        <5> QED  BY <2>7, <4>3, <4>4, <5>2, <5>3
      <4> QED  BY <4>5, <4>6
    <3> QED  BY <2>3, <2>10, <3>3, <3>4
  <2> QED  BY <2>3, <2>10, <2>11, <2>12, <2>13
<1>10. t = InsertAt(s, k + 1, x)
  <2>1. s \in Seq(Values) /\ t \in Seq(Values) /\ x \in Values /\ k \in 0 .. Len(s)
        /\ Len(t) = Len(s) + 1
        /\ \A h \in 0 .. Len(s) :
              t[h + 1] = IF h < k THEN s[h + 1] ELSE IF h = k THEN x ELSE s[h]
    BY <1>5, <1>6, <1>7, <1>8, <1>9
  <2> QED  BY <2>1, InsertedInto
<1> QED  BY <1>4, <1>8, <1>10

-------------------------------------------------------------------------------
(* An item that goes. *)

\* The item at i of block b has gone from bs; the blocks from b on have each taken the
\* first item of the next, as far as "stop", and the last block has gone if it is empty.
Pulled(q, bs, b, i, stop) ==
    /\ q \in Seq(Rings) /\ bs \in Seq(Rings)
    /\ b \in 1 .. Len(bs) /\ stop \in b .. Len(bs) /\ i \in 0 .. bs[b].length - 1
    /\ \/ Len(q) = Len(bs)
       \/ Len(q) = Len(bs) - 1 /\ stop = Len(bs) /\ bs[Len(bs)].length = 1
    /\ \A c \in 1 .. Len(q) : /\ q[c].length = bs[c].length + (IF c = stop THEN -1 ELSE 0)
                              /\ c < b \/ c > stop => q[c] = bs[c]
    /\ \A c \in b .. stop : c <= Len(q) =>
          \A j \in 0 .. q[c].length - 1 :
             Ring!At(q[c], j) = IF c = b /\ j < i THEN Ring!At(bs[c], j)
                                ELSE IF j + 1 < bs[c].length THEN Ring!At(bs[c], j + 1)
                                ELSE Ring!At(bs[c + 1], 0)
    /\ \A c \in b .. stop - 1 : bs[c + 1].length >= 1

LEMMA StopIs ==
    ASSUME NEW b \in 1 .. LastBlock, LastBlock \in Nat, NEW stop,
           stop = Min({c \in b .. LastBlock : c = LastBlock \/ ~TooFew(blocks[c].length - 1)})
    PROVE  /\ stop \in b .. LastBlock
           /\ \A c \in b .. stop - 1 : TooFew(blocks[c].length - 1)
           /\ stop = LastBlock \/ ~TooFew(blocks[stop].length - 1)
<1> DEFINE n == LastBlock
           T == {c \in b .. n : c = n \/ ~TooFew(blocks[c].length - 1)}
<1>1. n \in Nat /\ b \in 1 .. n
  OBVIOUS
<1>2. n \in T
  BY <1>1
<1>3. T \in SUBSET Nat /\ T # {}
  BY <1>1, <1>2
<1>4. stop \in T /\ stop \in Nat /\ \A k \in T : stop <= k
  <2>1. stop = Min(T)
    OBVIOUS
  <2> HIDE DEF T
  <2> QED  BY <1>3, <2>1, MinOf
<1> HIDE DEF n
<1>5. stop \in b .. n /\ (stop = n \/ ~TooFew(blocks[stop].length - 1))
  BY <1>4
<1>6. ASSUME NEW c \in b .. stop - 1 PROVE TooFew(blocks[c].length - 1)
  <2>1. c \in b .. n /\ ~(stop <= c)
    BY <1>1, <1>4, <1>5
  <2>2. c \notin T
    BY <1>4, <2>1
  <2> QED  BY <2>1, <2>2
<1> QED  BY <1>5, <1>6 DEF n

LEMMA RemovedBlocks ==
    ASSUME WellFilled(blocks), NEW b \in 1 .. LastBlock,
           NEW i \in 0 .. blocks[b].length - 1, NEW q, q = RemovedAt(b, i)
    PROVE  \E stop : /\ Pulled(q, blocks, b, i, stop)
                     /\ stop = LastBlock \/ ~TooFew(blocks[stop].length - 1)
                     /\ blocks[stop].length = 1 /\ stop = LastBlock => Len(q) = LastBlock - 1
<1> DEFINE n == LastBlock
           stop == Min({c \in b .. LastBlock : c = LastBlock \/ ~TooFew(blocks[c].length - 1)})
           lost(c) == IF c = b THEN Ring!RemoveAt(blocks[c], i)
                      ELSE IF b < c /\ c <= stop THEN Ring!RemoveFront(blocks[c]) ELSE blocks[c]
           made(c) == IF b <= c /\ c < stop
                      THEN Ring!PushBack(lost(c), Ring!Front(blocks[c + 1])) ELSE lost(c)
           bs == [c \in 1 .. n |-> made(c)]
           gone == stop = n /\ bs[n].length = 0
<1>1. /\ n = Len(blocks) /\ n \in Nat /\ BlockSize \in Nat /\ BlockSize > 1 /\ blocks \in Seq(Rings)
      /\ \A c \in 1 .. n : blocks[c] \in Rings /\ blocks[c].length \in 1 .. BlockSize + 1
                           /\ \A j \in 0 .. blocks[c].length - 1 : Ring!At(blocks[c], j) \in Items
  BY ListAssumption, UptoIs DEF LastBlock, WellFilled
<1>2. q = IF gone THEN SubSeq(bs, 1, n - 1) ELSE bs
  BY DEF RemovedAt
<1>3. /\ stop \in b .. n
      /\ \A c \in b .. stop - 1 : TooFew(blocks[c].length - 1)
      /\ stop = n \/ ~TooFew(blocks[stop].length - 1)
  <2> DEFINE z == stop
  <2>1. z = Min({c \in b .. LastBlock : c = LastBlock \/ ~TooFew(blocks[c].length - 1)})
    OBVIOUS
  <2> HIDE DEF z
  <2>2. /\ z \in b .. n
        /\ \A c \in b .. z - 1 : TooFew(blocks[c].length - 1)
        /\ z = n \/ ~TooFew(blocks[z].length - 1)
    BY <1>1, <2>1, StopIs
  <2> QED  BY <2>2 DEF z
<1> HIDE DEF stop
<1>4. b \in Nat /\ stop \in Nat /\ b <= stop /\ stop <= n /\ b >= 1
  BY <1>1, <1>3
\* What each of the blocks from b to "stop" has left.
<1>5. ASSUME NEW c \in b .. stop
      PROVE  LET h == IF c = b THEN i ELSE 0
             IN  /\ c \in 1 .. n /\ lost(c) \in Rings /\ lost(c).length = blocks[c].length - 1
                 /\ \A j \in 0 .. lost(c).length - 1 :
                       Ring!At(lost(c), j) = IF j < h THEN Ring!At(blocks[c], j)
                                             ELSE Ring!At(blocks[c], j + 1)
  <2> DEFINE h == IF c = b THEN i ELSE 0
             l == lost(c)
             a == blocks[c]
  <2>1. c \in 1 .. n /\ c \in Nat /\ b <= c /\ c <= stop
    BY <1>1, <1>4
  <2>2. a \in Rings /\ a.length \in 1 .. BlockSize + 1 /\ a.length \in Nat
    BY <1>1, <2>1
  <2>3. CASE c = b
    <3>1. l = Ring!RemoveAt(a, i) /\ i \in 0 .. a.length - 1 /\ h = i
      BY <2>3
    <3> HIDE DEF l, a, h
    <3>2. /\ l \in Rings /\ l.length = a.length - 1
          /\ \A j \in 0 .. i - 1 : Ring!At(l, j) = Ring!At(a, j)
          /\ \A j \in i .. a.length - 2 : Ring!At(l, j) = Ring!At(a, j + 1)
      BY <2>2, <3>1, RemoveAtIs
    <3>3. ASSUME NEW j \in 0 .. l.length - 1
          PROVE  Ring!At(l, j) = IF j < h THEN Ring!At(a, j) ELSE Ring!At(a, j + 1)
      <4>1. CASE j < i
        <5>1. j \in 0 .. i - 1
          BY <2>2, <3>1, <3>2, <4>1
        <5> QED  BY <3>1, <3>2, <4>1, <5>1
      <4>2. CASE ~(j < i)
        <5>1. j \in i .. a.length - 2
          BY <2>2, <3>1, <3>2, <4>2
        <5> QED  BY <3>1, <3>2, <4>2, <5>1
      <4> QED  BY <4>1, <4>2
    <3> QED  BY <2>1, <3>2, <3>3 DEF l, a, h
  <2>4. CASE c # b
    <3>1. l = Ring!RemoveFront(a) /\ h = 0
      BY <1>4, <2>1, <2>4
    <3> HIDE DEF l, a, h
    <3>2. /\ l \in Rings /\ l.length = a.length - 1
          /\ \A j \in 0 .. a.length - 2 : Ring!At(l, j) = Ring!At(a, j + 1)
      BY <2>2, <3>1, RemoveFrontIs
    <3>3. ASSUME NEW j \in 0 .. l.length - 1
          PROVE  Ring!At(l, j) = IF j < h THEN Ring!At(a, j) ELSE Ring!At(a, j + 1)
      <4>1. j \in 0 .. a.length - 2 /\ ~(j < h)
        BY <2>2, <3>1, <3>2
      <4> QED  BY <3>2, <4>1
    <3> QED  BY <2>1, <3>2, <3>3 DEF l, a, h
  <2> QED  BY <2>3, <2>4
<1>6. ASSUME NEW c \in 1 .. n, c < b \/ c > stop PROVE made(c) = blocks[c] /\ c # stop
  BY <1>1, <1>4, <1>6
<1> HIDE DEF lost
<1>7. ASSUME NEW c \in b .. stop
      PROVE  /\ c \in 1 .. n /\ made(c) \in Rings
             /\ made(c).length = blocks[c].length + (IF c = stop THEN -1 ELSE 0)
             /\ \A j \in 0 .. made(c).length - 1 :
                   Ring!At(made(c), j) = IF c = b /\ j < i THEN Ring!At(blocks[c], j)
                                         ELSE IF j + 1 < blocks[c].length
                                              THEN Ring!At(blocks[c], j + 1)
                                         ELSE Ring!At(blocks[c + 1], 0)
  <2> DEFINE h == IF c = b THEN i ELSE 0
             l == lost(c)
             a == blocks[c]
             m == made(c)
  <2>1. /\ c \in 1 .. n /\ l \in Rings /\ l.length = a.length - 1
        /\ \A j \in 0 .. l.length - 1 :
              Ring!At(l, j) = IF j < h THEN Ring!At(a, j) ELSE Ring!At(a, j + 1)
    BY <1>5
  <2>2. a.length \in 1 .. BlockSize + 1 /\ a.length \in Nat
    BY <1>1, <2>1
  <2>3. i \in Nat /\ (\A j \in Nat : j < h <=> (c = b /\ j < i)) /\ (c = b => i < a.length)
    <3>1. blocks[b].length \in Nat
      BY <1>1
    <3> QED  BY <3>1
  <2>4. CASE c < stop
    <3> DEFINE p == Ring!Front(blocks[c + 1])
    <3>1. m = Ring!PushBack(l, p)
      BY <1>4, <2>1, <2>4
    <3>2. p = Ring!At(blocks[c + 1], 0)
      BY DEF Ring!Front
    <3>3. p \in Values
      <4>1. c + 1 \in 1 .. n
        BY <1>1, <1>4, <2>1, <2>4
      <4>2. 0 \in 0 .. blocks[c + 1].length - 1
        BY <1>1, <4>1
      <4> QED  BY <1>1, <3>2, <4>1, <4>2 DEF Values
    <3> HIDE DEF l, a, m, p, h
    <3>4. l.length <= BlockSize /\ l.length \in Nat
      BY <1>1, <2>1, <2>2
    <3>5. /\ m \in Rings /\ m.length = l.length + 1
          /\ \A j \in 0 .. l.length - 1 : Ring!At(m, j) = Ring!At(l, j)
          /\ Ring!At(m, l.length) = p
      BY <2>1, <3>1, <3>3, <3>4, PushBackIs
    <3>6. c # stop /\ m.length = a.length + (IF c = stop THEN -1 ELSE 0)
      BY <1>4, <2>1, <2>2, <2>4, <3>5
    <3>7. ASSUME NEW j \in 0 .. m.length - 1
          PROVE  Ring!At(m, j) = IF c = b /\ j < i THEN Ring!At(a, j)
                                 ELSE IF j + 1 < a.length THEN Ring!At(a, j + 1) ELSE p
      <4>1. CASE j = l.length
        <5>1. ~(c = b /\ j < i) /\ ~(j + 1 < a.length)
          BY <2>1, <2>2, <2>3, <3>4, <4>1
        <5> QED  BY <3>5, <4>1, <5>1
      <4>2. CASE j # l.length
        <5>1. j \in 0 .. l.length - 1 /\ j \in Nat /\ j + 1 < a.length
          BY <2>1, <2>2, <3>4, <3>5, <4>2
        <5> QED  BY <2>1, <2>3, <3>5, <5>1
      <4> QED  BY <4>1, <4>2
    <3> QED  BY <2>1, <3>2, <3>5, <3>6, <3>7 DEF a, m
  <2>5. CASE ~(c < stop)
    <3>1. c = stop /\ m = l
      BY <1>4, <2>1, <2>5
    <3> HIDE DEF l, a, m, h
    <3>2. m.length = a.length + (IF c = stop THEN -1 ELSE 0) /\ m \in Rings
      BY <2>1, <2>2, <3>1
    <3>3. ASSUME NEW j \in 0 .. m.length - 1
          PROVE  Ring!At(m, j) = IF c = b /\ j < i THEN Ring!At(a, j)
                                 ELSE IF j + 1 < a.length THEN Ring!At(a, j + 1)
                                 ELSE Ring!At(blocks[c + 1], 0)
      <4>1. j \in 0 .. l.length - 1 /\ j \in Nat /\ j + 1 < a.length
        BY <2>1, <2>2, <3>1
      <4> QED  BY <2>1, <2>3, <3>1, <4>1
    <3> QED  BY <2>1, <3>2, <3>3 DEF a, m
  <2> QED  BY <2>4, <2>5
<1> HIDE DEF made
<1>8. \A c \in 1 .. n : c < b \/ c > stop \/ c \in b .. stop
  BY <1>1, <1>4
<1>9. \A c \in 1 .. n : /\ made(c) \in Rings
                        /\ made(c).length = blocks[c].length + (IF c = stop THEN -1 ELSE 0)
                        /\ c < b \/ c > stop => made(c) = blocks[c]
  <2> TAKE c \in 1 .. n
  <2>1. CASE c < b \/ c > stop
    <3>1. made(c) = blocks[c] /\ c # stop /\ blocks[c] \in Rings /\ blocks[c].length \in Nat
      BY <1>1, <1>6, <2>1
    <3> QED  BY <3>1
  <2>2. CASE c \in b .. stop
    <3>1. ~(c < b \/ c > stop)
      BY <1>4, <2>2
    <3> QED  BY <1>7, <2>2, <3>1
  <2> QED  BY <1>8, <2>1, <2>2
<1>10. bs \in Seq(Rings) /\ Len(bs) = n /\ \A c \in 1 .. n : bs[c] = made(c)
  BY <1>1, <1>9
<1>11. gone <=> stop = n /\ blocks[n].length = 1
  <2>1. n \in 1 .. n /\ blocks[n].length \in Nat
    BY <1>1, <1>4
  <2>2. ASSUME stop = n PROVE bs[n].length = blocks[n].length - 1
    BY <1>9, <1>10, <2>1, <2>2
  <2> QED  BY <2>1, <2>2
<1> HIDE DEF bs, gone
<1>12. /\ q \in Seq(Rings) /\ Len(q) = (IF gone THEN n - 1 ELSE n)
       /\ \A c \in 1 .. Len(q) : c \in 1 .. n /\ q[c] = made(c)
  <2>1. CASE gone
    <3>1. n - 1 \in Nat /\ n - 1 \in 0 .. Len(bs) /\ \A c \in 1 .. n - 1 : c \in 1 .. n
      BY <1>1, <1>4, <1>10
    <3>2. q = SubSeq(bs, 1, n - 1)
      BY <1>2, <2>1
    <3>3. q \in Seq(Rings) /\ Len(q) = n - 1 /\ \A c \in 1 .. n - 1 : q[c] = bs[c]
      BY <1>10, <3>1, <3>2
    <3> QED  BY <1>10, <2>1, <3>1, <3>3
  <2>2. CASE ~gone
    BY <1>2, <1>10, <2>2
  <2> QED  BY <2>1, <2>2
<1>13. Pulled(q, blocks, b, i, stop)
  <2>1. q \in Seq(Rings) /\ blocks \in Seq(Rings) /\ b \in 1 .. Len(blocks)
        /\ stop \in b .. Len(blocks) /\ i \in 0 .. blocks[b].length - 1
    BY <1>1, <1>3, <1>12
  <2>2. \/ Len(q) = Len(blocks)
        \/ Len(q) = Len(blocks) - 1 /\ stop = Len(blocks) /\ blocks[Len(blocks)].length = 1
    BY <1>1, <1>11, <1>12
  <2>3. \A c \in 1 .. Len(q) :
           /\ q[c].length = blocks[c].length + (IF c = stop THEN -1 ELSE 0)
           /\ c < b \/ c > stop => q[c] = blocks[c]
    BY <1>9, <1>12
  <2>4. ASSUME NEW c \in b .. stop, c <= Len(q)
        PROVE  \A j \in 0 .. q[c].length - 1 :
                  Ring!At(q[c], j) = IF c = b /\ j < i THEN Ring!At(blocks[c], j)
                                     ELSE IF j + 1 < blocks[c].length
                                          THEN Ring!At(blocks[c], j + 1)
                                     ELSE Ring!At(blocks[c + 1], 0)
    <3>1. c \in 1 .. Len(q)
      <4>1. Len(q) \in Nat
        BY <1>12
      <4> QED  BY <1>4, <2>4, <4>1
    <3>2. q[c] = made(c)
      BY <1>12, <3>1
    <3> QED  BY <1>7, <3>2
  <2>5. \A c \in b .. stop - 1 : blocks[c + 1].length >= 1
    <3> TAKE c \in b .. stop - 1
    <3>1. c + 1 \in 1 .. n
      BY <1>1, <1>4
    <3> QED  BY <1>1, <3>1
  <2> QED  BY <2>1, <2>2, <2>3, <2>4, <2>5 DEF Pulled
<1> QED  BY <1>3, <1>11, <1>12, <1>13

LEMMA RemovedFrom ==
    ASSUME NEW V, NEW s \in Seq(V), NEW t \in Seq(V), NEW k \in 0 .. Len(s) - 1,
           Len(t) = Len(s) - 1,
           \A h \in 0 .. Len(s) - 2 : t[h + 1] = IF h < k THEN s[h + 1] ELSE s[h + 2]
    PROVE  t = RemoveAt(s, k + 1)
<1> DEFINE n == Len(s)
           l == SubSeq(s, 1, (k + 1) - 1)
           r == SubSeq(s, (k + 1) + 1, n)
           w == l \o r
<1>1. n \in Nat /\ k \in 0 .. n - 1 /\ (\A i \in 1 .. n : s[i] \in V) /\ (k + 1) - 1 = k
  OBVIOUS
<1>2. l \in Seq(V) /\ Len(l) = k /\ \A i \in 1 .. k : l[i] = s[i]
  BY <1>1
<1>3. r \in Seq(V) /\ Len(r) = n - (k + 1) /\ \A i \in 1 .. n - (k + 1) : r[i] = s[(k + 1) + i]
  BY <1>1
<1>4. RemoveAt(s, k + 1) = w
  BY DEF RemoveAt
<1> HIDE DEF l, r
<1>5. w \in Seq(V) /\ Len(w) = n - 1
      /\ \A i \in 1 .. n - 1 : w[i] = IF i <= k THEN l[i] ELSE r[i - k]
  <2>1. w \in Seq(V) /\ Len(w) = Len(l) + Len(r)
        /\ \A i \in 1 .. Len(l) + Len(r) : w[i] = IF i <= Len(l) THEN l[i] ELSE r[i - Len(l)]
    <3>1. l \in Seq(V) /\ r \in Seq(V)
      BY <1>2, <1>3
    <3> QED  BY <3>1, ConcatProperties
  <2>2. Len(l) + Len(r) = n - 1 /\ Len(l) = k
    <3>1. Len(l) = k /\ Len(r) = n - (k + 1) /\ n \in Nat /\ k \in Int
      BY <1>1, <1>2, <1>3
    <3> HIDE DEF n
    <3> QED  BY <3>1
  <2> HIDE DEF w, n
  <2>3. w \in Seq(V) /\ Len(w) = n - 1
    BY <2>1, <2>2
  <2>4. \A i \in 1 .. n - 1 : w[i] = IF i <= k THEN l[i] ELSE r[i - k]
    BY <2>1, <2>2
  <2> QED  BY <2>3, <2>4
<1> HIDE DEF w
<1>6. ASSUME NEW i \in 1 .. n - 1 PROVE t[i] = w[i]
  <2>1. i - 1 \in 0 .. n - 2 /\ (i - 1) + 1 = i /\ (i - 1) + 2 = i + 1
    BY <1>1
  <2>2. t[i] = IF i - 1 < k THEN s[i] ELSE s[i + 1]
    BY <2>1
  <2>3. CASE i <= k
    <3>1. i \in 1 .. k /\ i - 1 < k
      BY <1>1, <2>3
    <3> QED  BY <1>2, <1>5, <2>2, <2>3, <3>1
  <2>4. CASE i > k
    <3>1. i - k \in 1 .. n - (k + 1) /\ ~(i <= k) /\ ~(i - 1 < k) /\ (k + 1) + (i - k) = i + 1
      BY <1>1, <2>4
    <3>2. r[i - k] = s[i + 1]
      BY <1>3, <3>1
    <3> QED  BY <1>5, <2>2, <3>1, <3>2
  <2> QED  BY <1>1, <2>3, <2>4
<1>7. t = w
  BY <1>1, <1>5, <1>6, SeqEqual
<1> QED  BY <1>4, <1>7

LEMMA PulledContents ==
    ASSUME NEW q, NEW bs, NEW b, NEW i, NEW stop, Pulled(q, bs, b, i, stop),
           NEW s, s = ContentsIn(bs), NEW t, t = ContentsIn(q),
           NEW k, k = Upto(bs, b - 1) + i
    PROVE  /\ \A c \in 0 .. Len(q) : Upto(q, c) = Upto(bs, c) + (IF c >= stop THEN -1 ELSE 0)
           /\ Upto(q, Len(q)) = Upto(bs, Len(bs)) - 1
           /\ k \in 0 .. Len(s) - 1 /\ t = RemoveAt(s, k + 1)
<1> DEFINE n == Len(bs)
           m == Len(q)
<1>1. /\ bs \in Seq(Rings) /\ n \in Nat /\ Upto(bs, 0) = 0
      /\ \A c \in 0 .. n : Upto(bs, c) \in Nat
      /\ \A c \in 1 .. n : bs[c].length \in Nat /\ Upto(bs, c) = Upto(bs, c - 1) + bs[c].length
  <2>1. bs \in Seq(Rings)
    BY DEF Pulled
  <2> QED  BY <2>1, UptoIs
<1>2. /\ q \in Seq(Rings) /\ m \in Nat
      /\ \A c \in 0 .. m : Upto(q, c) \in Nat
      /\ \A c \in 1 .. m : q[c].length \in Nat /\ Upto(q, c) = Upto(q, c - 1) + q[c].length
  <2>1. q \in Seq(Rings)
    BY DEF Pulled
  <2> QED  BY <2>1, UptoIs
<1>3. /\ b \in 1 .. n /\ stop \in b .. n /\ i \in 0 .. bs[b].length - 1
      /\ m = n \/ (m = n - 1 /\ stop = n /\ bs[n].length = 1)
      /\ \A c \in 1 .. m : /\ q[c].length = bs[c].length + (IF c = stop THEN -1 ELSE 0)
                           /\ c < b \/ c > stop => q[c] = bs[c]
      /\ \A c \in b .. stop : c <= m =>
            \A j \in 0 .. q[c].length - 1 :
               Ring!At(q[c], j) = IF c = b /\ j < i THEN Ring!At(bs[c], j)
                                  ELSE IF j + 1 < bs[c].length THEN Ring!At(bs[c], j + 1)
                                  ELSE Ring!At(bs[c + 1], 0)
      /\ \A c \in b .. stop - 1 : bs[c + 1].length >= 1
  BY DEF Pulled
<1>a. m <= n /\ b \in Nat /\ stop \in Nat /\ b <= stop /\ stop <= n /\ b >= 1 /\ n >= 1
  <2>1. b \in 1 .. n /\ stop \in b .. n /\ (m = n \/ m = n - 1) /\ n \in Nat
    BY <1>1, <1>3
  <2> HIDE DEF n, m
  <2> QED  BY <2>1
<1>4. \A c \in 0 .. m : Upto(q, c) = Upto(bs, c) + (IF c >= stop THEN -1 ELSE 0)
  <2>1. m \in Nat /\ m <= Len(bs) /\ m <= Len(q) /\ stop \in Nat \ {0} /\ -1 \in Int
        /\ LengthsDiffer(q, bs, m, stop, -1)
    BY <1>1, <1>2, <1>3, <1>a DEF LengthsDiffer
  <2> HIDE DEF m
  <2>2. CountsDiffer(q, bs, m, stop, -1)
    BY <1>1, <1>2, <2>1, UptoChanges
  <2> QED  BY <2>2 DEF CountsDiffer
<1>5. Upto(q, m) = Upto(bs, n) - 1 /\ Upto(q, m) \in Nat /\ Upto(bs, n) \in Nat
  <2>1. Upto(q, m) = Upto(bs, m) + (IF m >= stop THEN -1 ELSE 0) /\ Upto(bs, m) \in Nat
    BY <1>1, <1>2, <1>4, <1>a
  <2>2. CASE m = n
    BY <1>1, <1>2, <1>a, <2>1, <2>2
  <2>3. CASE m # n
    <3>1. m = n - 1 /\ stop = n /\ bs[n].length = 1 /\ ~(m >= stop) /\ n \in 1 .. n
      BY <1>1, <1>3, <1>a, <2>3
    <3>2. Upto(bs, n) = Upto(bs, m) + 1
      BY <1>1, <3>1
    <3> QED  BY <1>1, <1>2, <2>1, <3>1, <3>2
  <2> QED  BY <2>2, <2>3
<1>6. /\ s \in Seq(Values) /\ Len(s) = Upto(bs, n)
      /\ \A c \in 1 .. n : \A j \in 0 .. bs[c].length - 1 : s[Upto(bs, c - 1) + j + 1] = Ring!At(bs[c], j)
  BY <1>1, ContentsIs DEF Lines
<1>7. /\ t \in Seq(Values) /\ Len(t) = Upto(q, m)
      /\ \A c \in 1 .. m : \A j \in 0 .. q[c].length - 1 : t[Upto(q, c - 1) + j + 1] = Ring!At(q[c], j)
  BY <1>2, ContentsIs DEF Lines
<1>8. Len(t) = Len(s) - 1 /\ Len(s) \in Nat /\ Len(t) \in Nat /\ b - 1 \in 0 .. n
  <2>1. Len(s) = Upto(bs, n) /\ Len(t) = Upto(q, m) /\ Len(t) = Len(s) - 1
        /\ Len(s) \in Nat /\ Len(t) \in Nat
    BY <1>5, <1>6, <1>7
  <2>2. b - 1 \in 0 .. n
    <3> HIDE DEF n
    <3> QED  BY <1>1, <1>a
  <2> QED  BY <2>1, <2>2
<1> DEFINE B == Upto(bs, b - 1)
           blen == bs[b].length
<1>9. B \in Nat /\ blen \in Nat /\ i \in Nat /\ i < blen /\ k = B + i /\ Upto(bs, b) = B + blen
  <2>1. B \in Nat /\ k = B + i
    BY <1>1, <1>8
  <2>2. blen \in Nat /\ Upto(bs, b) = B + blen
    <3>1. b \in 1 .. n
      BY <1>3
    <3> QED  BY <1>1, <3>1
  <2>3. i \in 0 .. blen - 1
    BY <1>3
  <2>4. i \in Nat /\ i < blen
    <3> HIDE DEF blen
    <3> QED  BY <2>2, <2>3
  <2> QED  BY <2>1, <2>2, <2>4
<1>10. k \in 0 .. Len(s) - 1
  <2> DEFINE ls == Len(s)
             up == Upto(bs, b)
  <2>1. up <= ls /\ ls \in Nat /\ up = B + blen
    <3>1. b \in 0 .. n /\ n \in 0 .. n /\ b <= n
      BY <1>1, <1>3
    <3>2. Upto(bs, b) <= Upto(bs, n)
      BY <1>1, <3>1, UptoGrows
    <3> QED  BY <1>6, <1>8, <1>9, <3>2
  <2> HIDE DEF B, blen, ls, up
  <2>2. k \in 0 .. ls - 1
    BY <1>9, <2>1
  <2> QED  BY <2>2 DEF ls
<1>11. ASSUME NEW h \in 0 .. Len(s) - 2
       PROVE  t[h + 1] = IF h < k THEN s[h + 1] ELSE s[h + 2]
  <2> DEFINE c == Min({d \in 1 .. Len(q) : h < Upto(q, d)})
             j == h - Upto(q, c - 1)
             Q == Upto(q, c - 1)
             P == Upto(bs, c - 1)
             len == bs[c].length
  <2>1. h \in 0 .. Upto(q, Len(q)) - 1 /\ h \in Nat
    BY <1>5, <1>6, <1>7, <1>8
  <2>2. c \in 1 .. m /\ j \in 0 .. q[c].length - 1
    <3>1. c = Min({d \in 1 .. Len(q) : h < Upto(q, d)})
      OBVIOUS
    <3> HIDE DEF c
    <3> QED  BY <1>2, <2>1, <3>1, InABlock
  <2> HIDE DEF c
  <2>3. c - 1 \in 0 .. n /\ c - 1 \in 0 .. m /\ c \in Nat /\ c \in 1 .. n /\ c <= m
    <3>1. c \in 1 .. m /\ m \in Nat /\ n \in Nat /\ m <= n
      BY <1>1, <1>2, <1>a, <2>2
    <3> HIDE DEF n, m
    <3> QED  BY <3>1
  <2>a. Q \in Nat /\ P \in Nat /\ Q = P + (IF c - 1 >= stop THEN -1 ELSE 0)
    BY <1>1, <1>2, <1>4, <2>3
  <2>b. j = h - Q
    OBVIOUS
  <2>4. Q \in Nat /\ P \in Nat /\ Q = P + (IF c - 1 >= stop THEN -1 ELSE 0) /\ h = Q + j
    <3> HIDE DEF j, Q, P
    <3> QED  BY <2>1, <2>a, <2>b
  <2>5. t[Q + j + 1] = Ring!At(q[c], j)
    BY <1>7, <2>2
  <2>6. j \in Nat /\ q[c].length \in Nat /\ j < q[c].length
    BY <1>2, <2>2
  <2>7. t[h + 1] = Ring!At(q[c], j)
    BY <2>4, <2>5, <2>6
  <2>8. \A g \in 0 .. len - 1 : s[P + g + 1] = Ring!At(bs[c], g)
    BY <1>6, <2>3
  <2>9. len \in Nat /\ q[c].length = len + (IF c = stop THEN -1 ELSE 0)
        /\ Upto(bs, c) = P + len
    BY <1>1, <1>3, <2>2, <2>3
  <2> HIDE DEF j, Q, P, B, blen
  <2>11. CASE c < b
    <3>1. Upto(bs, c) <= B
      <4>1. c \in 0 .. n /\ c <= b - 1
        BY <1>1, <1>a, <2>3, <2>11
      <4> QED  BY <1>1, <1>8, <4>1, UptoGrows DEF B
    <3>2. q[c] = bs[c] /\ ~(c - 1 >= stop) /\ c # stop
      BY <1>3, <1>a, <2>2, <2>3, <2>11
    <3> HIDE DEF len
    <3>3. Q = P /\ j \in 0 .. len - 1 /\ j < len
      BY <2>4, <2>6, <2>9, <3>2
    <3>4. s[P + j + 1] = Ring!At(bs[c], j)
      BY <2>8, <3>3
    <3>5. h = P + j
      BY <2>4, <3>3
    <3>6. P + len <= B
      BY <2>9, <3>1
    <3>7. h < k /\ P + j + 1 = h + 1
      BY <1>9, <2>4, <2>6, <2>9, <3>3, <3>5, <3>6
    <3> QED  BY <2>7, <3>2, <3>4, <3>7
  <2>12. CASE c \in b .. stop
    <3>1. ~(c - 1 >= stop) /\ c >= b /\ c <= stop
      BY <1>a, <2>3, <2>12
    <3>2. Q = P /\ h = P + j
      BY <2>4, <3>1
    <3>3. Ring!At(q[c], j) = IF c = b /\ j < i THEN Ring!At(bs[c], j)
                             ELSE IF j + 1 < len THEN Ring!At(bs[c], j + 1)
                             ELSE Ring!At(bs[c + 1], 0)
      BY <1>3, <2>2, <2>3, <2>12
    <3>4. c = b => P = B /\ len = blen
      BY DEF P, B, blen
    <3>5. c # b => B + blen <= P
      <4>1. ASSUME c # b PROVE Upto(bs, b) <= Upto(bs, c - 1)
        <5>1. b \in 0 .. n /\ b <= c - 1
          BY <1>1, <1>a, <2>3, <3>1, <4>1
        <5> QED  BY <1>1, <2>3, <5>1, UptoGrows
      <4> QED  BY <1>9, <4>1 DEF P
    <3>6. CASE c = b /\ j < i
      <4>1. j \in 0 .. len - 1 /\ h < k /\ P + j + 1 = h + 1
        <5> HIDE DEF len
        <5> QED  BY <1>9, <2>4, <2>6, <2>9, <3>2, <3>4, <3>6
      <4>2. s[P + j + 1] = Ring!At(bs[c], j)
        BY <2>8, <4>1
      <4> QED  BY <2>7, <3>3, <3>6, <4>1, <4>2
    <3>7. CASE ~(c = b /\ j < i)
      <4>1. ~(h < k)
        <5> HIDE DEF len
        <5>1. CASE c = b
          <6>1. j >= i /\ P = B
            BY <1>9, <2>6, <3>4, <3>7, <5>1
          <6> QED  BY <1>9, <2>4, <2>6, <3>2, <6>1
        <5>2. CASE c # b
          <6>1. B + blen <= P
            BY <3>5, <5>2
          <6> QED  BY <1>9, <2>4, <2>6, <3>2, <6>1
        <5> QED  BY <5>1, <5>2
      <4>2. CASE j + 1 < len
        <5>1. j + 1 \in 0 .. len - 1 /\ P + (j + 1) + 1 = h + 2
          <6> HIDE DEF len
          <6> QED  BY <2>4, <2>6, <2>9, <3>2, <4>2
        <5>2. s[P + (j + 1) + 1] = Ring!At(bs[c], j + 1)
          BY <2>8, <5>1
        <5> QED  BY <2>7, <3>3, <3>7, <4>1, <4>2, <5>1, <5>2
      <4>3. CASE ~(j + 1 < len)
        <5>1. c < stop /\ j + 1 = len
          <6> HIDE DEF len
          <6>1. ASSUME c = stop PROVE FALSE
            BY <2>6, <2>9, <4>3, <6>1
          <6> QED  BY <1>a, <2>3, <2>6, <2>9, <3>1, <4>3, <6>1
        <5>2. c \in b .. stop - 1 /\ c + 1 \in 1 .. n /\ (c + 1) - 1 = c
          BY <1>1, <1>a, <2>3, <3>1, <5>1
        <5>3. 0 \in 0 .. bs[c + 1].length - 1
          <6>1. bs[c + 1].length \in Nat /\ bs[c + 1].length >= 1
            BY <1>1, <1>3, <5>2
          <6> QED  BY <6>1
        <5>4. s[Upto(bs, (c + 1) - 1) + 0 + 1] = Ring!At(bs[c + 1], 0)
          BY <1>6, <5>2, <5>3
        <5>5. Upto(bs, (c + 1) - 1) + 0 + 1 = h + 2
          <6>1. Upto(bs, (c + 1) - 1) = P + len
            BY <2>9, <5>2
          <6> HIDE DEF len
          <6>2. h = P + j /\ P \in Nat /\ j \in Nat /\ len = j + 1
            BY <2>4, <2>6, <3>2, <5>1
          <6> QED  BY <6>1, <6>2
        <5> QED  BY <2>7, <3>3, <3>7, <4>1, <4>3, <5>4, <5>5
      <4> QED  BY <4>2, <4>3
    <3> QED  BY <3>6, <3>7
  <2>13. CASE c > stop
    <3>1. q[c] = bs[c] /\ c - 1 >= stop /\ c # stop
      BY <1>3, <1>a, <2>2, <2>3, <2>13
    <3>2. B + blen <= P
      <4>1. b \in 0 .. n /\ b <= c - 1
        BY <1>1, <1>a, <2>3, <2>13
      <4>2. Upto(bs, b) <= Upto(bs, c - 1)
        BY <1>1, <2>3, <4>1, UptoGrows
      <4> QED  BY <1>9, <4>2 DEF P
    <3> HIDE DEF len
    <3>3. Q = P - 1 /\ j \in 0 .. len - 1
      BY <2>4, <2>6, <2>9, <3>1
    <3>4. s[P + j + 1] = Ring!At(bs[c], j)
      BY <2>8, <3>3
    <3>5. h = (P - 1) + j
      BY <2>4, <3>3
    <3>6. ~(h < k) /\ P + j + 1 = h + 2
      BY <1>9, <2>4, <2>6, <3>2, <3>5
    <3> QED  BY <2>7, <3>1, <3>4, <3>6
  <2>14. c < b \/ c \in b .. stop \/ c > stop
    BY <1>a, <2>3
  <2> QED  BY <2>11, <2>12, <2>13, <2>14
<1>12. t = RemoveAt(s, k + 1)
  <2>1. s \in Seq(Values) /\ t \in Seq(Values) /\ k \in 0 .. Len(s) - 1 /\ Len(t) = Len(s) - 1
        /\ \A h \in 0 .. Len(s) - 2 : t[h + 1] = IF h < k THEN s[h + 1] ELSE s[h + 2]
    BY <1>6, <1>7, <1>8, <1>10, <1>11
  <2> QED  BY <2>1, RemovedFrom
<1> QED  BY <1>4, <1>5, <1>10, <1>12

-------------------------------------------------------------------------------
(* What the operations leave. *)

LEMMA FilledIs ==
    ASSUME NEW bs, WellFilled(bs)
    PROVE  /\ bs \in Seq(Rings) /\ Len(bs) \in Nat /\ BlockSize \in Nat /\ BlockSize > 1
           /\ \A c \in 1 .. Len(bs) :
                 /\ bs[c] \in Rings /\ bs[c].length \in 1 .. BlockSize + 1 /\ bs[c].length \in Nat
                 /\ c < Len(bs) => bs[c].length >= BlockSize - 1
                 /\ \A j \in 0 .. bs[c].length - 1 : Ring!At(bs[c], j) \in Items
BY ListAssumption, UptoIs DEF WellFilled

LEMMA PushedKeeps ==
    ASSUME NEW as, WellFilled(as), NEW bs, Extended(as, bs), NEW b, NEW e, NEW u, NEW q,
           NEW x \in Items, Pushed(q, bs, b, e, u, x), bs[u].length <= BlockSize,
           bs = as \/ (u = Len(bs) /\ (Len(as) = 0 \/ as[Len(as)].length = BlockSize + 1))
    PROVE  /\ WellFilled(q) /\ Len(q) >= Len(as)
           /\ \A c \in 1 .. Len(as) : q[c].length >= as[c].length
           /\ Upto(q, Len(q)) = Upto(as, Len(as)) + 1
           /\ \A c \in 0 .. Len(as) : c < b => Upto(q, c) = Upto(as, c)
           /\ ContentsIn(q) = InsertAt(ContentsIn(as), Upto(bs, b - 1) + e + 1, x)
<1>0. PICK n, l : n = Len(as) /\ l = Len(bs)
  OBVIOUS
<1>1. /\ as \in Seq(Rings) /\ n \in Nat /\ BlockSize \in Nat /\ BlockSize > 1
      /\ \A c \in 1 .. n :
            /\ as[c] \in Rings /\ as[c].length \in 1 .. BlockSize + 1 /\ as[c].length \in Nat
            /\ c < n => as[c].length >= BlockSize - 1
            /\ \A j \in 0 .. as[c].length - 1 : Ring!At(as[c], j) \in Items
  BY <1>0, FilledIs
<1>2. /\ bs \in Seq(Rings) /\ l \in n .. n + 1 /\ l \in Nat
      /\ \A c \in 1 .. n : bs[c] = as[c]
      /\ \A c \in n + 1 .. l : bs[c].length = 0
      /\ \A c \in 0 .. n : Upto(bs, c) = Upto(as, c)
      /\ Upto(bs, l) = Upto(as, n)
      /\ ContentsIn(bs) = ContentsIn(as)
  <2>1. /\ bs \in Seq(Rings) /\ Len(bs) \in Len(as) .. Len(as) + 1
        /\ \A c \in 1 .. Len(as) : bs[c] = as[c]
        /\ \A c \in Len(as) + 1 .. Len(bs) : bs[c].length = 0
        /\ \A c \in 0 .. Len(as) : Upto(bs, c) = Upto(as, c)
        /\ Upto(bs, Len(bs)) = Upto(as, Len(as))
        /\ ContentsIn(bs) = ContentsIn(as)
    BY <1>1, ExtendedIs
  <2>2. l \in Nat
    BY <1>0, <2>1
  <2> QED  BY <1>0, <2>1, <2>2
<1>a. n <= l /\ l <= n + 1 /\ n \in Nat /\ l \in Nat
  BY <1>1, <1>2
<1>b. bs = as => l = n
  BY <1>0
<1>c. bs = as \/ (u = l /\ (n = 0 \/ as[n].length = BlockSize + 1))
  BY <1>0
<1>3. /\ q \in Seq(Rings) /\ Len(q) = l
      /\ b \in 1 .. l /\ u \in b .. l /\ e \in 0 .. q[b].length - 1
      /\ \A c \in 1 .. l : /\ q[c].length = bs[c].length + (IF c = u THEN 1 ELSE 0)
                           /\ c < b \/ c > u => q[c] = bs[c]
      /\ \A j \in 0 .. q[b].length - 1 :
            Ring!At(q[b], j) = IF j < e THEN Ring!At(bs[b], j) ELSE IF j = e THEN x
                               ELSE Ring!At(bs[b], j - 1)
      /\ \A c \in b + 1 .. u :
            /\ bs[c - 1].length >= 1 /\ Ring!At(q[c], 0) = Ring!At(bs[c - 1], bs[c - 1].length - 1)
            /\ \A j \in 1 .. q[c].length - 1 : Ring!At(q[c], j) = Ring!At(bs[c], j - 1)
  BY <1>0 DEF Pushed
<1>4. /\ u \in Nat /\ b \in Nat /\ e \in Nat /\ b <= u /\ u <= l /\ b >= 1
      /\ \A c \in 1 .. l : q[c].length \in Nat /\ bs[c].length \in Nat
  <2>1. \A c \in 1 .. l : q[c].length \in Nat /\ bs[c].length \in Nat
    <3>1. \A c \in 1 .. Len(bs) : bs[c].length \in Nat
      <4>1. bs \in Seq(Rings)
        BY <1>2
      <4> QED  BY <4>1, UptoIs
    <3>2. \A c \in 1 .. Len(q) : q[c].length \in Nat
      <4>1. q \in Seq(Rings)
        BY <1>3
      <4> QED  BY <4>1, UptoIs
    <3>3. Len(bs) = l /\ Len(q) = l
      BY <1>0, <1>3
    <3> QED  BY <3>1, <3>2, <3>3
  <2>2. u \in Nat /\ b \in Nat /\ b <= u /\ u <= l /\ b >= 1
    <3>1. b \in 1 .. l /\ u \in b .. l
      BY <1>3
    <3> QED  BY <1>a, <3>1
  <2>3. q[b].length \in Nat
    BY <1>3, <2>1
  <2> QED  BY <1>3, <2>1, <2>2, <2>3
<1>5. \A c \in 1 .. l : c <= n \/ (c = n + 1 /\ c = u /\ bs[c].length = 0)
  <2> TAKE c \in 1 .. l
  <2>0. c \in Nat /\ c <= l
    BY <1>a
  <2>1. ASSUME c > n PROVE c = n + 1 /\ c = l /\ c = u /\ bs[c].length = 0
    <3>1. c = n + 1 /\ c = l /\ l # n /\ c \in n + 1 .. l
      BY <1>a, <2>0, <2>1
    <3>2. bs # as
      BY <1>b, <3>1
    <3>3. c = u
      BY <1>c, <3>1, <3>2
    <3> QED  BY <1>2, <3>1, <3>3
  <2> QED  BY <1>a, <2>0, <2>1
\* The items of bs, wherever they are.
<1>6. \A c \in 1 .. l : \A j \in 0 .. bs[c].length - 1 : c <= n /\ Ring!At(bs[c], j) \in Items
  <2> TAKE c \in 1 .. l
  <2> TAKE j \in 0 .. bs[c].length - 1
  <2>1. bs[c].length # 0 /\ c \in Nat /\ 1 <= c
    BY <1>4
  <2>2. c <= n
    BY <1>5, <2>1
  <2>3. c \in 1 .. n
    BY <1>a, <2>1, <2>2
  <2>4. bs[c] = as[c]
    BY <1>2, <2>3
  <2> QED  BY <1>1, <2>2, <2>3, <2>4
<1>7. ASSUME NEW c \in 1 .. l
      PROVE  /\ q[c].length \in 1 .. BlockSize + 1
             /\ c < l => q[c].length >= BlockSize - 1
             /\ c <= n => q[c].length >= as[c].length
  <2>1. q[c].length = bs[c].length + (IF c = u THEN 1 ELSE 0) /\ bs[c].length \in Nat
        /\ (c = u => bs[c].length <= BlockSize)
    BY <1>3, <1>4
  <2>0. c \in Nat /\ 1 <= c /\ c <= l
    BY <1>a
  <2>2. CASE c <= n
    <3>0. c \in 1 .. n
      BY <1>a, <2>0, <2>2
    <3>1. c \in 1 .. n /\ bs[c] = as[c]
      BY <1>2, <3>0
    <3>2. as[c].length \in 1 .. BlockSize + 1 /\ (c < n => as[c].length >= BlockSize - 1)
      BY <1>1, <3>1
    <3>3. q[c].length \in 1 .. BlockSize + 1 /\ q[c].length >= as[c].length
      <4> DEFINE qlen == q[c].length
                 len == bs[c].length
                 f == IF c = u THEN 1 ELSE 0
      <4>1. /\ qlen = len + f /\ len \in 1 .. BlockSize + 1 /\ f \in 0 .. 1
            /\ (f = 1 => len <= BlockSize) /\ len = as[c].length
        <5>1. qlen = len + f /\ (f = 1 => len <= BlockSize)
          BY <2>1
        <5>2. len = as[c].length /\ len \in 1 .. BlockSize + 1
          BY <3>1, <3>2
        <5>3. f \in 0 .. 1
          OBVIOUS
        <5> HIDE DEF qlen, f, len
        <5> QED  BY <5>1, <5>2, <5>3
      <4>2. BlockSize \in Nat
        BY <1>1
      <4> HIDE DEF qlen, len, f
      <4>3. qlen \in 1 .. BlockSize + 1 /\ qlen >= len
        <5>1. f = 0 \/ f = 1
          BY <4>1
        <5>2. len \in Nat /\ 1 <= len /\ len <= BlockSize + 1 /\ (f = 1 => len <= BlockSize)
              /\ qlen = len + f
          <6>1. len \in 1 .. BlockSize + 1
            BY <4>1
          <6>2. len \in Nat /\ 1 <= len /\ len <= BlockSize + 1
            BY <4>2, <6>1
          <6> QED  BY <4>1, <6>2
        <5>3. CASE f = 0
          BY <4>2, <5>2, <5>3
        <5>4. CASE f = 1
          BY <4>2, <5>2, <5>4
        <5> QED  BY <5>1, <5>3, <5>4
      <4> QED  BY <4>1, <4>3 DEF qlen
    <3>4. ASSUME c < l PROVE as[c].length >= BlockSize - 1
      <4>1. CASE c < n
        BY <3>2, <4>1
      <4>2. CASE c = n
        <5>1. l # n /\ n # 0
          BY <1>a, <2>0, <3>4, <4>2
        <5>2. as[n].length = BlockSize + 1
          BY <1>b, <1>c, <5>1
        <5>3. BlockSize \in Nat
          BY <1>1
        <5>4. BlockSize + 1 >= BlockSize - 1
          BY <5>3
        <5> QED  BY <4>2, <5>2, <5>4
      <4>3. c < n \/ c = n
        BY <1>a, <2>0, <2>2
      <4> QED  BY <4>1, <4>2, <4>3
    <3>5. c < l => q[c].length >= BlockSize - 1
      <4> DEFINE qlen == q[c].length
                 len == as[c].length
      <4>1. qlen >= len /\ qlen \in Int /\ len \in Int /\ BlockSize \in Nat
            /\ (c < l => len >= BlockSize - 1)
        <5>1. BlockSize \in Nat
          BY <1>1
        <5>2. len \in 1 .. BlockSize + 1 /\ qlen \in 1 .. BlockSize + 1 /\ qlen >= len
          BY <3>2, <3>3
        <5>3. c < l => len >= BlockSize - 1
          BY <3>4
        <5> HIDE DEF qlen, len
        <5> QED  BY <5>1, <5>2, <5>3
      <4> HIDE DEF qlen, len
      <4>2. c < l => qlen >= BlockSize - 1
        BY <4>1
      <4> QED  BY <4>2 DEF qlen
    <3> QED  BY <3>3, <3>5
  <2>3. CASE ~(c <= n)
    <3>1. c = n + 1 /\ c = u /\ bs[c].length = 0
      BY <1>5, <2>3
    <3>2. ~(c < l)
      BY <1>a, <2>0, <3>1
    <3>3. q[c].length = 1
      BY <2>1, <3>1
    <3>4. 1 \in 1 .. BlockSize + 1
      BY <1>1
    <3> QED  BY <2>3, <3>2, <3>3, <3>4
  <2> QED  BY <2>2, <2>3
<1>8. ASSUME NEW c \in 1 .. l, NEW j \in 0 .. q[c].length - 1 PROVE Ring!At(q[c], j) \in Items
  <2>0. /\ j \in Nat /\ j < q[c].length /\ q[c].length = bs[c].length + (IF c = u THEN 1 ELSE 0)
        /\ bs[c].length \in Nat
    BY <1>3, <1>4
  <2>1. CASE c < b \/ c > u
    <3>1. q[c] = bs[c]
      BY <1>3, <2>1
    <3> QED  BY <1>6, <3>1
  <2>2. CASE c = b
    <3>1. Ring!At(q[b], j) = IF j < e THEN Ring!At(bs[b], j) ELSE IF j = e THEN x
                               ELSE Ring!At(bs[b], j - 1)
      BY <1>3, <2>2
    <3>2. e < q[b].length
      BY <1>3, <1>4
    <3>3. CASE j < e
      <4>1. j \in 0 .. bs[b].length - 1
        BY <1>4, <2>0, <2>2, <3>2, <3>3
      <4> QED  BY <1>3, <1>6, <2>2, <3>1, <3>3, <4>1
    <3>4. CASE j = e
      BY <1>4, <2>2, <3>1, <3>4
    <3>5. CASE j > e
      <4>1. j - 1 \in 0 .. bs[b].length - 1 /\ ~(j < e) /\ j # e
        BY <1>4, <2>0, <2>2, <3>5
      <4> QED  BY <1>3, <1>6, <2>2, <3>1, <4>1
    <3> QED  BY <1>4, <2>0, <3>3, <3>4, <3>5
  <2>3. CASE c \in b + 1 .. u
    <3>1. CASE j = 0
      <4>1. c - 1 \in 1 .. l
        <5>1. u \in Nat /\ b \in Nat /\ u <= l /\ b >= 1
          BY <1>4
        <5> QED  BY <1>a, <2>3, <5>1
      <4>2. bs[c - 1].length - 1 \in 0 .. bs[c - 1].length - 1
        <5> DEFINE len == bs[c - 1].length
        <5>1. len \in Nat /\ len >= 1
          BY <1>3, <1>4, <2>3, <4>1
        <5> HIDE DEF len
        <5>2. len - 1 \in 0 .. len - 1
          BY <5>1
        <5> QED  BY <5>2 DEF len
      <4> QED  BY <1>3, <1>6, <2>3, <3>1, <4>1, <4>2
    <3>2. CASE j # 0
      <4>1. j \in 1 .. q[c].length - 1 /\ j - 1 \in 0 .. bs[c].length - 1
        BY <2>0, <3>2
      <4> QED  BY <1>3, <1>6, <2>3, <4>1
    <3> QED  BY <3>1, <3>2
  <2>4. c < b \/ c > u \/ c = b \/ c \in b + 1 .. u
    BY <1>2, <1>4
  <2> QED  BY <2>1, <2>2, <2>3, <2>4
<1>9. WellFilled(q)
  BY <1>3, <1>7, <1>8 DEF WellFilled
<1> DEFINE k == Upto(bs, b - 1) + e
<1>10. /\ \A c \in 0 .. l : Upto(q, c) = Upto(bs, c) + (IF c >= u THEN 1 ELSE 0)
       /\ ContentsIn(q) = InsertAt(ContentsIn(bs), k + 1, x)
  <2> DEFINE s == ContentsIn(bs)
             t == ContentsIn(q)
  <2>1. x \in Values /\ s = ContentsIn(bs) /\ t = ContentsIn(q) /\ k = Upto(bs, b - 1) + e
    BY DEF Values
  <2> HIDE DEF s, t, k
  <2>2. /\ \A c \in 0 .. l : Upto(q, c) = Upto(bs, c) + (IF c >= u THEN 1 ELSE 0)
        /\ t = InsertAt(s, k + 1, x)
    <3>1. /\ \A c \in 0 .. Len(bs) : Upto(q, c) = Upto(bs, c) + (IF c >= u THEN 1 ELSE 0)
          /\ k \in 0 .. Len(s) /\ t = InsertAt(s, k + 1, x)
      BY <2>1, PushedContents
    <3> QED  BY <1>0, <3>1
  <2> QED  BY <2>2 DEF s, t
<1>11. Upto(q, Len(q)) = Upto(as, n) + 1
  <2>1. l \in 0 .. l /\ l >= u
    BY <1>a, <1>4
  <2> QED  BY <1>2, <1>3, <1>10, <2>1
<1>12. \A c \in 0 .. n : c < b => Upto(q, c) = Upto(as, c)
  <2>1. \A c \in 0 .. n : c < b => c \in 0 .. l /\ ~(c >= u)
    BY <1>a, <1>4
  <2>2. \A c \in 0 .. n : Upto(as, c) \in Nat
    BY <1>0, <1>1, UptoIs
  <2> QED
    <3> TAKE c \in 0 .. n
    <3> HAVE c < b
    <3>1. Upto(q, c) = Upto(bs, c) + (IF c >= u THEN 1 ELSE 0)
      BY <1>10, <2>1
    <3>2. Upto(bs, c) = Upto(as, c) /\ Upto(as, c) \in Nat /\ ~(c >= u)
      BY <1>2, <2>1, <2>2
    <3> DEFINE A == Upto(as, c)
               B == Upto(bs, c)
               Q == Upto(q, c)
    <3>3. A \in Nat /\ B = A /\ (Q = B + (IF c >= u THEN 1 ELSE 0)) /\ ~(c >= u)
      BY <3>1, <3>2
    <3> HIDE DEF A, B, Q
    <3>4. Q = A
      BY <3>3
    <3> QED  BY <3>4 DEF Q, A
<1>13. Len(q) >= n /\ \A c \in 1 .. n : q[c].length >= as[c].length
  <2>1. l >= n
    BY <1>a
  <2>2. \A c \in 1 .. n : c \in 1 .. l /\ c <= n
    BY <1>a
  <2> QED  BY <1>3, <1>7, <2>1, <2>2
<1> QED  BY <1>0, <1>2, <1>9, <1>10, <1>11, <1>12, <1>13

LEMMA PulledKeeps ==
    ASSUME NEW bs, WellFilled(bs), NEW q, NEW b, NEW i, NEW stop, Pulled(q, bs, b, i, stop),
           stop = Len(bs) \/ ~TooFew(bs[stop].length - 1),
           bs[stop].length = 1 /\ stop = Len(bs) => Len(q) = Len(bs) - 1
    PROVE  /\ WellFilled(q)
           /\ Upto(q, Len(q)) = Upto(bs, Len(bs)) - 1
           /\ \A c \in 0 .. Len(q) : c < b => Upto(q, c) = Upto(bs, c)
           /\ ContentsIn(q) = RemoveAt(ContentsIn(bs), Upto(bs, b - 1) + i + 1)
<1> DEFINE n == Len(bs)
           m == Len(q)
<1>1. /\ bs \in Seq(Rings) /\ n \in Nat /\ BlockSize \in Nat /\ BlockSize > 1
      /\ \A c \in 1 .. n :
            /\ bs[c] \in Rings /\ bs[c].length \in 1 .. BlockSize + 1 /\ bs[c].length \in Nat
            /\ c < n => bs[c].length >= BlockSize - 1
            /\ \A j \in 0 .. bs[c].length - 1 : Ring!At(bs[c], j) \in Items
  BY FilledIs
<1>2. /\ q \in Seq(Rings)
      /\ b \in 1 .. n /\ stop \in b .. n /\ i \in 0 .. bs[b].length - 1
      /\ m = n \/ (m = n - 1 /\ stop = n /\ bs[n].length = 1)
      /\ \A c \in 1 .. m : /\ q[c].length = bs[c].length + (IF c = stop THEN -1 ELSE 0)
                           /\ c < b \/ c > stop => q[c] = bs[c]
      /\ \A c \in b .. stop : c <= m =>
            \A j \in 0 .. q[c].length - 1 :
               Ring!At(q[c], j) = IF c = b /\ j < i THEN Ring!At(bs[c], j)
                                  ELSE IF j + 1 < bs[c].length THEN Ring!At(bs[c], j + 1)
                                  ELSE Ring!At(bs[c + 1], 0)
      /\ \A c \in b .. stop - 1 : bs[c + 1].length >= 1
  BY DEF Pulled
<1>3. m \in Nat /\ m <= n /\ b \in Nat /\ stop \in Nat /\ b <= stop /\ stop <= n /\ b >= 1
  <2>1. b \in 1 .. n /\ stop \in b .. n /\ (m = n \/ m = n - 1) /\ n \in Nat
    BY <1>1, <1>2
  <2> HIDE DEF n, m
  <2> QED  BY <2>1
<1>4. ASSUME NEW c \in 1 .. m
      PROVE  /\ c \in 1 .. n /\ q[c].length \in 1 .. BlockSize + 1 /\ q[c].length \in Nat
             /\ c < m => q[c].length >= BlockSize - 1
  <2>1. c \in 1 .. n
    BY <1>1, <1>3
  <2>2. q[c].length = bs[c].length + (IF c = stop THEN -1 ELSE 0)
        /\ bs[c].length \in 1 .. BlockSize + 1 /\ (c < n => bs[c].length >= BlockSize - 1)
    BY <1>1, <1>2, <2>1
  <2>3. CASE c # stop
    <3>1. c < m => c < n
      BY <1>1, <1>3, <2>1
    <3> QED  BY <1>1, <2>1, <2>2, <2>3, <3>1
  <2>4. CASE c = stop
    <3> DEFINE len == bs[c].length
               qlen == q[c].length
    <3>1. len # 1
      <4>1. CASE stop = n
        <5>1. m = n
          BY <1>1, <1>3, <2>4, <4>1
        <5> QED  BY <1>1, <1>3, <2>4, <4>1, <5>1
      <4>2. CASE stop # n
        <5>1. ~(len - 1 < BlockSize - 1)
          BY <2>4, <4>2 DEF TooFew
        <5> QED  BY <1>1, <5>1
      <4> QED  BY <4>1, <4>2
    <3>2. c < m => ~(len - 1 < BlockSize - 1)
      <4>1. c < m => stop # n
        BY <1>1, <1>3, <2>4
      <4> QED  BY <2>4, <4>1 DEF TooFew
    <3>3. qlen = len - 1 /\ len \in 1 .. BlockSize + 1
      BY <1>1, <2>1, <2>2, <2>4
    <3> HIDE DEF len, qlen
    <3>4. qlen \in 1 .. BlockSize + 1 /\ qlen \in Nat /\ (c < m => qlen >= BlockSize - 1)
      BY <1>1, <3>1, <3>2, <3>3
    <3> QED  BY <2>1, <3>4 DEF qlen
  <2> QED  BY <2>3, <2>4
<1>5. ASSUME NEW c \in 1 .. m, NEW j \in 0 .. q[c].length - 1 PROVE Ring!At(q[c], j) \in Items
  <2>0. c \in 1 .. n /\ c <= m /\ j \in Nat /\ j < q[c].length /\ bs[c].length \in Nat
        /\ q[c].length = bs[c].length + (IF c = stop THEN -1 ELSE 0)
    BY <1>1, <1>2, <1>3, <1>4
  <2>1. CASE c < b \/ c > stop
    <3>1. q[c] = bs[c]
      BY <1>2, <2>1
    <3> QED  BY <1>1, <2>0, <3>1
  <2>2. CASE c \in b .. stop
    <3>1. Ring!At(q[c], j) = IF c = b /\ j < i THEN Ring!At(bs[c], j)
                                  ELSE IF j + 1 < bs[c].length THEN Ring!At(bs[c], j + 1)
                                  ELSE Ring!At(bs[c + 1], 0)
      BY <1>2, <2>0, <2>2
    <3>2. CASE j + 1 < bs[c].length
      <4>1. j \in 0 .. bs[c].length - 1 /\ j + 1 \in 0 .. bs[c].length - 1
        BY <2>0, <3>2
      <4> QED  BY <1>1, <2>0, <3>1, <3>2, <4>1
    <3>3. CASE ~(j + 1 < bs[c].length)
      <4>1. CASE c = b /\ j < i
        <5>1. j \in 0 .. bs[c].length - 1
          BY <1>2, <2>0, <4>1
        <5> QED  BY <1>1, <2>0, <3>1, <4>1, <5>1
      <4>2. CASE ~(c = b /\ j < i)
        <5>1. c # stop
          BY <2>0, <3>3
        <5>2. c \in b .. stop - 1 /\ c + 1 \in 1 .. n
          BY <1>1, <1>3, <2>0, <2>2, <5>1
        <5>3. 0 \in 0 .. bs[c + 1].length - 1
          BY <1>1, <1>2, <5>2
        <5> QED  BY <1>1, <3>1, <3>3, <4>2, <5>2, <5>3
      <4> QED  BY <4>1, <4>2
    <3> QED  BY <3>2, <3>3
  <2>3. c < b \/ c > stop \/ c \in b .. stop
    BY <1>1, <1>3, <2>0
  <2> QED  BY <2>1, <2>2, <2>3
<1>6. WellFilled(q)
  BY <1>2, <1>4, <1>5 DEF WellFilled
<1> DEFINE k == Upto(bs, b - 1) + i
<1>7. /\ \A c \in 0 .. m : Upto(q, c) = Upto(bs, c) + (IF c >= stop THEN -1 ELSE 0)
      /\ Upto(q, m) = Upto(bs, n) - 1
      /\ ContentsIn(q) = RemoveAt(ContentsIn(bs), k + 1)
  <2> DEFINE s == ContentsIn(bs)
             t == ContentsIn(q)
  <2>1. s = ContentsIn(bs) /\ t = ContentsIn(q) /\ k = Upto(bs, b - 1) + i
    OBVIOUS
  <2> HIDE DEF s, t, k
  <2>2. /\ \A c \in 0 .. m : Upto(q, c) = Upto(bs, c) + (IF c >= stop THEN -1 ELSE 0)
        /\ Upto(q, m) = Upto(bs, n) - 1
        /\ t = RemoveAt(s, k + 1)
    BY <2>1, PulledContents
  <2> QED  BY <2>2 DEF s, t
<1>8. \A c \in 0 .. m : c < b => Upto(q, c) = Upto(bs, c)
  <2>1. \A c \in 0 .. m : c < b => ~(c >= stop)
    BY <1>3
  <2>2. \A c \in 0 .. m : Upto(bs, c) \in Nat
    <3>1. \A c \in 0 .. m : c \in 0 .. n
      BY <1>1, <1>3
    <3> QED  BY <1>1, <3>1, UptoIs
  <2> QED  BY <1>7, <2>1, <2>2
<1> QED  BY <1>6, <1>7, <1>8

-------------------------------------------------------------------------------
(* What a list operation makes of the blocks, and of the sequence they stand for. *)

\* x has come into the list, and is the k-th, counted from 0.
Grown(q, x, k) ==
    /\ WellFilled(q) /\ Len(q) >= Len(blocks)
    /\ \A c \in 1 .. Len(blocks) : q[c].length >= blocks[c].length
    /\ Upto(q, Len(q)) = Upto(blocks, Len(blocks)) + 1
    /\ ContentsIn(q) = InsertAt(ContentsIn(blocks), k + 1, x)

\* The k-th item has gone.
Shrunk(q, k) ==
    /\ WellFilled(q)
    /\ Upto(q, Len(q)) = Upto(blocks, Len(blocks)) - 1
    /\ ContentsIn(q) = RemoveAt(ContentsIn(blocks), k + 1)

\* Nothing in front of block b is counted differently.
FrontKept(q, b) == \A c \in 0 .. Len(blocks) : c < b /\ c <= Len(q) => Upto(q, c) = Upto(blocks, c)

LEMMA InsertsAt ==
    ASSUME WellFilled(blocks), NEW b \in 1 .. Len(blocks), ~Spreads(b),
           NEW i \in 0 .. blocks[b].length, i <= BlockSize, NEW x \in Items,
           NEW q, q = InsertedAt(b, i, x)
    PROVE  /\ Grown(q, x, Upto(blocks, b - 1) + Entry(Room(b), i))
           /\ FrontKept(q, b)
<1> DEFINE e == Entry(Room(b), i)
<1>1. LastBlock = Len(blocks) /\ Len(blocks) \in Nat /\ b \in 1 .. LastBlock
  BY FilledIs DEF LastBlock
<1>2. PICK bs, u : /\ Extended(blocks, bs) /\ Pushed(q, bs, b, e, u, x)
                   /\ bs = blocks \/ (u = Len(bs) /\ blocks[LastBlock].length = BlockSize + 1)
                   /\ bs[u].length <= BlockSize
  BY <1>1, InsertedBlocks
<1> HIDE DEF e
<1>3. bs = blocks \/ (u = Len(bs) /\ (Len(blocks) = 0 \/ blocks[Len(blocks)].length = BlockSize + 1))
  BY <1>1, <1>2
<1>4. /\ WellFilled(q) /\ Len(q) >= Len(blocks)
      /\ \A c \in 1 .. Len(blocks) : q[c].length >= blocks[c].length
      /\ Upto(q, Len(q)) = Upto(blocks, Len(blocks)) + 1
      /\ \A c \in 0 .. Len(blocks) : c < b => Upto(q, c) = Upto(blocks, c)
      /\ ContentsIn(q) = InsertAt(ContentsIn(blocks), Upto(bs, b - 1) + e + 1, x)
  BY <1>2, <1>3, PushedKeeps
<1>5. Upto(bs, b - 1) = Upto(blocks, b - 1)
  <2>1. blocks \in Seq(Rings) /\ b - 1 \in 0 .. Len(blocks)
    BY <1>1, FilledIs
  <2>2. \A c \in 0 .. Len(blocks) : Upto(bs, c) = Upto(blocks, c)
    BY <1>2, <2>1, ExtendedIs
  <2> QED  BY <2>1, <2>2
<1> QED  BY <1>4, <1>5 DEF Grown, FrontKept, e

LEMMA AppendsAt ==
    ASSUME WellFilled(blocks), NEW x \in Items, NEW q, q = Appended(x)
    PROVE  Grown(q, x, Upto(blocks, Len(blocks)))
<1> DEFINE into == blocks # <<>> /\ blocks[LastBlock].length <= BlockSize
           bs == IF into THEN blocks ELSE Append(blocks, Ring!Empty)
           n == Len(blocks)
           b == Len(bs)
           e == bs[b].length
<1>1. /\ LastBlock = n /\ n \in Nat /\ blocks \in Seq(Rings) /\ BlockSize \in Nat
      /\ \A c \in 1 .. n : blocks[c] \in Rings /\ blocks[c].length \in 1 .. BlockSize + 1
  BY FilledIs DEF LastBlock
<1>2. Extended(blocks, bs)
  BY DEF Extended
<1>3. bs \in Seq(Rings) /\ b >= 1 /\ b \in Nat /\ b \in 1 .. b /\ bs[b] \in Rings /\ e <= BlockSize
  <2>1. CASE into
    <3>1. n # 0
      BY <1>1, <2>1
    <3> QED  BY <1>1, <2>1, <3>1
  <2>2. CASE ~into
    <3>1. bs \in Seq(Rings) /\ b = n + 1 /\ bs[n + 1] = Ring!Empty
      BY <1>1, <2>2, EmptyIs, AppendProperties
    <3> QED  BY <1>1, <3>1, EmptyIs
  <2> QED  BY <2>1, <2>2
<1>4. e \in Nat /\ e \in 0 .. BlockSize
  BY <1>3, RingIs
<1>5. q = [bs EXCEPT ![b] = Ring!PushBack(bs[b], x)]
  <2>1. CASE into
    BY <1>1, <2>1 DEF Appended
  <2>2. CASE ~into
    <3>1. bs = Append(blocks, Ring!Empty) /\ b = n + 1
      BY <1>1, <2>2
    <3>2. q = Append(blocks, Ring!PushBack(Ring!Empty, x))
      BY <2>2 DEF Appended
    <3> HIDE DEF bs
    <3>3. [Append(blocks, Ring!Empty) EXCEPT ![n + 1] = Ring!PushBack(Ring!Empty, x)]
            = Append(blocks, Ring!PushBack(Ring!Empty, x))
      <4> DEFINE y == Ring!Empty
                 z == Ring!PushBack(y, x)
                 V == Rings \cup {y, z}
                 before == Append(blocks, y)
                 changed == [before EXCEPT ![n + 1] = z]
                 after == Append(blocks, z)
      <4> HIDE DEF y, z
      <4>0. blocks \in Seq(V) /\ y \in V /\ z \in V
        BY <1>1
      <4> HIDE DEF V
      <4>a. n \in Nat
        BY <1>1
      <4>2. /\ before \in Seq(V) /\ Len(before) = n + 1 /\ n + 1 \in 1 .. n + 1
            /\ \A c \in 1 .. n : before[c] = blocks[c]
        BY <4>a, <4>0, AppendProperties
      <4>3. /\ after \in Seq(V) /\ Len(after) = n + 1 /\ after[n + 1] = z
            /\ \A c \in 1 .. n : after[c] = blocks[c]
        BY <4>0, AppendProperties
      <4> HIDE DEF before, after
      <4>4. changed \in Seq(V) /\ Len(changed) = n + 1
            /\ \A c \in 1 .. n + 1 : changed[c] = IF c = n + 1 THEN z ELSE before[c]
        BY <4>0, <4>2
      <4> HIDE DEF changed
      <4>5. \A c \in 1 .. n + 1 : c = n + 1 \/ c \in 1 .. n
        BY <4>a
      <4>6. \A c \in 1 .. n + 1 : changed[c] = after[c]
        BY <4>2, <4>3, <4>4, <4>5
      <4>7. changed = after
        BY <4>3, <4>4, <4>6, SeqEqual
      <4>1. [Append(blocks, y) EXCEPT ![n + 1] = z] = Append(blocks, z)
        BY <4>7 DEF changed, after, before
      <4> QED  BY <4>1 DEF y, z
    <3>4. bs[b] = Ring!Empty
      BY <1>1, <3>1
    <3> QED  BY <3>1, <3>2, <3>3, <3>4
  <2> QED  BY <2>1, <2>2
<1> HIDE DEF bs
<1> DEFINE p == Ring!PushBack(bs[b], x)
<1>6. /\ p \in Rings /\ p.length = e + 1
      /\ \A j \in 0 .. e - 1 : Ring!At(p, j) = Ring!At(bs[b], j)
      /\ Ring!At(p, e) = x
  <2>1. x \in Values /\ p = Ring!PushBack(bs[b], x)
    BY DEF Values
  <2> HIDE DEF p
  <2> QED  BY <1>3, <2>1, PushBackIs
<1> HIDE DEF p
<1>7. q \in Seq(Rings) /\ Len(q) = b /\ q[b] = p /\ \A c \in 1 .. b : c # b => q[c] = bs[c]
  <2>1. q = [bs EXCEPT ![b] = p]
    BY <1>5 DEF p
  <2> QED  BY <1>3, <1>6, <2>1
<1>8. \A c \in 1 .. b : bs[c].length \in Nat
  BY <1>3, UptoIs
<1>9. Pushed(q, bs, b, e, b, x)
  <2>1. e \in 0 .. q[b].length - 1 /\ b \in b .. b
    BY <1>3, <1>4, <1>6, <1>7
  <2>2. ASSUME NEW c \in 1 .. b
        PROVE  /\ q[c].length = bs[c].length + (IF c = b THEN 1 ELSE 0)
               /\ c < b \/ c > b => q[c] = bs[c]
    <3>1. CASE c = b
      BY <1>3, <1>6, <1>7, <3>1
    <3>2. CASE c # b
      BY <1>7, <1>8, <3>2
    <3> QED  BY <3>1, <3>2
  <2>3. ASSUME NEW j \in 0 .. q[b].length - 1
        PROVE  Ring!At(q[b], j) = IF j < e THEN Ring!At(bs[b], j) ELSE IF j = e THEN x
                                  ELSE Ring!At(bs[b], j - 1)
    <3>1. j \in 0 .. e
      BY <1>4, <1>6, <1>7
    <3>2. j \in 0 .. e - 1 \/ (j = e /\ ~(j < e))
      BY <1>4, <3>1
    <3>3. j \in 0 .. e - 1 => j < e
      BY <1>4
    <3> QED  BY <1>6, <1>7, <3>2, <3>3
  <2>4. \A c \in b + 1 .. b : FALSE
    BY <1>3
  <2> QED  BY <1>3, <1>7, <2>1, <2>2, <2>3, <2>4 DEF Pushed
<1>10. bs = blocks \/ (b = Len(bs) /\ (Len(blocks) = 0 \/ blocks[Len(blocks)].length = BlockSize + 1))
  <2>1. CASE into
    BY <2>1 DEF bs
  <2>2. CASE ~into
    <3>1. blocks = <<>> => n = 0
      OBVIOUS
    <3>2. n # 0 => blocks[n].length = BlockSize + 1
      <4> HAVE n # 0
      <4>1. n \in 1 .. n /\ ~(blocks[n].length <= BlockSize)
        BY <1>1, <2>2, <3>1
      <4> DEFINE len == blocks[n].length
      <4>2. len \in 1 .. BlockSize + 1 /\ ~(len <= BlockSize)
        BY <1>1, <4>1
      <4> HIDE DEF len
      <4>3. len = BlockSize + 1
        BY <1>1, <4>2
      <4> QED  BY <4>3 DEF len
    <3> QED  BY <3>2
  <2> QED  BY <2>1, <2>2
<1> DEFINE z == e
           d == b
<1>11. /\ Extended(blocks, bs) /\ Pushed(q, bs, d, z, d, x) /\ bs[d].length <= BlockSize
       /\ bs = blocks \/ (d = Len(bs) /\ (Len(blocks) = 0 \/ blocks[Len(blocks)].length = BlockSize + 1))
  BY <1>2, <1>3, <1>9, <1>10
<1> HIDE DEF z, d
<1>12. /\ WellFilled(q) /\ Len(q) >= Len(blocks)
       /\ \A c \in 1 .. Len(blocks) : q[c].length >= blocks[c].length
       /\ Upto(q, Len(q)) = Upto(blocks, Len(blocks)) + 1
       /\ \A c \in 0 .. Len(blocks) : c < d => Upto(q, c) = Upto(blocks, c)
       /\ ContentsIn(q) = InsertAt(ContentsIn(blocks), Upto(bs, d - 1) + z + 1, x)
  BY <1>11, PushedKeeps
<1>13. Upto(bs, d - 1) + z = Upto(blocks, Len(blocks))
  <2>1. Upto(bs, Len(bs)) = Upto(blocks, Len(blocks))
    BY <1>1, <1>2, ExtendedIs
  <2>2. Upto(bs, b) = Upto(bs, b - 1) + e
    BY <1>3, UptoIs
  <2> QED  BY <2>1, <2>2 DEF z, d
<1> QED  BY <1>12, <1>13 DEF Grown

LEMMA RemovesAt ==
    ASSUME WellFilled(blocks), NEW b \in 1 .. Len(blocks),
           NEW i \in 0 .. blocks[b].length - 1, NEW q, q = RemovedAt(b, i)
    PROVE  /\ Shrunk(q, Upto(blocks, b - 1) + i) /\ FrontKept(q, b)
           /\ \/ b = Len(blocks) /\ i = blocks[b].length - 1
              \/ b \in 1 .. Len(q) /\ i \in 0 .. q[b].length - 1
              \/ /\ b < Len(blocks) /\ i = blocks[b].length - 1 /\ ~TooFew(blocks[b].length - 1)
                 /\ b \in 1 .. Len(q) - 1 /\ i = q[b].length /\ i <= BlockSize
<1>1. LastBlock = Len(blocks) /\ Len(blocks) \in Nat /\ b \in 1 .. LastBlock
      /\ \A c \in 1 .. Len(blocks) : blocks[c].length \in Nat
  BY FilledIs DEF LastBlock
<1>2. PICK stop : /\ Pulled(q, blocks, b, i, stop)
                  /\ stop = LastBlock \/ ~TooFew(blocks[stop].length - 1)
                  /\ blocks[stop].length = 1 /\ stop = LastBlock => Len(q) = LastBlock - 1
  BY <1>1, RemovedBlocks
<1>3. /\ WellFilled(q)
      /\ Upto(q, Len(q)) = Upto(blocks, Len(blocks)) - 1
      /\ \A c \in 0 .. Len(q) : c < b => Upto(q, c) = Upto(blocks, c)
      /\ ContentsIn(q) = RemoveAt(ContentsIn(blocks), Upto(blocks, b - 1) + i + 1)
  <2>1. /\ stop = Len(blocks) \/ ~TooFew(blocks[stop].length - 1)
        /\ blocks[stop].length = 1 /\ stop = Len(blocks) => Len(q) = Len(blocks) - 1
    BY <1>1, <1>2
  <2> QED  BY <1>2, <2>1, PulledKeeps
<1>4. Shrunk(q, Upto(blocks, b - 1) + i)
  BY <1>3 DEF Shrunk
<1>5. Len(q) \in Nat
  BY <1>3, FilledIs
<1>6. FrontKept(q, b)
  <2>1. \A c \in 0 .. Len(blocks) : c <= Len(q) => c \in 0 .. Len(q)
    BY <1>1, <1>5
  <2> QED  BY <1>3, <2>1 DEF FrontKept
<1>7. ASSUME ~(b = Len(blocks) /\ i = blocks[b].length - 1)
      PROVE  \/ b \in 1 .. Len(q) /\ i \in 0 .. q[b].length - 1
             \/ /\ b < Len(blocks) /\ i = blocks[b].length - 1 /\ ~TooFew(blocks[b].length - 1)
                /\ b \in 1 .. Len(q) - 1 /\ i = q[b].length /\ i <= BlockSize
  <2>0. PICK n, m : n = Len(blocks) /\ m = Len(q)
    OBVIOUS
  <2>1. /\ b \in 1 .. n /\ stop \in b .. n /\ i \in 0 .. blocks[b].length - 1
        /\ m = n \/ (m = n - 1 /\ stop = n /\ blocks[n].length = 1)
        /\ \A c \in 1 .. m : q[c].length = blocks[c].length + (IF c = stop THEN -1 ELSE 0)
    BY <1>2, <2>0 DEF Pulled
  <2>2. n \in Nat /\ m \in Nat /\ b \in Nat /\ stop \in Nat /\ b <= stop /\ stop <= n /\ b >= 1
        /\ blocks[b].length \in Nat
    <3>1. n \in Nat /\ m \in Nat /\ blocks[b].length \in Nat
      BY <1>1, <1>5, <2>0
    <3> QED  BY <2>1, <3>1
  <2>3. CASE b < stop
    <3>1. b <= m /\ b \in 1 .. m /\ b # stop
      BY <2>1, <2>2, <2>3
    <3>2. q[b].length = blocks[b].length
      BY <2>1, <2>2, <3>1
    <3> QED  BY <2>0, <2>1, <3>1, <3>2
  <2>a. CASE b = stop /\ i = blocks[b].length - 1
    <3> DEFINE len == blocks[b].length
    <3>1. b < n /\ ~TooFew(len - 1)
      <4>1. b # n
        BY <1>7, <2>0, <2>a
      <4> QED  BY <1>1, <1>2, <2>0, <2>2, <2>a, <4>1
    <3>2. m = n /\ b \in 1 .. m - 1 /\ b \in 1 .. m
      BY <2>1, <2>2, <2>a, <3>1
    <3>3. q[b].length = len + -1
      BY <2>1, <2>a, <3>2
    <3>4. len \in 1 .. BlockSize + 1 /\ len \in Nat /\ BlockSize \in Nat
      BY <2>0, <2>1, FilledIs
    <3>5. i = len - 1
      BY <2>a
    <3> HIDE DEF len
    <3>6. i = q[b].length /\ i <= BlockSize
      BY <3>3, <3>4, <3>5
    <3> QED  BY <2>0, <2>a, <3>1, <3>2, <3>6 DEF len
  <2>4. CASE b = stop /\ i # blocks[b].length - 1
    <3>1. i # blocks[b].length - 1
      BY <2>4
    <3> DEFINE len == blocks[b].length
    <3>2. len \in Nat /\ i \in 0 .. len - 1 /\ i # len - 1
      BY <2>1, <2>2, <3>1
    <3> HIDE DEF len
    <3>3. i \in 0 .. len - 2 /\ len # 1
      BY <3>2
    <3>4. m = n
      BY <2>1, <2>4, <3>3 DEF len
    <3>5. b \in 1 .. m /\ q[b].length = len - 1
      BY <2>1, <2>2, <2>4, <3>4 DEF len
    <3>6. i \in 0 .. (len - 1) - 1
      BY <3>2, <3>3
    <3> QED  BY <2>0, <3>5, <3>6
  <2>5. b < stop \/ b = stop
    BY <2>2
  <2> QED  BY <2>3, <2>a, <2>4, <2>5
<1> QED  BY <1>4, <1>6, <1>7

-------------------------------------------------------------------------------
(* Where an item is. *)

\* The k-th item of s, counted from 0, is the j-th of block c.
Here(bs, s, k, c, j) ==
    /\ c \in 1 .. Len(bs) /\ j \in 0 .. bs[c].length - 1
    /\ k = Upto(bs, c - 1) + j /\ s[k + 1] = Ring!At(bs[c], j)

\* Every item of the contents is one of a block.
LEMMA InLine ==
    ASSUME NEW bs \in Seq(Rings), NEW s, s = ContentsIn(bs), NEW k \in 0 .. Len(s) - 1
    PROVE  \E c, j : Here(bs, s, k, c, j)
<1>1. s \in Seq(Values) /\ Lines(s, bs, Len(bs))
  BY ContentsIs
<1>2. k \in 0 .. Upto(bs, Len(bs)) - 1 /\ k \in Int
  BY <1>1 DEF Lines
<1> DEFINE c == Min({d \in 1 .. Len(bs) : k < Upto(bs, d)})
           B == Upto(bs, c - 1)
           j == k - B
<1>3. c \in 1 .. Len(bs) /\ j \in 0 .. bs[c].length - 1
  <2>1. c = Min({d \in 1 .. Len(bs) : k < Upto(bs, d)})
    OBVIOUS
  <2> HIDE DEF c
  <2> QED  BY <1>2, <2>1, InABlock
<1> HIDE DEF c
<1>4. B \in Nat
  <2>1. c - 1 \in 0 .. Len(bs) /\ Len(bs) \in Nat
    BY <1>3
  <2> QED  BY <2>1, UptoIs
<1>5. s[B + j + 1] = Ring!At(bs[c], j)
  BY <1>1, <1>3 DEF Lines
<1> HIDE DEF B
<1>6. k = B + j
  BY <1>2, <1>4
<1> HIDE DEF j
<1>7. s[k + 1] = Ring!At(bs[c], j)
  BY <1>5, <1>6
<1> QED  BY <1>3, <1>6, <1>7 DEF B, Here

\* The items of a block come before those of a later one.
LEMMA Precedes ==
    ASSUME NEW bs \in Seq(Rings), NEW c \in 1 .. Len(bs), NEW d \in 1 .. Len(bs), c < d,
           NEW j \in 0 .. bs[c].length - 1, NEW i \in Nat
    PROVE  Upto(bs, c - 1) + j < Upto(bs, d - 1) + i
<1> DEFINE C == Upto(bs, c - 1)
           D == Upto(bs, d - 1)
           len == bs[c].length
<1>1. c \in 0 .. Len(bs) /\ d - 1 \in 0 .. Len(bs) /\ c - 1 \in 0 .. Len(bs) /\ c <= d - 1
  OBVIOUS
<1>2. Upto(bs, c) <= D
  BY <1>1, UptoGrows
<1>3. C \in Nat /\ D \in Nat /\ len \in Nat /\ Upto(bs, c) = C + len
  BY <1>1, UptoIs
<1>4. C + len <= D /\ j \in 0 .. len - 1
  BY <1>2, <1>3
<1> HIDE DEF C, D, len
<1>5. C + j < D + i
  BY <1>3, <1>4
<1> QED  BY <1>5 DEF C, D

LEMMA SamePlace ==
    ASSUME NEW bs \in Seq(Rings), NEW c \in 1 .. Len(bs), NEW d \in 1 .. Len(bs),
           NEW j \in 0 .. bs[c].length - 1, NEW i \in 0 .. bs[d].length - 1
    PROVE  Upto(bs, c - 1) + j = Upto(bs, d - 1) + i <=> c = d /\ j = i
<1> DEFINE C == Upto(bs, c - 1)
           D == Upto(bs, d - 1)
<1>1. c - 1 \in 0 .. Len(bs) /\ d - 1 \in 0 .. Len(bs)
  OBVIOUS
<1>2. C \in Nat /\ D \in Nat /\ bs[c].length \in Nat /\ bs[d].length \in Nat
  <2>1. C \in Nat /\ D \in Nat
    BY <1>1, UptoIs
  <2>2. bs[c] \in Rings /\ bs[d] \in Rings
    OBVIOUS
  <2> QED  BY <2>1, <2>2, RingIs
<1>3. i \in Nat /\ j \in Nat
  BY <1>2
<1>4. c < d => C + j < D + i
  BY <1>3, Precedes
<1>5. d < c => D + i < C + j
  BY <1>3, Precedes
<1>6. c = d => C = D
  OBVIOUS
<1>7. c \in Nat /\ d \in Nat
  OBVIOUS
<1> HIDE DEF C, D
<1>8. C + j = D + i <=> c = d /\ j = i
  BY <1>2, <1>3, <1>4, <1>5, <1>6, <1>7
<1> QED  BY <1>8 DEF C, D

\* The k-th item is another one.
Changed(q, x, k) ==
    /\ WellFilled(q) /\ Len(q) = Len(blocks)
    /\ \A c \in 1 .. Len(blocks) : q[c].length = blocks[c].length
    /\ Upto(q, Len(q)) = Upto(blocks, Len(blocks))
    /\ ContentsIn(q) = [ContentsIn(blocks) EXCEPT ![k + 1] = x]

LEMMA Changes ==
    ASSUME WellFilled(blocks), NEW b \in 1 .. Len(blocks), NEW i \in 0 .. blocks[b].length - 1,
           NEW x \in Items, NEW q, q = [blocks EXCEPT ![b] = Ring!SetAt(@, i, x)]
    PROVE  Changed(q, x, Upto(blocks, b - 1) + i)
<1>0. PICK n : n = Len(blocks)
  OBVIOUS
<1>1. /\ n \in Nat /\ blocks \in Seq(Rings) /\ b \in 1 .. n
      /\ \A c \in 1 .. n : blocks[c] \in Rings /\ blocks[c].length \in Nat
  BY <1>0, FilledIs
<1> DEFINE p == Ring!SetAt(blocks[b], i, x)
<1>2. p \in Rings /\ p.length = blocks[b].length
      /\ \A j \in 0 .. blocks[b].length - 1 :
            Ring!At(p, j) = IF j = i THEN x ELSE Ring!At(blocks[b], j)
  <2>1. blocks[b] \in Rings /\ x \in Values /\ p = Ring!SetAt(blocks[b], i, x)
    BY <1>1 DEF Values
  <2> HIDE DEF p
  <2> QED  BY <2>1, SetAtIs
<1>3. q = [blocks EXCEPT ![b] = p]
  OBVIOUS
<1> HIDE DEF p
<1>4. q \in Seq(Rings) /\ Len(q) = n /\ \A c \in 1 .. n : q[c] = IF c = b THEN p ELSE blocks[c]
  BY <1>0, <1>1, <1>2, <1>3
<1>5. \A c \in 1 .. n : q[c].length = blocks[c].length
  BY <1>2, <1>4
<1>6. \A c \in 1 .. n : \A j \in 0 .. q[c].length - 1 :
         Ring!At(q[c], j) = IF c = b /\ j = i THEN x ELSE Ring!At(blocks[c], j)
  BY <1>2, <1>4, <1>5
<1>7. WellFilled(q)
  <2>1. \A c \in 1 .. n : \A j \in 0 .. q[c].length - 1 : Ring!At(q[c], j) \in Items
    <3>1. \A c \in 1 .. n : \A j \in 0 .. blocks[c].length - 1 : Ring!At(blocks[c], j) \in Items
      BY <1>0, FilledIs
    <3> QED  BY <1>5, <1>6, <3>1
  <2>2. \A c \in 1 .. n : /\ blocks[c].length \in 1 .. BlockSize + 1
                          /\ c < n => blocks[c].length >= BlockSize - 1
    BY <1>0, FilledIs
  <2> QED  BY <1>4, <1>5, <2>1, <2>2 DEF WellFilled
<1>8. \A c \in 0 .. n : Upto(q, c) = Upto(blocks, c)
  <2>1. n <= Len(blocks) /\ n <= Len(q) /\ 1 \in Nat \ {0} /\ 0 \in Int
    BY <1>0, <1>1, <1>4
  <2>2. LengthsDiffer(q, blocks, n, 1, 0)
    BY <1>1, <1>5 DEF LengthsDiffer
  <2>3. CountsDiffer(q, blocks, n, 1, 0)
    BY <1>1, <1>4, <2>1, <2>2, UptoChanges
  <2>4. \A c \in 0 .. n : Upto(blocks, c) \in Nat
    BY <1>0, <1>1, UptoIs
  <2>5. ASSUME NEW c \in 0 .. n PROVE Upto(q, c) = Upto(blocks, c)
    <3>1. Upto(q, c) = Upto(blocks, c) + (IF c >= 1 THEN 0 ELSE 0)
      BY <2>3 DEF CountsDiffer
    <3>2. Upto(blocks, c) \in Nat
      BY <2>4
    <3> QED  BY <3>1, <3>2
  <2> QED  BY <2>5
<1> DEFINE s == ContentsIn(blocks)
           t == ContentsIn(q)
           k == Upto(blocks, b - 1) + i
<1>9. /\ s \in Seq(Values) /\ Len(s) = Upto(blocks, n) /\ Len(s) \in Nat
      /\ t \in Seq(Values) /\ Lines(t, q, n) /\ Len(t) = Len(s)
  <2>1. s \in Seq(Values) /\ Lines(s, blocks, n)
    BY <1>0, <1>1, ContentsIs
  <2>2. t \in Seq(Values) /\ Lines(t, q, n)
    BY <1>4, ContentsIs
  <2>3. n \in 0 .. n
    BY <1>1
  <2>4. Upto(blocks, n) \in Nat
    BY <1>0, <1>1, <2>3, UptoIs
  <2> QED  BY <1>8, <2>1, <2>2, <2>3, <2>4 DEF Lines
<1>10. ASSUME NEW h \in 1 .. Len(s) PROVE t[h] = IF h = k + 1 THEN x ELSE s[h]
  <2>1. h - 1 \in 0 .. Len(s) - 1 /\ (h - 1) + 1 = h /\ h \in Nat
    BY <1>9
  <2>2. PICK c, j : c \in 1 .. n /\ j \in 0 .. blocks[c].length - 1
                    /\ h - 1 = Upto(blocks, c - 1) + j /\ s[h] = Ring!At(blocks[c], j)
    <3> DEFINE g == h - 1
    <3>1. g \in 0 .. Len(s) - 1 /\ g + 1 = h /\ s = ContentsIn(blocks)
      BY <2>1
    <3> HIDE DEF g, s
    <3>2. \E c, j : Here(blocks, s, g, c, j)
      BY <1>1, <3>1, InLine
    <3> QED  BY <1>0, <3>1, <3>2 DEF g, Here
  <2>a. c \in 1 .. n /\ j \in 0 .. blocks[c].length - 1
    BY <2>2
  <2>3. c - 1 \in 0 .. n
    BY <1>1, <2>a
  <2>4. j \in 0 .. q[c].length - 1 /\ Upto(q, c - 1) = Upto(blocks, c - 1)
    BY <1>5, <1>8, <2>a, <2>3
  <2>5. t[Upto(q, c - 1) + j + 1] = Ring!At(q[c], j)
    BY <1>9, <2>a, <2>4 DEF Lines
  <2>6. t[h] = Ring!At(q[c], j)
    BY <2>1, <2>2, <2>4, <2>5
  <2>7. h = k + 1 <=> c = b /\ j = i
    <3>1. Upto(blocks, c - 1) + j = Upto(blocks, b - 1) + i <=> c = b /\ j = i
      BY <1>0, <1>1, <2>a, SamePlace
    <3>2. k \in Int
      <4>1. b - 1 \in 0 .. n
        BY <1>1
      <4>2. Upto(blocks, b - 1) \in Nat
        BY <1>0, <1>1, <4>1, UptoIs
      <4> QED  BY <1>1, <4>2
    <3> HIDE DEF s, t
    <3>3. h = k + 1 <=> h - 1 = k
      <4> HIDE DEF k
      <4> QED  BY <2>1, <3>2
    <3> QED  BY <2>2, <3>1, <3>3
  <2> QED  BY <1>6, <2>2, <2>a, <2>4, <2>6, <2>7
<1>11. k + 1 \in 1 .. Len(s)
  <2>1. b \in 0 .. n /\ n \in 0 .. n /\ b <= n /\ b - 1 \in 0 .. n
    BY <1>1
  <2> DEFINE B == Upto(blocks, b - 1)
             len == blocks[b].length
  <2>2. Upto(blocks, b) <= Upto(blocks, n) /\ Upto(blocks, b) = B + len /\ B \in Nat /\ len \in Nat
    BY <1>0, <1>1, <2>1, UptoIs, UptoGrows
  <2>3. B + len <= Len(s) /\ k = B + i /\ i \in 0 .. len - 1
    BY <1>9, <2>2
  <2> HIDE DEF B, len, k, s
  <2> QED  BY <1>9, <2>2, <2>3
<1>12. t = [s EXCEPT ![k + 1] = x]
  <2> DEFINE w == [s EXCEPT ![k + 1] = x]
  <2> HIDE DEF s, t, k
  <2>1. w \in Seq(Values) /\ Len(w) = Len(s) /\ \A h \in 1 .. Len(s) : w[h] = IF h = k + 1 THEN x ELSE s[h]
    BY <1>9, <1>11 DEF Values
  <2> HIDE DEF w
  <2>2. t = w
    BY <1>9, <1>10, <2>1, SeqEqual
  <2> QED  BY <2>2 DEF w
<1>13. Upto(q, Len(q)) = Upto(blocks, Len(blocks))
  <2>1. n \in 0 .. n
    BY <1>1
  <2> QED  BY <1>0, <1>4, <1>8, <2>1
<1> QED  BY <1>0, <1>4, <1>5, <1>7, <1>12, <1>13 DEF Changed

-------------------------------------------------------------------------------
(* Looking for an item. *)

LEMMA FindIndexOfIs ==
    ASSUME NEW r \in Rings, NEW x, NEW i, i = Ring!FindIndexOf(r, x)
    PROVE  /\ i # -1 => /\ i \in 0 .. r.length - 1 /\ Ring!At(r, i) = x
                        /\ \A j \in 0 .. r.length - 1 : Ring!At(r, j) = x => i <= j
           /\ i = -1 => \A j \in 0 .. r.length - 1 : Ring!At(r, j) # x
<1> DEFINE found == {j \in 0 .. r.length - 1 : Ring!At(r, j) = x}
<1>1. i = IF found = {} THEN -1 ELSE CHOOSE j \in found : \A k \in found : j <= k
  BY DEF Ring!FindIndexOf
<1>2. r.length \in Nat /\ found \in SUBSET Nat
  BY RingIs
<1>3. CASE found = {}
  BY <1>1, <1>3
<1>4. CASE found # {}
  <2> HIDE DEF found
  <2>1. \E j \in found : \A k \in found : j <= k
    BY <1>2, <1>4, LeastOf
  <2>2. i \in found /\ \A k \in found : i <= k
    BY <1>1, <1>4, <2>1
  <2> USE DEF found
  <2>3. i \in Nat
    BY <1>2, <2>2
  <2>4. i # -1
    BY <2>3
  <2> QED  BY <2>2, <2>4
<1> QED  BY <1>3, <1>4

\* remove(object) takes the first of the items that are the object.
LEMMA HoldingIs ==
    ASSUME ListInv, NEW x, Holding(x) # {}, NEW b, b = Min(Holding(x)),
           NEW i, i = Ring!FindIndexOf(blocks[b], x)
    PROVE  /\ b \in 1 .. Len(blocks) /\ i \in 0 .. blocks[b].length - 1
           /\ FirstOf(x) = Upto(blocks, b - 1) + i
<1>1. /\ WellFilled(blocks) /\ length = Upto(blocks, Len(blocks)) /\ blocks \in Seq(Rings)
      /\ Len(blocks) \in Nat /\ LastBlock = Len(blocks)
      /\ \A c \in 1 .. Len(blocks) : blocks[c] \in Rings /\ blocks[c].length \in Nat
  BY FilledIs DEF ListInv, LastBlock
<1>2. Holding(x) \in SUBSET Nat
  BY <1>1 DEF Holding
<1>3. b \in Holding(x) /\ b \in Nat /\ \A c \in Holding(x) : b <= c
  BY <1>2, MinOf
<1>4. b \in 1 .. Len(blocks) /\ i # -1
  BY <1>1, <1>3 DEF Holding
<1>5. i \in 0 .. blocks[b].length - 1 /\ Ring!At(blocks[b], i) = x
      /\ \A j \in 0 .. blocks[b].length - 1 : Ring!At(blocks[b], j) = x => i <= j
  BY <1>1, <1>4, FindIndexOfIs
<1> DEFINE s == Contents
           T == {k \in 0 .. length - 1 : s[k + 1] = x}
           B == Upto(blocks, b - 1)
           K == B + i
<1>6. s = ContentsIn(blocks) /\ s \in Seq(Values) /\ Lines(s, blocks, Len(blocks)) /\ Len(s) = length
      /\ length \in Nat
  <2>1. s = ContentsIn(blocks)
    BY DEF Contents, ContentsIn, LastBlock
  <2>2. s \in Seq(Values) /\ Lines(s, blocks, Len(blocks))
    BY <1>1, <2>1, ContentsIs
  <2> HIDE DEF s
  <2> QED  BY <1>1, <2>1, <2>2 DEF Lines
<1> HIDE DEF s
<1>7. K \in T
  <2>1. s[B + i + 1] = x
    BY <1>4, <1>5, <1>6 DEF Lines
  <2>2. b \in 0 .. Len(blocks) /\ Len(blocks) \in 0 .. Len(blocks) /\ b <= Len(blocks)
        /\ b - 1 \in 0 .. Len(blocks)
    BY <1>1, <1>4
  <2> DEFINE len == blocks[b].length
             total == length
  <2>3. Upto(blocks, b) <= total /\ Upto(blocks, b) = B + len /\ B \in Nat /\ len \in Nat
    BY <1>1, <1>4, <2>2, UptoIs, UptoGrows
  <2>4. B + len <= total /\ i \in 0 .. len - 1 /\ total \in Nat
    BY <1>5, <1>6, <2>3
  <2>5. K \in 0 .. total - 1
    <3> HIDE DEF B, len, total
    <3> QED  BY <2>3, <2>4
  <2> QED  BY <2>1, <2>5
<1>8. ASSUME NEW k \in T PROVE K <= k
  <2>1. k \in 0 .. Len(s) - 1 /\ s[k + 1] = x
    BY <1>6
  <2>2. PICK c, j : c \in 1 .. Len(blocks) /\ j \in 0 .. blocks[c].length - 1
                    /\ k = Upto(blocks, c - 1) + j /\ s[k + 1] = Ring!At(blocks[c], j)
    <3>1. \E c, j : Here(blocks, s, k, c, j)
      BY <1>1, <1>6, <2>1, InLine
    <3> QED  BY <3>1 DEF Here
  <2>3. Ring!At(blocks[c], j) = x
    BY <2>1, <2>2
  <2>4. c \in Holding(x)
    <3> DEFINE f == Ring!FindIndexOf(blocks[c], x)
    <3>1. f = -1 => \A g \in 0 .. blocks[c].length - 1 : Ring!At(blocks[c], g) # x
      <4>1. blocks[c] \in Rings /\ f = Ring!FindIndexOf(blocks[c], x)
        BY <1>1, <2>2
      <4> HIDE DEF f
      <4> QED  BY <4>1, FindIndexOfIs
    <3>2. f # -1
      BY <2>2, <2>3, <3>1
    <3> QED  BY <1>1, <2>2, <3>2 DEF Holding
  <2>5. b <= c /\ c \in Nat /\ c \in 1 .. Len(blocks)
    BY <1>1, <1>3, <2>2, <2>4
  <2>6. b - 1 \in 0 .. Len(blocks) /\ c - 1 \in 0 .. Len(blocks)
    BY <1>1, <1>4, <2>5
  <2>7. B \in Nat /\ i \in Nat /\ j \in Nat /\ Upto(blocks, c - 1) \in Nat
    <3>1. B \in Nat /\ Upto(blocks, c - 1) \in Nat
      BY <1>1, <2>6, UptoIs
    <3>2. blocks[b].length \in Nat /\ blocks[c].length \in Nat
      BY <1>1, <1>4, <2>5
    <3>3. j \in 0 .. blocks[c].length - 1
      BY <2>2
    <3> QED  BY <1>5, <3>1, <3>2, <3>3
  <2>8. CASE c = b
    <3>1. i <= j /\ k = B + j
      BY <1>5, <2>2, <2>3, <2>8
    <3> HIDE DEF B
    <3> QED  BY <2>7, <3>1
  <2>9. CASE b < c
    <3>1. K < k
      BY <1>1, <1>4, <1>5, <2>2, <2>5, <2>7, <2>9, Precedes
    <3>2. k \in Int /\ K \in Int
      BY <2>2, <2>7
    <3> HIDE DEF K
    <3> QED  BY <3>1, <3>2
  <2> QED  BY <1>3, <2>5, <2>8, <2>9
<1>9. FirstOf(x) = Min(T)
  BY DEF FirstOf, s
<1> DEFINE m == Min(T)
<1>10. m \in T /\ m \in Nat /\ \A k \in T : m <= k
  <2>1. T \in SUBSET Nat /\ T # {} /\ m = Min(T)
    BY <1>6, <1>7
  <2> HIDE DEF T, m
  <2> QED  BY <2>1, MinOf
<1>11. K \in Nat
  BY <1>6, <1>7
<1> HIDE DEF T, m, K
<1>12. m = K
  <2>1. m <= K /\ K <= m
    BY <1>7, <1>8, <1>10
  <2> QED  BY <1>10, <1>11, <2>1
<1> QED  BY <1>4, <1>5, <1>9, <1>12 DEF m, K

-------------------------------------------------------------------------------
(* The operations keep the invariant. *)

LEMMA FirstList == ListInit => ListInv
<1> SUFFICES ASSUME ListInit PROVE ListInv
  OBVIOUS
<1>1. blocks = <<>> /\ length = 0 /\ cursor = NONE /\ Len(blocks) = 0 /\ blocks \in Seq(Rings)
  BY DEF ListInit
<1>2. Upto(blocks, 0) = 0
  BY <1>1, UptoIs
<1>3. WellFilled(blocks)
  BY <1>1 DEF WellFilled
<1> QED  BY <1>1, <1>2, <1>3 DEF ListInv

\* What the invariant says of the sequence and the place of the iterator.
LEMMA ListIs ==
    ASSUME ListInv
    PROVE  /\ WellFilled(blocks) /\ blocks \in Seq(Rings) /\ LastBlock = Len(blocks)
           /\ Len(blocks) \in Nat /\ length \in Nat /\ length = Upto(blocks, Len(blocks))
           /\ Contents = ContentsIn(blocks) /\ Len(Contents) = length
<1>1. WellFilled(blocks) /\ blocks \in Seq(Rings) /\ LastBlock = Len(blocks) /\ Len(blocks) \in Nat
      /\ length = Upto(blocks, Len(blocks))
  BY FilledIs DEF ListInv, LastBlock
<1>2. length \in Nat
  <2>1. Len(blocks) \in 0 .. Len(blocks)
    BY <1>1
  <2> QED  BY <1>1, <2>1, UptoIs
<1>3. Contents = ContentsIn(blocks)
  BY DEF Contents, ContentsIn, LastBlock
<1>4. Lines(Contents, blocks, Len(blocks))
  BY <1>1, <1>3, ContentsIs
<1> QED  BY <1>1, <1>2, <1>3, <1>4 DEF Lines

LEMMA GrownInv ==
    ASSUME ListInv, NEW q, q = blocks', NEW x, NEW k, Grown(q, x, k), length' = length + 1,
           cursor' = cursor, Beyond(cursor, blocks) => cursor.i <= BlockSize
    PROVE  ListInv'
<1>1. /\ WellFilled(q) /\ Len(q) >= Len(blocks)
      /\ \A c \in 1 .. Len(blocks) : q[c].length >= blocks[c].length
      /\ Upto(q, Len(q)) = Upto(blocks, Len(blocks)) + 1
  BY DEF Grown
<1>2. length' = Upto(q, Len(q))
  BY <1>1 DEF ListInv
<1>3. ASSUME Stands(cursor, blocks) PROVE Stands(cursor, q)
  <2> DEFINE b == cursor.block
             len == blocks[b].length
             qlen == q[b].length
             n == Len(blocks)
             m == Len(q)
  <2>1. b \in 1 .. n /\ cursor.i \in 0 .. len - 1 /\ n \in Nat /\ m \in Nat /\ m >= n
    BY <1>1, <1>3, FilledIs, ListIs DEF Stands
  <2>2. b \in 1 .. m
    <3> HIDE DEF b, n, m
    <3> QED  BY <2>1
  <2>3. len \in Nat /\ qlen \in Nat /\ qlen >= len
    BY <1>1, <2>1, <2>2, FilledIs, ListIs
  <2>4. cursor.i \in 0 .. qlen - 1
    <3> HIDE DEF len, qlen
    <3> QED  BY <2>1, <2>3
  <2> QED  BY <1>3, <2>2, <2>4 DEF Stands
<1>4. ASSUME Beyond(cursor, blocks) PROVE Stands(cursor, q) \/ Beyond(cursor, q)
  <2> DEFINE b == cursor.block
             i == cursor.i
             len == blocks[b].length
             qlen == q[b].length
             n == Len(blocks)
             m == Len(q)
  <2>1. /\ b \in 1 .. n - 1 /\ i \in len .. BlockSize + 1 /\ n \in Nat /\ m \in Nat /\ m >= n
        /\ BlockSize \in Nat
    BY <1>1, <1>4, FilledIs, ListIs DEF Beyond
  <2>2. b \in 1 .. n /\ b \in 1 .. m /\ b \in 1 .. m - 1
    <3> HIDE DEF b, n, m
    <3> QED  BY <2>1
  <2>3. len \in Nat /\ qlen \in Nat /\ qlen >= len
    BY <1>1, <2>2, FilledIs, ListIs
  <2>4. i \in 0 .. qlen - 1 \/ (i \in qlen .. BlockSize + 1 /\ qlen <= BlockSize)
    <3>1. i <= BlockSize
      BY <1>4
    <3> HIDE DEF len, qlen, i
    <3> QED  BY <2>1, <2>3, <3>1
  <2>5. CASE i \in 0 .. qlen - 1
    BY <1>4, <2>2, <2>5 DEF Beyond, Stands
  <2>6. CASE i \in qlen .. BlockSize + 1 /\ qlen <= BlockSize
    BY <1>4, <2>2, <2>6 DEF Beyond
  <2> QED  BY <2>4, <2>5, <2>6
<1>5. cursor' = NONE \/ Stands(cursor', q) \/ Beyond(cursor', q)
  BY <1>3, <1>4 DEF ListInv
<1> QED  BY <1>1, <1>2, <1>5 DEF ListInv

LEMMA ShrunkInv ==
    ASSUME ListInv, NEW q, q = blocks', NEW k, Shrunk(q, k), length' = length - 1,
           cursor' = NONE \/ Stands(cursor', q) \/ Beyond(cursor', q)
    PROVE  ListInv'
<1>1. WellFilled(q) /\ Upto(q, Len(q)) = Upto(blocks, Len(blocks)) - 1
  BY DEF Shrunk
<1>2. length' = Upto(q, Len(q))
  BY <1>1 DEF ListInv
<1> QED  BY <1>1, <1>2 DEF ListInv

\* The place of an index, for the operations that are given one.
LEMMA LocationStands ==
    ASSUME ListInv, NEW i \in 0 .. length - 1, NEW p, p = Location(i)
    PROVE  /\ p.block \in 1 .. Len(blocks) /\ p.i \in 0 .. blocks[p.block].length - 1
           /\ Upto(blocks, p.block - 1) + p.i = i
BY ListIs, LocationIs DEF Stands

\* In the front half of a block, the new item goes behind the one it should precede.
LEMMA EntryIs ==
    ASSUME ListInv, NEW b \in 1 .. Len(blocks), NEW i
    PROVE  Entry(Room(b), i) = IF IntoFront(b, i) THEN i + 1 ELSE i
<1> DEFINE len == blocks[b].length
           S == {len, BlockSize}
           m == Min(S)
           rlen == Room(b).length
<1>1. blocks[b] \in Rings /\ len \in 1 .. BlockSize + 1 /\ len \in Nat /\ BlockSize \in Nat
  BY ListIs, FilledIs
<1>2. m \in S /\ m \in Nat /\ \A k \in S : m <= k
  <2>1. S \in SUBSET Nat /\ S # {} /\ m = Min(S)
    BY <1>1
  <2> HIDE DEF S, m
  <2> QED  BY <2>1, MinOf
<1> HIDE DEF m
<1>3. rlen = m
  <2>1. CASE len = BlockSize + 1
    <3>1. Ring!RemoveBack(blocks[b]).length = len - 1
      BY <1>1, RemoveBackIs
    <3>2. rlen = BlockSize
      BY <1>1, <2>1, <3>1 DEF Room
    <3> HIDE DEF len, rlen
    <3> QED  BY <1>1, <1>2, <2>1, <3>2
  <2>2. CASE len # BlockSize + 1
    <3>1. rlen = len
      BY <2>2 DEF Room
    <3> HIDE DEF len, rlen
    <3> QED  BY <1>1, <1>2, <2>2, <3>1
  <2> QED  BY <2>1, <2>2
<1>4. IntoFront(b, i) <=> i < m \div 2
  BY DEF IntoFront, m
<1>5. Ring!InFrontHalf(Room(b), i) <=> IntoFront(b, i)
  BY <1>3, <1>4 DEF Ring!InFrontHalf
<1> QED  BY <1>5 DEF Entry

\* Where insert(i, object) puts the item.
GoesTo(i) == i + TooFar(Location(i))

LEMMA InsertMakes ==
    ASSUME ListInv, NEW i \in 0 .. length - 1, NEW x \in Items, Insert(i, x), NEW q, q = blocks'
    PROVE  Grown(q, x, GoesTo(i))
<1> DEFINE p == Location(i)
           b == p.block
           j == p.i
           k == Upto(blocks, b - 1) + Entry(Room(b), j)
<1>1. b \in 1 .. Len(blocks) /\ j \in 0 .. blocks[b].length - 1 /\ Upto(blocks, b - 1) + j = i
  <2>1. p = Location(i)
    OBVIOUS
  <2> HIDE DEF p
  <2> QED  BY <2>1, LocationStands
<1>2. ~Spreads(b) /\ q = InsertedAt(b, j, x)
  BY DEF Insert
<1>3. GoesTo(i) = IF IntoFront(b, j) THEN i + 1 ELSE i
  <2>1. GoesTo(i) = i + (IF IntoFront(b, j) THEN 1 ELSE 0)
    BY DEF GoesTo, TooFar
  <2>2. i + (IF IntoFront(b, j) THEN 1 ELSE 0) = IF IntoFront(b, j) THEN i + 1 ELSE i
    <3>1. length \in Nat
      BY ListIs
    <3> HIDE DEF b, j
    <3> QED  BY <3>1
  <2> QED  BY <2>1, <2>2
<1> HIDE DEF b, j
<1>4. Grown(q, x, k)
  <2>1. Grown(q, x, Upto(blocks, b - 1) + Entry(Room(b), j))
    <3>1. j \in 0 .. blocks[b].length /\ j <= BlockSize
      BY <1>1, ListIs, FilledIs
    <3> QED  BY <1>1, <1>2, <3>1, ListIs, InsertsAt
  <2> QED  BY <2>1
<1>5. k = GoesTo(i)
  <2> DEFINE B == Upto(blocks, b - 1)
             len == blocks[b].length
  <2>1. Entry(Room(b), j) = IF IntoFront(b, j) THEN j + 1 ELSE j
    BY <1>1, EntryIs
  <2>2. B \in Nat /\ len \in Nat
    <3>1. b - 1 \in 0 .. Len(blocks) /\ Len(blocks) \in Nat
      BY <1>1, ListIs
    <3> QED  BY <1>1, <3>1, ListIs, UptoIs, FilledIs
  <2>3. j \in Nat /\ B + j = i /\ k = B + (IF IntoFront(b, j) THEN j + 1 ELSE j)
    BY <1>1, <2>1, <2>2
  <2> HIDE DEF B, len, k
  <2>4. k = IF IntoFront(b, j) THEN i + 1 ELSE i
    BY <2>2, <2>3
  <2> QED  BY <1>3, <2>4
<1> QED  BY <1>4, <1>5

LEMMA InsertItemMakes ==
    ASSUME ListInv, NEW x \in Items, InsertItem(x), NEW q, q = blocks'
    PROVE  /\ cursor.block \in 1 .. Len(blocks) /\ cursor.i <= BlockSize
           /\ FrontKept(q, cursor.block)
           /\ Grown(q, x, Upto(blocks, cursor.block - 1) + cursor.i + TooFar(cursor))
<1> DEFINE b == cursor.block
           j == cursor.i
           k == Upto(blocks, b - 1) + Entry(Room(b), j)
           len == blocks[b].length
           n == Len(blocks)
<1>1. b \in 1 .. n /\ j \in 0 .. len /\ j \in Nat /\ j <= BlockSize
  <2>0. Stands(cursor, blocks) \/ Beyond(cursor, blocks)
    BY DEF ListInv, InsertItem
  <2>1. ~(j > len)
    BY DEF InsertItem, FurtherBehind
  <2>2. n \in Nat /\ BlockSize \in Nat
    BY ListIs, FilledIs
  <2>3. b \in 1 .. n
    <3>1. b \in 1 .. n \/ b \in 1 .. n - 1
      BY <2>0 DEF Stands, Beyond
    <3> HIDE DEF b, n
    <3> QED  BY <2>2, <3>1
  <2>4. len \in 1 .. BlockSize + 1 /\ len \in Nat
    BY <2>3, ListIs, FilledIs
  <2>5. j \in 0 .. len - 1 \/ (j \in len .. BlockSize + 1 /\ len <= BlockSize)
    BY <2>0 DEF Stands, Beyond
  <2> HIDE DEF b, j, len, n
  <2> QED  BY <2>1, <2>2, <2>3, <2>4, <2>5
<1>2. ~Spreads(b) /\ q = InsertedAt(b, j, x)
  BY DEF InsertItem
<1>3. TooFar(cursor) = IF IntoFront(b, j) THEN 1 ELSE 0
  BY DEF TooFar
<1> HIDE DEF b, j
<1>4. Grown(q, x, k) /\ FrontKept(q, b)
  <2>1. Grown(q, x, Upto(blocks, b - 1) + Entry(Room(b), j)) /\ FrontKept(q, b)
    BY <1>1, <1>2, ListIs, InsertsAt
  <2> QED  BY <2>1
<1>5. k = Upto(blocks, b - 1) + j + TooFar(cursor)
  <2> DEFINE B == Upto(blocks, b - 1)
             far == TooFar(cursor)
  <2>1. Entry(Room(b), j) = IF IntoFront(b, j) THEN j + 1 ELSE j
    BY <1>1, EntryIs
  <2>2. B \in Nat
    <3>1. b - 1 \in 0 .. n
      <4>1. n \in Nat
        BY ListIs
      <4> HIDE DEF n
      <4> QED  BY <1>1, <4>1
    <3> QED  BY <3>1, ListIs, UptoIs
  <2> HIDE DEF B
  <2>3. k = B + (IF IntoFront(b, j) THEN j + 1 ELSE j)
    BY <2>1 DEF B
  <2> HIDE DEF far, k
  <2> QED  BY <1>1, <1>3, <2>2, <2>3 DEF far, B
<1> QED  BY <1>1, <1>4, <1>5 DEF b, j

LEMMA RemoveIndexMakes ==
    ASSUME ListInv, NEW i \in 0 .. length - 1, RemoveIndex(i), NEW q, q = blocks'
    PROVE  Shrunk(q, i)
<1> DEFINE p == Location(i)
           b == p.block
           j == p.i
<1>1. b \in 1 .. Len(blocks) /\ j \in 0 .. blocks[b].length - 1 /\ Upto(blocks, b - 1) + j = i
  <2>1. p = Location(i)
    OBVIOUS
  <2> HIDE DEF p
  <2> QED  BY <2>1, LocationStands
<1>2. q = RemovedAt(b, j)
  BY DEF RemoveIndex
<1> HIDE DEF b, j
<1>3. Shrunk(q, Upto(blocks, b - 1) + j)
  BY <1>1, <1>2, ListIs, RemovesAt
<1> QED  BY <1>1, <1>3

LEMMA RemoveObjectMakes ==
    ASSUME ListInv, NEW x, RemoveObject(x), NEW q, q = blocks'
    PROVE  Shrunk(q, FirstOf(x))
<1> DEFINE b == Min(Holding(x))
           j == Ring!FindIndexOf(blocks[b], x)
<1>1. Holding(x) # {} /\ q = RemovedAt(b, j)
  BY DEF RemoveObject
<1>2. b = Min(Holding(x)) /\ j = Ring!FindIndexOf(blocks[b], x)
  OBVIOUS
<1> HIDE DEF b, j
<1>3. /\ b \in 1 .. Len(blocks) /\ j \in 0 .. blocks[b].length - 1
      /\ FirstOf(x) = Upto(blocks, b - 1) + j
  BY <1>1, <1>2, HoldingIs
<1>4. Shrunk(q, Upto(blocks, b - 1) + j)
  BY <1>1, <1>3, ListIs, RemovesAt
<1> QED  BY <1>3, <1>4

LEMMA RemoveItemMakes ==
    ASSUME ListInv, RemoveItem, NEW q, q = blocks'
    PROVE  /\ Stands(cursor, blocks) /\ FrontKept(q, cursor.block)
           /\ Shrunk(q, Upto(blocks, cursor.block - 1) + cursor.i)
           /\ ~AtEnd => Stands(cursor, q) \/ (FallsOff /\ Beyond(cursor, q))
<1> DEFINE b == cursor.block
           j == cursor.i
<1>0. Stands(cursor, blocks)
  <2>1. cursor # NONE /\ ~(j >= blocks[b].length)
    BY DEF RemoveItem, Behind
  <2>2. ASSUME Beyond(cursor, blocks) PROVE FALSE
    <3> DEFINE len == blocks[b].length
               n == Len(blocks)
    <3>1. j \in len .. BlockSize + 1 /\ b \in 1 .. n - 1 /\ n \in Nat /\ BlockSize \in Nat
      BY <2>2, ListIs, FilledIs DEF Beyond
    <3>2. b \in 1 .. n
      <4> HIDE DEF b, n
      <4> QED  BY <3>1
    <3>3. len \in Nat
      BY <3>2, ListIs, FilledIs
    <3>4. ~(j >= len)
      BY <2>1
    <3> HIDE DEF j, len
    <3> QED  BY <3>1, <3>3, <3>4
  <2> QED  BY <2>1, <2>2 DEF ListInv
<1>1. b \in 1 .. Len(blocks) /\ j \in 0 .. blocks[b].length - 1
  BY <1>0 DEF Stands
<1>2. q = RemovedAt(b, j)
  BY DEF RemoveItem
<1>3. /\ AtEnd <=> b = Len(blocks) /\ j = blocks[b].length - 1
      /\ FallsOff <=> b < Len(blocks) /\ j = blocks[b].length - 1 /\ ~TooFew(blocks[b].length - 1)
  BY ListIs DEF AtEnd, FallsOff
<1> HIDE DEF b, j
<1>4. /\ Shrunk(q, Upto(blocks, b - 1) + j) /\ FrontKept(q, b)
      /\ \/ b = Len(blocks) /\ j = blocks[b].length - 1
         \/ b \in 1 .. Len(q) /\ j \in 0 .. q[b].length - 1
         \/ /\ b < Len(blocks) /\ j = blocks[b].length - 1 /\ ~TooFew(blocks[b].length - 1)
            /\ b \in 1 .. Len(q) - 1 /\ j = q[b].length /\ j <= BlockSize
  BY <1>1, <1>2, ListIs, RemovesAt
<1>5. CASE b \in 1 .. Len(q) /\ j \in 0 .. q[b].length - 1
  BY <1>0, <1>4, <1>5 DEF Stands, b, j
<1>6. CASE /\ b < Len(blocks) /\ j = blocks[b].length - 1 /\ ~TooFew(blocks[b].length - 1)
           /\ b \in 1 .. Len(q) - 1 /\ j = q[b].length /\ j <= BlockSize
  <2>1. j \in q[b].length .. BlockSize + 1 /\ q[b].length <= BlockSize
    <3>1. j \in Int /\ BlockSize \in Int
      <4>1. blocks[b].length \in Nat /\ BlockSize \in Nat
        BY <1>1, ListIs, FilledIs
      <4> QED  BY <1>6, <4>1
    <3> QED  BY <1>6, <3>1
  <2>2. Beyond(cursor, q)
    BY <1>0, <1>6, <2>1 DEF Beyond, Stands, b, j
  <2> QED  BY <1>0, <1>3, <1>4, <1>6, <2>2 DEF b, j
<1>7. CASE b = Len(blocks) /\ j = blocks[b].length - 1
  BY <1>0, <1>3, <1>4, <1>7 DEF b, j
<1> QED  BY <1>4, <1>5, <1>6, <1>7

LEMMA ReplaceMakes ==
    ASSUME ListInv, NEW i \in 0 .. length - 1, NEW x \in Items, Replace(i, x), NEW q, q = blocks'
    PROVE  Changed(q, x, i)
<1> DEFINE p == Location(i)
           b == p.block
           j == p.i
<1>1. b \in 1 .. Len(blocks) /\ j \in 0 .. blocks[b].length - 1 /\ Upto(blocks, b - 1) + j = i
  <2>1. p = Location(i)
    OBVIOUS
  <2> HIDE DEF p
  <2> QED  BY <2>1, LocationStands
<1>2. q = [blocks EXCEPT ![b] = Ring!SetAt(@, j, x)]
  BY DEF Replace
<1> HIDE DEF b, j
<1>3. Changed(q, x, Upto(blocks, b - 1) + j)
  BY <1>1, <1>2, ListIs, Changes
<1> QED  BY <1>1, <1>3

\* Where the iterator stands, it goes on to the next item or the one before, if there is
\* one.
LEMMA NextPlace ==
    ASSUME ListInv, Stands(cursor, blocks), IncrementIndex
    PROVE  /\ cursor' = NONE \/ Stands(cursor', blocks)
           /\ blocks' = blocks /\ length' = length
<1>0. PICK b, j, n : b = cursor.block /\ j = cursor.i /\ n = Len(blocks)
  OBVIOUS
<1> DEFINE len == blocks[b].length
<1>1. /\ b \in 1 .. n /\ j \in 0 .. len - 1 /\ n \in Nat /\ LastBlock = n
      /\ \A c \in 1 .. n : blocks[c].length \in Nat /\ blocks[c].length >= 1
  <2>1. /\ n \in Nat /\ LastBlock = n
        /\ \A c \in 1 .. n : blocks[c].length \in 1 .. BlockSize + 1 /\ blocks[c].length \in Nat
    BY <1>0, ListIs, FilledIs
  <2> QED  BY <1>0, <2>1 DEF Stands
<1>2. blocks' = blocks /\ length' = length
      /\ cursor' = IF j + 1 < len THEN Place(b, j + 1) ELSE IF b = LastBlock THEN NONE ELSE Place(b + 1, 0)
  <2>1. blocks' = blocks /\ length' = length
        /\ cursor' = IF j + 1 # len THEN Place(b, j + 1) ELSE IF b = LastBlock THEN NONE ELSE Place(b + 1, 0)
    BY <1>0 DEF IncrementIndex, Moved
  <2>2. j + 1 # len <=> j + 1 < len
    <3>1. len \in Nat
      BY <1>1
    <3> HIDE DEF len
    <3> QED  BY <1>1, <3>1
  <2> HIDE DEF len
  <2> QED  BY <2>1, <2>2
<1>3. CASE j + 1 < len
  <2>1. j + 1 \in 0 .. len - 1
    <3>1. len \in Nat
      BY <1>1
    <3> HIDE DEF len
    <3> QED  BY <1>1, <1>3, <3>1
  <2> QED  BY <1>0, <1>1, <1>2, <1>3, <2>1 DEF Stands, Place
<1>4. CASE ~(j + 1 < len) /\ b # LastBlock
  <2>1. b + 1 \in 1 .. n
    BY <1>1, <1>4
  <2>2. 0 \in 0 .. blocks[b + 1].length - 1
    BY <1>1, <2>1
  <2> QED  BY <1>0, <1>2, <1>4, <2>1, <2>2 DEF Stands, Place
<1>5. CASE ~(j + 1 < len) /\ b = LastBlock
  BY <1>2, <1>5
<1> QED  BY <1>2, <1>3, <1>4, <1>5

LEMMA PreviousPlace ==
    ASSUME ListInv, Stands(cursor, blocks), DecrementIndex
    PROVE  /\ cursor' = NONE \/ Stands(cursor', blocks)
           /\ blocks' = blocks /\ length' = length
<1>0. PICK b, j, n : b = cursor.block /\ j = cursor.i /\ n = Len(blocks)
  OBVIOUS
<1> DEFINE len == blocks[b].length
<1>1. /\ b \in 1 .. n /\ j \in 0 .. len - 1 /\ n \in Nat
      /\ \A c \in 1 .. n : blocks[c].length \in Nat /\ blocks[c].length >= 1
  <2>1. /\ n \in Nat
        /\ \A c \in 1 .. n : blocks[c].length \in 1 .. BlockSize + 1 /\ blocks[c].length \in Nat
    BY <1>0, ListIs, FilledIs
  <2> QED  BY <1>0, <2>1 DEF Stands
<1>2. blocks' = blocks /\ length' = length
      /\ cursor' = IF j > 0 THEN Place(b, j - 1) ELSE IF b = 1 THEN NONE
                   ELSE Place(b - 1, blocks[b - 1].length - 1)
  BY <1>0 DEF DecrementIndex, Moved
<1>3. CASE j > 0
  <2>1. j - 1 \in 0 .. len - 1
    <3>1. len \in Nat
      BY <1>1
    <3> HIDE DEF len
    <3> QED  BY <1>1, <1>3, <3>1
  <2> QED  BY <1>0, <1>1, <1>2, <1>3, <2>1 DEF Stands, Place
<1>4. CASE ~(j > 0) /\ b # 1
  <2>1. b - 1 \in 1 .. n
    BY <1>1, <1>4
  <2> DEFINE before == blocks[b - 1].length
  <2>2. before - 1 \in 0 .. before - 1
    <3>1. before \in Nat /\ before >= 1
      BY <1>1, <2>1
    <3> HIDE DEF before
    <3> QED  BY <3>1
  <2> QED  BY <1>0, <1>2, <1>4, <2>1, <2>2 DEF Stands, Place
<1>5. CASE ~(j > 0) /\ b = 1
  BY <1>2, <1>5
<1> QED  BY <1>2, <1>3, <1>4, <1>5

\* Behind its block, it stays behind it or goes back to the last of its items.
LEMMA BeyondPlaces ==
    ASSUME ListInv, Beyond(cursor, blocks), IncrementIndex \/ DecrementIndex
    PROVE  /\ Stands(cursor', blocks) \/ Beyond(cursor', blocks)
           /\ blocks' = blocks /\ length' = length
<1>0. PICK b, j, n : b = cursor.block /\ j = cursor.i /\ n = Len(blocks)
  OBVIOUS
<1> DEFINE len == blocks[b].length
<1>1. /\ b \in 1 .. n - 1 /\ b \in 1 .. n /\ n \in Nat /\ len \in Nat /\ len >= 1 /\ len <= BlockSize
      /\ j \in len .. BlockSize + 1 /\ j \in Nat /\ j > 0 /\ BlockSize \in Nat
  <2>1. b \in 1 .. n - 1 /\ j \in len .. BlockSize + 1 /\ n \in Nat /\ BlockSize \in Nat /\ len <= BlockSize
    BY <1>0, ListIs, FilledIs DEF Beyond
  <2>2. b \in 1 .. n
    BY <2>1
  <2>3. len \in 1 .. BlockSize + 1 /\ len \in Nat
    BY <1>0, <2>2, ListIs, FilledIs
  <2> HIDE DEF len
  <2> QED  BY <2>1, <2>2, <2>3
<1>2. CASE IncrementIndex
  <2>1. j + 1 # len
    <3> HIDE DEF len
    <3> QED  BY <1>1
  <2>2. cursor' = Place(b, j + 1) /\ blocks' = blocks /\ length' = length /\ j <= BlockSize
    BY <1>0, <1>2, <2>1 DEF IncrementIndex, Moved
  <2>3. j + 1 \in len .. BlockSize + 1
    <3> HIDE DEF len
    <3> QED  BY <1>1, <2>2
  <2> QED  BY <1>0, <1>1, <2>2, <2>3 DEF Beyond, Place
<1>3. CASE DecrementIndex
  <2>1. cursor' = Place(b, j - 1) /\ blocks' = blocks /\ length' = length
    BY <1>0, <1>1, <1>3 DEF DecrementIndex, Moved
  <2>2. j - 1 \in 0 .. len - 1 \/ j - 1 \in len .. BlockSize + 1
    <3> HIDE DEF len
    <3> QED  BY <1>1
  <2> QED  BY <1>0, <1>1, <2>1, <2>2 DEF Beyond, Stands, Place
<1> QED  BY <1>2, <1>3

LEMMA EndsOfList ==
    ASSUME ListInv, blocks # <<>>
    PROVE  Stands(Place(1, 0), blocks) /\ Stands(Place(LastBlock, blocks[LastBlock].length - 1), blocks)
<1>0. PICK n : n = Len(blocks)
  OBVIOUS
<1>1. /\ n \in Nat /\ LastBlock = n
      /\ \A c \in 1 .. n : blocks[c].length \in Nat /\ blocks[c].length >= 1
  <2>1. \A c \in 1 .. n : blocks[c].length \in 1 .. BlockSize + 1 /\ blocks[c].length \in Nat
    BY <1>0, ListIs, FilledIs
  <2> QED  BY <1>0, <2>1, ListIs
<1>2. n # 0
  BY <1>0, ListIs
<1>3. 1 \in 1 .. n /\ n \in 1 .. n
  BY <1>1, <1>2
<1> DEFINE last == blocks[n].length
<1>4. 0 \in 0 .. blocks[1].length - 1 /\ last - 1 \in 0 .. last - 1
  <2>1. last \in Nat /\ last >= 1
    BY <1>1, <1>3
  <2>2. last - 1 \in 0 .. last - 1
    <3> HIDE DEF last
    <3> QED  BY <2>1
  <2> QED  BY <1>1, <1>3, <2>2
<1> QED  BY <1>0, <1>1, <1>3, <1>4 DEF Stands, Place

LEMMA ClearInv == ListInv /\ Clear /\ cursor = NONE => ListInv'
<1> SUFFICES ASSUME ListInv, Clear, cursor = NONE PROVE ListInv'
  OBVIOUS
<1>0. PICK q : q = blocks'
  OBVIOUS
<1>1. q = <<>> /\ Len(q) = 0 /\ q \in Seq(Rings) /\ length' = 0 /\ cursor' = NONE
  BY <1>0 DEF Clear
<1>2. Upto(q, 0) = 0
  BY <1>1, UptoIs
<1>3. WellFilled(q)
  BY <1>1 DEF WellFilled
<1> QED  BY <1>0, <1>1, <1>2, <1>3 DEF ListInv

LEMMA NoPlace ==
    ASSUME ListInv, cursor = NONE
    PROVE  ~Beyond(cursor, blocks)
<1> SUFFICES ASSUME Beyond(cursor, blocks) PROVE FALSE
  OBVIOUS
<1> DEFINE b == cursor.block
           i == cursor.i
           n == Len(blocks)
           len == blocks[b].length
<1>1. n \in Nat /\ b \in 1 .. n - 1 /\ i \in len .. BlockSize + 1 /\ BlockSize \in Nat
  BY ListIs, FilledIs DEF Beyond
<1>2. b \in 1 .. n /\ b \in Nat
  <2> HIDE DEF b, n
  <2> QED  BY <1>1
<1>3. len \in Nat
  BY <1>2, ListIs, FilledIs
<1>4. i \in Nat
  <2> HIDE DEF i, len
  <2> QED  BY <1>1, <1>3
<1>5. cursor = Place(b, i)
  BY DEF Beyond
<1> HIDE DEF b, i
<1> QED  BY <1>2, <1>4, <1>5, ListAssumption DEF Place

LEMMA ListNextKeepsInv == ListInv /\ [ListNext]_listVars => ListInv'
<1> SUFFICES ASSUME ListInv, [ListNext]_listVars PROVE ListInv'
  OBVIOUS
<1>0. PICK q : q = blocks'
  OBVIOUS
<1>1. ASSUME cursor = NONE, NEW i \in 0 .. length - 1, RemoveIndex(i) PROVE ListInv'
  <2>1. Shrunk(q, i)
    BY <1>0, <1>1, RemoveIndexMakes
  <2>2. length' = length - 1 /\ cursor' = cursor
    BY <1>1 DEF RemoveIndex
  <2>3. cursor' = NONE \/ Stands(cursor', q)
    BY <1>1, <2>2
  <2> QED  BY <1>0, <2>1, <2>2, <2>3, ShrunkInv
<1>2. ASSUME cursor = NONE, NEW i \in 0 .. length - 1, NEW x \in Items, Replace(i, x) PROVE ListInv'
  <2>1. Changed(q, x, i)
    BY <1>0, <1>2, ReplaceMakes
  <2>2. length' = length /\ cursor' = NONE
    BY <1>2 DEF Replace
  <2>3. WellFilled(q) /\ length' = Upto(q, Len(q))
    BY <2>1, <2>2 DEF Changed, ListInv
  <2> QED  BY <1>0, <2>2, <2>3 DEF ListInv
<1>3. ASSUME cursor = NONE, NEW x, RemoveObject(x) PROVE ListInv'
  <2>1. Shrunk(q, FirstOf(x))
    BY <1>0, <1>3, RemoveObjectMakes
  <2>2. length' = length - 1 /\ cursor' = cursor
    BY <1>3 DEF RemoveObject
  <2>3. cursor' = NONE \/ Stands(cursor', q)
    BY <1>3, <2>2
  <2> QED  BY <1>0, <2>1, <2>2, <2>3, ShrunkInv
<1>4. ASSUME cursor = NONE, Clear PROVE ListInv'
  BY <1>4, ClearInv
<1>5. ASSUME cursor = NONE, NEW x \in Items, AppendItem(x) PROVE ListInv'
  <2>1. Grown(q, x, Upto(blocks, Len(blocks)))
    BY <1>0, <1>5, ListIs, AppendsAt DEF AppendItem
  <2>2. length' = length + 1 /\ cursor' = cursor
    BY <1>5 DEF AppendItem
  <2>3. ~Beyond(cursor, blocks)
    BY <1>5, NoPlace
  <2> QED  BY <1>0, <2>1, <2>2, <2>3, GrownInv
<1>6. ASSUME cursor = NONE, NEW i \in 0 .. length - 1, NEW x \in Items, Insert(i, x) PROVE ListInv'
  <2>1. Grown(q, x, GoesTo(i))
    BY <1>0, <1>6, InsertMakes
  <2>2. length' = length + 1 /\ cursor' = cursor
    BY <1>6 DEF Insert
  <2>3. ~Beyond(cursor, blocks)
    BY <1>6, NoPlace
  <2> QED  BY <1>0, <2>1, <2>2, <2>3, GrownInv
<1>7. ASSUME NEW x \in Items, InsertItem(x) PROVE ListInv'
  <2>1. PICK k : Grown(q, x, k) /\ cursor.i <= BlockSize
    BY <1>0, <1>7, InsertItemMakes
  <2>2. length' = length + 1 /\ cursor' = cursor
    BY <1>7 DEF InsertItem
  <2> QED  BY <1>0, <2>1, <2>2, GrownInv
<1>8. ASSUME IteratorStart \/ IteratorEnd PROVE ListInv'
  <2>1. Stands(cursor', blocks) /\ blocks' = blocks /\ length' = length
    BY <1>8, EndsOfList DEF IteratorStart, IteratorEnd, Moved
  <2> QED  BY <2>1 DEF ListInv
<1>9. ASSUME cursor # NONE, IncrementIndex \/ DecrementIndex PROVE ListInv'
  <2>1. Stands(cursor, blocks) \/ Beyond(cursor, blocks)
    BY <1>9 DEF ListInv
  <2>2. /\ cursor' = NONE \/ Stands(cursor', blocks) \/ Beyond(cursor', blocks)
        /\ blocks' = blocks /\ length' = length
    BY <1>9, <2>1, NextPlace, PreviousPlace, BeyondPlaces
  <2> QED  BY <2>2 DEF ListInv
<1>10. ASSUME RemoveItem PROVE ListInv'
  <2>1. /\ Shrunk(q, Upto(blocks, cursor.block - 1) + cursor.i)
        /\ ~AtEnd => Stands(cursor, q) \/ Beyond(cursor, q)
    BY <1>0, <1>10, RemoveItemMakes
  <2>2. length' = length - 1 /\ cursor' = IF AtEnd THEN NONE ELSE cursor
    BY <1>10 DEF RemoveItem
  <2>3. cursor' = NONE \/ Stands(cursor', q) \/ Beyond(cursor', q)
    BY <2>1, <2>2
  <2> QED  BY <1>0, <2>1, <2>2, <2>3, ShrunkInv
<1>11. CASE UNCHANGED listVars
  BY <1>11 DEF listVars, ListInv
<1> QED  BY <1>1, <1>2, <1>3, <1>4, <1>5, <1>6, <1>7, <1>8, <1>9, <1>10, <1>11 DEF ListNext

\* The blocks stay filled, the length right, and the iterator on an item, or behind the
\* items of a block.
THEOREM ListInvariance == ListSpec => []ListInv
BY FirstList, ListNextKeepsInv, PTL DEF ListSpec

\* No operation of list.h leaves a block out of its bounds, an item that can no longer be
\* counted from either end, or a cleared slot among the items.
THEOREM ItemsAreFound == ListSpec => []EveryItemIsFound
BY ListInvariance, FoundFromInv, PTL

-------------------------------------------------------------------------------
(* The sequence the callers see. *)

LEMMA SequenceAfter ==
    ASSUME NEW q, q = blocks'
    PROVE  /\ Contents' = ContentsIn(q)
           /\ Position' = IF cursor' = NONE THEN NONE
                          ELSE Upto(q, cursor'.block - 1) + cursor'.i
<1>1. Contents' = ContentsIn(q)
  BY DEF Contents, ContentsIn, LastBlock
<1>2. Position' = IF cursor' = NONE THEN NONE ELSE Upto(q, cursor'.block - 1) + cursor'.i
  BY DEF Position, Count, LastBlock, Upto, CountIn
<1> QED  BY <1>1, <1>2

LEMMA PositionIs ==
    ASSUME ListInv, cursor # NONE
    PROVE  /\ ~Behind => /\ Stands(cursor, blocks) /\ cursor.block \in 1 .. Len(blocks)
                         /\ cursor.i \in 0 .. blocks[cursor.block].length - 1
           /\ Position = Upto(blocks, cursor.block - 1) + cursor.i
<1>1. ASSUME ~Behind PROVE Stands(cursor, blocks)
  <2> DEFINE b == cursor.block
             i == cursor.i
             n == Len(blocks)
             len == blocks[b].length
  <2>1. ASSUME Beyond(cursor, blocks) PROVE FALSE
    <3>1. n \in Nat /\ b \in 1 .. n - 1 /\ i \in len .. BlockSize + 1 /\ BlockSize \in Nat
      BY <2>1, ListIs, FilledIs DEF Beyond
    <3>2. b \in 1 .. n
      <4> HIDE DEF b, n
      <4> QED  BY <3>1
    <3>3. len \in Nat
      BY <3>2, ListIs, FilledIs
    <3>4. ~(i >= len)
      BY <1>1 DEF Behind
    <3> HIDE DEF i, len
    <3> QED  BY <3>1, <3>3, <3>4
  <2> QED  BY <2>1 DEF ListInv
<1>2. Position = Upto(blocks, cursor.block - 1) + cursor.i
  BY DEF Position, Count, LastBlock, Upto, CountIn
<1> QED  BY <1>1, <1>2 DEF Stands

\* A place is not the end of the loop.
LEMMA PlacesAreSome == ASSUME NEW b \in Nat, NEW i \in Nat PROVE Place(b, i) # NONE
BY ListAssumption DEF Place

\* The abstract list's operators on sequences are those of the library.
LEMMA SameRemoval == ASSUME NEW s, NEW k PROVE Promised!RemoveAt(s, k) = RemoveAt(s, k)
BY DEF Promised!RemoveAt, RemoveAt

LEMMA SameInsertion == ASSUME NEW s, NEW k, NEW x PROVE Promised!InsertAt(s, k, x) = InsertAt(s, k, x)
BY DEF Promised!InsertAt, InsertAt

LEMMA PromiseByIndex ==
    ASSUME ListInv, cursor = NONE, NEW i \in 0 .. length - 1 PROVE ByIndex(i)
<1>0. PICK q : q = blocks'
  OBVIOUS
<1>1. Contents = ContentsIn(blocks) /\ Contents' = ContentsIn(q) /\ (cursor' = cursor => Position' = Position)
  BY <1>0, ListIs, SequenceAfter DEF Position
<1>2. ASSUME RemoveIndex(i) PROVE Promised!RemoveIndex(i)
  <2>1. ContentsIn(q) = RemoveAt(ContentsIn(blocks), i + 1)
    BY <1>0, <1>2, RemoveIndexMakes DEF Shrunk
  <2>2. cursor' = cursor
    BY <1>2 DEF RemoveIndex
  <2> QED  BY <1>1, <2>1, <2>2, SameRemoval DEF Promised!RemoveIndex
<1>3. ASSUME NEW x \in Items, Insert(i, x) PROVE Promised!Insert(i + TooFar(Location(i)), x)
  <2>1. ContentsIn(q) = InsertAt(ContentsIn(blocks), i + TooFar(Location(i)) + 1, x)
    <3>1. Grown(q, x, GoesTo(i))
      BY <1>0, <1>3, InsertMakes
    <3> QED  BY <3>1 DEF Grown, GoesTo
  <2>2. cursor' = cursor
    BY <1>3 DEF Insert
  <2> QED  BY <1>1, <2>1, <2>2, SameInsertion DEF Promised!Insert
<1>4. ASSUME NEW x \in Items, Replace(i, x) PROVE Promised!Replace(i, x)
  <2>1. ContentsIn(q) = [ContentsIn(blocks) EXCEPT ![i + 1] = x]
    BY <1>0, <1>4, ReplaceMakes DEF Changed
  <2>2. cursor' = cursor
    BY <1>4 DEF Replace
  <2> QED  BY <1>1, <2>1, <2>2 DEF Promised!Replace
<1> QED  BY <1>2, <1>3, <1>4 DEF ByIndex

LEMMA PromiseByItem ==
    ASSUME ListInv, cursor = NONE, NEW x \in Items PROVE ByItem(x)
<1>0. PICK q : q = blocks'
  OBVIOUS
<1>1. Contents = ContentsIn(blocks) /\ Contents' = ContentsIn(q) /\ (cursor' = cursor => Position' = Position)
  BY <1>0, ListIs, SequenceAfter DEF Position
<1>2. ASSUME AppendItem(x) PROVE Promised!Insert(length, x)
  <2>1. ContentsIn(q) = InsertAt(ContentsIn(blocks), length + 1, x)
    BY <1>0, <1>2, ListIs, AppendsAt DEF AppendItem, Grown
  <2>2. cursor' = cursor
    BY <1>2 DEF AppendItem
  <2> QED  BY <1>1, <2>1, <2>2, SameInsertion DEF Promised!Insert
<1>3. ASSUME RemoveObject(x) PROVE Promised!RemoveIndex(FirstOf(x))
  <2>1. ContentsIn(q) = RemoveAt(ContentsIn(blocks), FirstOf(x) + 1)
    BY <1>0, <1>3, RemoveObjectMakes DEF Shrunk
  <2>2. cursor' = cursor
    BY <1>3 DEF RemoveObject
  <2> QED  BY <1>1, <2>1, <2>2, SameRemoval DEF Promised!RemoveIndex
<1> QED  BY <1>2, <1>3 DEF ByItem
LEMMA RangeOfPlaces ==
    ASSUME ListInv, NEW b \in 1 .. Len(blocks), NEW i \in 0 .. blocks[b].length - 1,
           NEW k, k = Upto(blocks, b - 1) + i
    PROVE  k \in 0 .. length - 1
<1>0. PICK n : n = Len(blocks)
  OBVIOUS
<1> DEFINE B == Upto(blocks, b - 1)
           len == blocks[b].length
           total == length
<1>1. n \in Nat /\ blocks \in Seq(Rings) /\ total = Upto(blocks, n) /\ total \in Nat
  BY <1>0, ListIs
<1>2. b - 1 \in 0 .. n /\ b \in 0 .. n /\ n \in 0 .. n /\ b <= n
  BY <1>0, <1>1
<1>3. B \in Nat /\ len \in Nat /\ Upto(blocks, b) = B + len /\ Upto(blocks, b) <= total
  BY <1>0, <1>1, <1>2, UptoIs, UptoGrows
<1>4. k = B + i /\ B + len <= total /\ i \in 0 .. len - 1
  BY <1>3
<1> HIDE DEF B, len, total
<1>5. k \in 0 .. total - 1
  BY <1>1, <1>3, <1>4
<1> QED  BY <1>5 DEF total

LEMMA PromiseOfInsertItem ==
    ASSUME ListInv, cursor # NONE, NEW x \in Items, InsertItem(x)
    PROVE  Promised!Insert(Position + TooFar(cursor), x)
<1>0. PICK q : q = blocks'
  OBVIOUS
<1> DEFINE b == cursor.block
           k == Upto(blocks, b - 1) + cursor.i
<1>1. Contents = ContentsIn(blocks) /\ Contents' = ContentsIn(q) /\ Position = k
  BY <1>0, ListIs, SequenceAfter, PositionIs
<1>2. b \in 1 .. Len(blocks) /\ FrontKept(q, b) /\ Grown(q, x, k + TooFar(cursor))
  BY <1>0, InsertItemMakes
<1>3. cursor' = cursor
  BY DEF InsertItem
<1>4. Contents' = InsertAt(Contents, Position + TooFar(cursor) + 1, x)
  BY <1>1, <1>2 DEF Grown
<1>5. Position' = Position
  <2>1. b - 1 \in 0 .. Len(blocks) /\ b - 1 < b /\ b - 1 <= Len(q)
    <3>0. PICK n, m : n = Len(blocks) /\ m = Len(q)
      OBVIOUS
    <3>1. n \in Nat /\ m \in Nat /\ m >= n /\ b \in 1 .. n
      BY <1>2, <3>0, ListIs, FilledIs DEF Grown
    <3> HIDE DEF b
    <3>2. b - 1 \in 0 .. n /\ b - 1 < b /\ b - 1 <= m
      BY <3>1
    <3> QED  BY <3>0, <3>2
  <2>2. Upto(q, b - 1) = Upto(blocks, b - 1)
    BY <1>2, <2>1 DEF FrontKept
  <2>3. Position' = Upto(q, cursor'.block - 1) + cursor'.i
    BY <1>0, <1>3, SequenceAfter
  <2> QED  BY <1>1, <1>3, <2>2, <2>3
<1> QED  BY <1>4, <1>5, SameInsertion DEF Promised!Insert

\* The iterator is at the end where no item follows.
LEMMA EndIs ==
    ASSUME ListInv, cursor # NONE, ~Behind
    PROVE  AtEnd <=> Position + 1 = length
<1>0. PICK n, d : n = Len(blocks) /\ d = blocks[n].length - 1
  OBVIOUS
<1> DEFINE b == cursor.block
           j == cursor.i
           K == Upto(blocks, n - 1) + d
           L == Upto(blocks, n - 1)
           total == length
<1>1. /\ Position = Upto(blocks, b - 1) + j /\ b \in 1 .. n /\ j \in 0 .. blocks[b].length - 1
      /\ n \in Nat /\ blocks \in Seq(Rings) /\ LastBlock = n /\ total = Upto(blocks, n) /\ total \in Nat
  BY <1>0, ListIs, PositionIs
<1>2. AtEnd <=> b = n /\ j = d
  BY <1>0, <1>1 DEF AtEnd
<1>3. n \in 1 .. n /\ n - 1 \in 0 .. n
  <2> HIDE DEF b
  <2> QED  BY <1>1
<1>4. d \in 0 .. blocks[n].length - 1 /\ K + 1 = total /\ K \in Int
  <2> DEFINE len == blocks[n].length
  <2>1. len \in Nat /\ len >= 1
    <3>1. len \in 1 .. BlockSize + 1 /\ len \in Nat
      BY <1>0, <1>3, ListIs, FilledIs
    <3> HIDE DEF len
    <3> QED  BY <3>1
  <2>2. L \in Nat /\ total = L + len
    BY <1>0, <1>1, <1>3, UptoIs
  <2>3. d = len - 1 /\ K = L + d
    BY <1>0
  <2> HIDE DEF len, L, total, K
  <2>4. d \in 0 .. len - 1 /\ K + 1 = total /\ K \in Int
    BY <2>1, <2>2, <2>3
  <2> QED  BY <2>4 DEF len
<1>5. Upto(blocks, b - 1) + j = K <=> b = n /\ j = d
  <2>1. /\ blocks \in Seq(Rings) /\ b \in 1 .. Len(blocks) /\ n \in 1 .. Len(blocks)
        /\ j \in 0 .. blocks[b].length - 1 /\ d \in 0 .. blocks[n].length - 1
    BY <1>0, <1>1, <1>3, <1>4
  <2> HIDE DEF b, j
  <2>2. Upto(blocks, b - 1) + j = Upto(blocks, n - 1) + d <=> b = n /\ j = d
    BY <2>1, SamePlace
  <2> QED  BY <2>2
<1>6. Position \in Int
  <2>1. Position \in 0 .. length - 1
    BY <1>0, <1>1, RangeOfPlaces
  <2> QED  BY <1>1, <2>1
<1>7. Position = K <=> Position + 1 = total
  <2> DEFINE P == Position
  <2>1. P \in Int /\ K \in Int /\ K + 1 = total
    BY <1>4, <1>6
  <2> HIDE DEF P, K, total
  <2>2. P = K <=> P + 1 = total
    BY <2>1
  <2> QED  BY <2>2 DEF P
<1> QED  BY <1>1, <1>2, <1>5, <1>7

LEMMA PromiseOfRemoveItem ==
    ASSUME ListInv, cursor # NONE, RemoveItem
    PROVE  Promised!RemoveItem
<1>0. PICK q : q = blocks'
  OBVIOUS
<1> DEFINE b == cursor.block
           k == Upto(blocks, b - 1) + cursor.i
<1>1. Contents = ContentsIn(blocks) /\ Contents' = ContentsIn(q) /\ Position = k /\ b \in 1 .. Len(blocks)
      /\ Len(Contents) = length /\ ~Behind
  BY <1>0, ListIs, SequenceAfter, PositionIs DEF RemoveItem
<1>2. FrontKept(q, b) /\ Shrunk(q, k) /\ (~AtEnd => Stands(cursor, q) \/ Beyond(cursor, q))
  BY <1>0, RemoveItemMakes
<1>3. cursor' = IF AtEnd THEN NONE ELSE cursor
  BY DEF RemoveItem
<1>4. Contents' = RemoveAt(Contents, Position + 1)
  BY <1>1, <1>2 DEF Shrunk
<1>5. Position' = IF AtEnd THEN NONE ELSE Position
  <2>1. CASE AtEnd
    BY <1>0, <1>3, <2>1, SequenceAfter
  <2>2. CASE ~AtEnd
    <3>1. b - 1 \in 0 .. Len(blocks) /\ b - 1 < b /\ b - 1 <= Len(q)
      <4>0. PICK n, m : n = Len(blocks) /\ m = Len(q)
        OBVIOUS
      <4>1. n \in Nat /\ m \in Nat /\ (b \in 1 .. m \/ b \in 1 .. m - 1) /\ b \in 1 .. n
        BY <1>1, <1>2, <2>2, <4>0, ListIs, FilledIs DEF Shrunk, Stands, Beyond
      <4> HIDE DEF b
      <4>2. b - 1 \in 0 .. n /\ b - 1 < b /\ b - 1 <= m
        BY <4>1
      <4> QED  BY <4>0, <4>2
    <3>2. Upto(q, b - 1) = Upto(blocks, b - 1)
      BY <1>2, <3>1 DEF FrontKept
    <3>3. cursor' = cursor /\ Position' = Upto(q, cursor'.block - 1) + cursor'.i
      BY <1>0, <1>3, <2>2, SequenceAfter
    <3> QED  BY <1>1, <2>2, <3>2, <3>3
  <2> QED  BY <2>1, <2>2
<1>6. AtEnd <=> Position + 1 = Len(Contents)
  BY <1>1, EndIs
<1> QED  BY <1>4, <1>5, <1>6, SameRemoval DEF Promised!RemoveItem

LEMMA PromiseOfIncrement ==
    ASSUME ListInv, cursor # NONE, ~Behind, IncrementIndex
    PROVE  Promised!Point(Position + 1)
<1>0. PICK q, b, j, n : q = blocks' /\ b = cursor.block /\ j = cursor.i /\ n = Len(blocks)
  OBVIOUS
<1> DEFINE len == blocks[b].length
           B == Upto(blocks, b - 1)
           total == length
           P == Position
<1>1. /\ Contents = ContentsIn(blocks) /\ Len(Contents) = total /\ P = B + j
      /\ b \in 1 .. n /\ j \in 0 .. len - 1 /\ n \in Nat /\ LastBlock = n /\ blocks \in Seq(Rings)
      /\ total = Upto(blocks, n) /\ total \in Nat
  BY <1>0, ListIs, PositionIs
<1>2. blocks' = blocks /\ q = blocks /\ Contents' = Contents
      /\ cursor' = IF j + 1 < len THEN Place(b, j + 1) ELSE IF b = n THEN NONE ELSE Place(b + 1, 0)
  <2>1. blocks' = blocks /\ q = blocks /\ Contents' = Contents
        /\ cursor' = IF j + 1 # len THEN Place(b, j + 1) ELSE IF b = n THEN NONE ELSE Place(b + 1, 0)
    BY <1>0, <1>1, SequenceAfter DEF IncrementIndex, Moved
  <2>2. j + 1 # len <=> j + 1 < len
    <3>1. len \in Nat
      BY <1>0, <1>1, ListIs, FilledIs
    <3> HIDE DEF len, B, total, P
    <3> QED  BY <1>1, <3>1
  <2> HIDE DEF len
  <2> QED  BY <2>1, <2>2
<1>a. Position' = IF cursor' = NONE THEN NONE ELSE Upto(blocks, cursor'.block - 1) + cursor'.i
  BY <1>0, <1>2, SequenceAfter
<1>3. /\ b \in Nat /\ b >= 1 /\ b <= n /\ b - 1 \in 0 .. n
      /\ B \in Nat /\ len \in Nat /\ Upto(blocks, b) = B + len
  <2>1. b \in Nat /\ b >= 1 /\ b <= n /\ b - 1 \in 0 .. n
    <3> HIDE DEF len, B, total, P
    <3> QED  BY <1>1
  <2>2. b \in 1 .. Len(blocks) /\ b - 1 \in 0 .. Len(blocks) /\ blocks \in Seq(Rings)
    BY <1>0, <1>1, <2>1
  <2>3. B \in Nat /\ len \in 0 .. BlockSize + 1 /\ Upto(blocks, b) = B + len
    BY <2>2, UptoIs
  <2>4. len \in Nat
    <3> HIDE DEF len
    <3> QED  BY <2>3, ListAssumption
  <2> QED  BY <2>1, <2>3, <2>4
<1>4. CASE j + 1 < len
  <2>1. j + 1 \in 0 .. len - 1 /\ j + 1 \in Nat
    <3> HIDE DEF len, B, total, P
    <3> QED  BY <1>1, <1>3, <1>4
  <2>2. B + (j + 1) \in 0 .. total - 1
    BY <1>0, <1>1, <2>1, RangeOfPlaces
  <2>3. cursor' = Place(b, j + 1) /\ cursor' # NONE
    BY <1>2, <1>3, <1>4, <2>1, PlacesAreSome
  <2>4. Position' = B + (j + 1)
    BY <1>a, <2>3 DEF Place
  <2>5. B + (j + 1) = P + 1
    <3>1. j \in Nat
      <4> HIDE DEF len
      <4> QED  BY <1>1, <1>3
    <3> HIDE DEF B, P, len, total
    <3> QED  BY <1>1, <1>3, <3>1
  <2> QED  BY <1>1, <1>2, <2>2, <2>4, <2>5 DEF Promised!Point
<1>5. CASE ~(j + 1 < len) /\ b = n
  <2>1. P + 1 = total
    <3> HIDE DEF len, B, total, P
    <3>1. total = B + len
      BY <1>1, <1>3, <1>5
    <3> QED  BY <1>1, <1>3, <1>5, <3>1
  <2>2. P + 1 \notin 0 .. total - 1
    <3> HIDE DEF total, P
    <3> QED  BY <1>1, <2>1
  <2>3. Position' = NONE
    BY <1>a, <1>2, <1>5
  <2> QED  BY <1>1, <1>2, <2>2, <2>3 DEF Promised!Point
<1>6. CASE ~(j + 1 < len) /\ b # n
  <2>1. b + 1 \in 1 .. n /\ (b + 1) - 1 = b /\ b + 1 \in Nat
    <3> HIDE DEF len, B, total, P
    <3> QED  BY <1>1, <1>3, <1>6
  <2>2. 0 \in 0 .. blocks[b + 1].length - 1
    <3> DEFINE l == blocks[b + 1].length
    <3>1. l \in 1 .. BlockSize + 1 /\ l \in Nat
      BY <1>0, <2>1, ListIs, FilledIs
    <3> HIDE DEF l
    <3>2. 0 \in 0 .. l - 1
      BY <3>1
    <3> QED  BY <3>2 DEF l
  <2> DEFINE C == Upto(blocks, (b + 1) - 1)
             c == b + 1
             k == Upto(blocks, c - 1) + 0
  <2>a. c \in 1 .. Len(blocks) /\ 0 \in 0 .. blocks[c].length - 1 /\ k = Upto(blocks, c - 1) + 0
    BY <1>0, <2>1, <2>2
  <2>3. k \in 0 .. total - 1
    <3> HIDE DEF c, k
    <3> QED  BY <2>a, RangeOfPlaces
  <2>4. cursor' = Place(b + 1, 0) /\ cursor' # NONE
    BY <1>2, <1>6, <2>1, PlacesAreSome
  <2>5. Position' = k
    BY <1>a, <2>4 DEF Place
  <2>6. k = P + 1
    <3>1. k = (B + len) + 0
      BY <1>3, <2>1
    <3>2. j = len - 1
      <4> HIDE DEF len
      <4> QED  BY <1>1, <1>3, <1>6
    <3> HIDE DEF len, B, P, k, total
    <3> QED  BY <1>1, <1>3, <3>1, <3>2
  <2> HIDE DEF k
  <2> QED  BY <1>1, <1>2, <2>3, <2>5, <2>6 DEF Promised!Point
<1> QED  BY <1>4, <1>5, <1>6

LEMMA PromiseOfDecrement ==
    ASSUME ListInv, cursor # NONE, ~Behind, DecrementIndex
    PROVE  Promised!Point(Position - 1)
<1>0. PICK q, b, j, n : q = blocks' /\ b = cursor.block /\ j = cursor.i /\ n = Len(blocks)
  OBVIOUS
<1> DEFINE len == blocks[b].length
           B == Upto(blocks, b - 1)
           total == length
           P == Position
<1>1. /\ Contents = ContentsIn(blocks) /\ Len(Contents) = total /\ P = B + j
      /\ b \in 1 .. n /\ j \in 0 .. len - 1 /\ n \in Nat /\ blocks \in Seq(Rings)
      /\ total = Upto(blocks, n) /\ total \in Nat
  BY <1>0, ListIs, PositionIs
<1>2. blocks' = blocks /\ q = blocks /\ Contents' = Contents
      /\ cursor' = IF j > 0 THEN Place(b, j - 1) ELSE IF b = 1 THEN NONE
                   ELSE Place(b - 1, blocks[b - 1].length - 1)
  BY <1>0, SequenceAfter, <1>1 DEF DecrementIndex, Moved
<1>a. Position' = IF cursor' = NONE THEN NONE ELSE Upto(blocks, cursor'.block - 1) + cursor'.i
  BY <1>0, <1>2, SequenceAfter
<1>3. /\ b \in Nat /\ b >= 1 /\ b <= n /\ b - 1 \in 0 .. n
      /\ B \in Nat /\ len \in Nat /\ j \in Nat
  <2>1. b \in Nat /\ b >= 1 /\ b <= n /\ b - 1 \in 0 .. n
    <3> HIDE DEF len, B, total, P
    <3> QED  BY <1>1
  <2>2. B \in Nat /\ len \in Nat
    BY <1>0, <1>1, <2>1, UptoIs
  <2>3. j \in Nat
    <3> HIDE DEF len, B, total, P
    <3> QED  BY <1>1, <2>2
  <2> QED  BY <2>1, <2>2, <2>3
<1>4. CASE j > 0
  <2>1. j - 1 \in 0 .. len - 1 /\ j - 1 \in Nat
    <3> HIDE DEF len, B, total, P
    <3> QED  BY <1>1, <1>3, <1>4
  <2>2. B + (j - 1) \in 0 .. total - 1
    BY <1>0, <1>1, <2>1, RangeOfPlaces
  <2>3. cursor' = Place(b, j - 1) /\ cursor' # NONE
    BY <1>2, <1>3, <1>4, <2>1, PlacesAreSome
  <2>4. Position' = B + (j - 1)
    BY <1>a, <2>3 DEF Place
  <2>5. B + (j - 1) = P - 1
    <3> HIDE DEF B, P, len, total
    <3> QED  BY <1>1, <1>3
  <2> QED  BY <1>1, <1>2, <2>2, <2>4, <2>5 DEF Promised!Point
<1>5. CASE ~(j > 0) /\ b = 1
  <2>1. B = 0
    BY <1>1, <1>5, UptoIs
  <2>2. P - 1 \notin 0 .. total - 1
    <3> HIDE DEF total, P, B, len
    <3> QED  BY <1>1, <1>3, <1>5, <2>1
  <2>3. Position' = NONE
    BY <1>a, <1>2, <1>5
  <2> QED  BY <1>1, <1>2, <2>2, <2>3 DEF Promised!Point
<1>6. CASE ~(j > 0) /\ b # 1
  <2> DEFINE c == b - 1
             l == blocks[c].length
             C == Upto(blocks, c - 1)
             k == C + (l - 1)
  <2>1. c \in 1 .. n /\ c \in Nat
    <3> HIDE DEF len, B, total, P, l, C
    <3> QED  BY <1>1, <1>3, <1>6
  <2>2. l - 1 \in 0 .. l - 1 /\ l - 1 \in Nat /\ l \in Nat
    <3>1. l \in 1 .. BlockSize + 1 /\ l \in Nat
      BY <1>0, <2>1, ListIs, FilledIs
    <3> HIDE DEF l
    <3> QED  BY <3>1
  <2>a. c - 1 \in 0 .. n
    <3> HIDE DEF c
    <3> QED  BY <1>1, <2>1
  <2>b. C \in Nat /\ B = C + l
    BY <1>0, <1>1, <2>1, <2>a, UptoIs
  <2>3. k \in 0 .. total - 1
    <3>1. c \in 1 .. Len(blocks) /\ l - 1 \in 0 .. blocks[c].length - 1
          /\ k = Upto(blocks, c - 1) + (l - 1)
      BY <1>0, <2>1, <2>2
    <3> DEFINE i == l - 1
    <3>2. i \in 0 .. blocks[c].length - 1 /\ k = Upto(blocks, c - 1) + i
      BY <3>1
    <3> HIDE DEF c, k, i
    <3> QED  BY <3>1, <3>2, RangeOfPlaces
  <2>4. cursor' = Place(c, l - 1) /\ cursor' # NONE
    BY <1>2, <1>6, <2>1, <2>2, PlacesAreSome
  <2>5. Position' = k
    BY <1>a, <2>4 DEF Place
  <2>6. k = P - 1
    <3> HIDE DEF len, B, P, total, C, l
    <3> QED  BY <1>1, <1>3, <1>6, <2>2, <2>b
  <2> HIDE DEF k
  <2> QED  BY <1>1, <1>2, <2>3, <2>5, <2>6 DEF Promised!Point
<1> QED  BY <1>4, <1>5, <1>6

\* Behind its block, the iterator goes back to the last of its items.
LEMMA PromiseOfReturn ==
    ASSUME ListInv, cursor # NONE, Behind, ~FurtherBehind, DecrementIndex
    PROVE  Promised!Point(Position - 1)
<1>0. PICK q, b, j, n : q = blocks' /\ b = cursor.block /\ j = cursor.i /\ n = Len(blocks)
  OBVIOUS
<1> DEFINE len == blocks[b].length
           B == Upto(blocks, b - 1)
           total == length
           P == Position
<1>1. /\ Contents = ContentsIn(blocks) /\ Len(Contents) = total /\ P = B + j /\ n \in Nat
  BY <1>0, ListIs, PositionIs
<1>2. b \in 1 .. n /\ len \in Nat /\ len >= 1 /\ BlockSize \in Nat
  <2>1. b \in 1 .. n \/ b \in 1 .. n - 1
    BY <1>0 DEF ListInv, Stands, Beyond
  <2>2. b \in 1 .. n
    BY <1>1, <2>1
  <2>3. len \in 1 .. BlockSize + 1 /\ len \in Nat /\ BlockSize \in Nat
    BY <1>0, <2>2, ListIs, FilledIs
  <2> HIDE DEF len
  <2> QED  BY <2>2, <2>3
<1>3. j = len /\ j \in Nat /\ j > 0
  <2>1. j >= len /\ ~(j > len)
    BY <1>0 DEF Behind, FurtherBehind
  <2>2. j \in 0 .. len - 1 \/ j \in len .. BlockSize + 1
    BY <1>0 DEF ListInv, Stands, Beyond
  <2> HIDE DEF len
  <2> QED  BY <1>2, <2>1, <2>2
<1>4. blocks' = blocks /\ q = blocks /\ Contents' = Contents /\ cursor' = Place(b, j - 1)
  BY <1>0, <1>1, <1>3, SequenceAfter DEF DecrementIndex, Moved
<1>5. Position' = IF cursor' = NONE THEN NONE ELSE Upto(blocks, cursor'.block - 1) + cursor'.i
  BY <1>0, <1>4, SequenceAfter
<1>6. j - 1 \in 0 .. len - 1 /\ j - 1 \in Nat /\ b \in Nat
  <2> HIDE DEF len
  <2> QED  BY <1>1, <1>2, <1>3
<1>7. B + (j - 1) \in 0 .. total - 1
  BY <1>0, <1>2, <1>6, RangeOfPlaces
<1>8. cursor' # NONE
  BY <1>4, <1>6, PlacesAreSome
<1>9. Position' = B + (j - 1)
  BY <1>4, <1>5, <1>8 DEF Place
<1>10. B + (j - 1) = P - 1
  <2>1. B \in Nat
    <3>1. b - 1 \in 0 .. n
      BY <1>1, <1>2
    <3> QED  BY <1>0, <3>1, ListIs, UptoIs
  <2> HIDE DEF B, P, len, total
  <2> QED  BY <1>1, <1>3, <2>1
<1> QED  BY <1>1, <1>4, <1>7, <1>9, <1>10 DEF Promised!Point

\* The iterator leaves its block by the removal of the last item only.
LEMMA LeavesByRemoval ==
    ASSUME ListInv, cursor # NONE, [ListNext]_listVars, Behind'
    PROVE  Behind \/ (RemoveItem /\ FallsOff)
<1>0. PICK q : q = blocks'
  OBVIOUS
<1>1. ASSUME WellFilled(q), Stands(cursor', q) PROVE FALSE
  <2> DEFINE b == cursor'.block
             i == cursor'.i
             len == q[b].length
  <2>1. b \in 1 .. Len(q) /\ i \in 0 .. len - 1
    BY <1>1 DEF Stands
  <2>2. len \in Nat
    BY <1>1, <2>1, FilledIs
  <2>3. i >= len
    BY <1>0 DEF Behind
  <2> HIDE DEF i, len
  <2> QED  BY <2>1, <2>2, <2>3
<1>2. cursor' # NONE
  BY DEF Behind
<1>3. CASE Behind
  BY <1>3
<1>4. CASE ~Behind
  <2>1. Stands(cursor, blocks) /\ WellFilled(blocks) /\ blocks = blocks
    BY <1>4, PositionIs, ListIs
  <2>2. ASSUME NEW x \in Items, InsertItem(x) PROVE FALSE
    <3>1. cursor' = cursor /\ Grown(q, x, Upto(blocks, cursor.block - 1) + cursor.i + TooFar(cursor))
      BY <1>0, <2>2, InsertItemMakes DEF InsertItem
    <3> DEFINE b == cursor.block
               i == cursor.i
               len == blocks[b].length
               qlen == q[b].length
               n == Len(blocks)
               m == Len(q)
    <3>2. b \in 1 .. n /\ i \in 0 .. len - 1 /\ n \in Nat /\ m \in Nat /\ m >= n
      BY <2>1, <3>1, FilledIs DEF Stands, Grown
    <3>3. b \in 1 .. m
      <4> HIDE DEF b, n, m
      <4> QED  BY <3>2
    <3>4. len \in Nat /\ qlen \in Nat /\ qlen >= len
      BY <2>1, <3>1, <3>2, <3>3, FilledIs DEF Grown
    <3>5. i \in 0 .. qlen - 1
      <4> HIDE DEF i, len, qlen
      <4> QED  BY <3>2, <3>4
    <3>6. Stands(cursor', q)
      BY <2>1, <3>1, <3>3, <3>5 DEF Stands
    <3> QED  BY <1>1, <3>1, <3>6 DEF Grown
  <2>3. ASSUME IteratorStart \/ IteratorEnd PROVE FALSE
    <3>1. Stands(cursor', blocks) /\ blocks' = blocks
      BY <2>3, EndsOfList DEF IteratorStart, IteratorEnd, Moved
    <3> QED  BY <1>0, <1>1, <2>1, <3>1
  <2>4. ASSUME IncrementIndex \/ DecrementIndex PROVE FALSE
    <3>1. Stands(cursor', blocks) /\ blocks' = blocks
      BY <1>2, <2>1, <2>4, NextPlace, PreviousPlace
    <3> QED  BY <1>0, <1>1, <2>1, <3>1
  <2>5. ASSUME RemoveItem, ~FallsOff PROVE FALSE
    <3>1. /\ Shrunk(q, Upto(blocks, cursor.block - 1) + cursor.i)
          /\ ~AtEnd => Stands(cursor, q)
      BY <1>0, <2>5, RemoveItemMakes
    <3>2. cursor' = IF AtEnd THEN NONE ELSE cursor
      BY <2>5 DEF RemoveItem
    <3> QED  BY <1>1, <1>2, <3>1, <3>2 DEF Shrunk
  <2>6. CASE UNCHANGED listVars
    BY <1>0, <1>1, <2>1, <2>6 DEF listVars
  <2> QED  BY <2>2, <2>3, <2>4, <2>5, <2>6 DEF ListNext
<1> QED  BY <1>3, <1>4

\* Every call of list.h does what it says to the sequence of the items, and the iterator
\* goes on with the item that follows, for any sequence of calls, blocks of any size and
\* lists of any length: but for the item that comes into the front half of a block, one
\* place too far back, and for the iterator that is behind its block since it removed
\* the last item there.
THEOREM ListIsSequence == ListSpec => ImplementsList
<1> DEFINE A == IF cursor = NONE THEN /\ \A i \in 0 .. length - 1 : ByIndex(i)
                                      /\ \A x \in Items : ByItem(x)
                ELSE ByIterator
<1>1. ListInv /\ [ListNext]_listVars => A
  <2> SUFFICES ASSUME ListInv, [ListNext]_listVars PROVE A
    OBVIOUS
  <2>1. CASE cursor = NONE
    BY <2>1, PromiseByIndex, PromiseByItem
  <2>2. CASE cursor # NONE
    <3>1. \A x \in Items : InsertItem(x) => Promised!Insert(Position + TooFar(cursor), x)
      BY <2>2, PromiseOfInsertItem
    <3>2. RemoveItem => Promised!RemoveItem
      BY <2>2, PromiseOfRemoveItem
    <3>3. IncrementIndex => Behind \/ Promised!Point(Position + 1)
      BY <2>2, PromiseOfIncrement
    <3>4. DecrementIndex => FurtherBehind \/ Promised!Point(Position - 1)
      BY <2>2, PromiseOfDecrement, PromiseOfReturn
    <3>5. Behind' => Behind \/ (RemoveItem /\ FallsOff)
      BY <2>2, LeavesByRemoval
    <3> QED  BY <2>2, <3>1, <3>2, <3>3, <3>4, <3>5 DEF ByIterator
  <2> QED  BY <2>1, <2>2
<1>2. ListSpec => []ListInv
  BY ListInvariance
<1> HIDE DEF A
<1>3. [](ListInv) /\ [][ListNext]_listVars => [][A]_listVars
  BY <1>1, PTL
<1>4. ListSpec => [][A]_listVars
  BY <1>2, <1>3, PTL DEF ListSpec
<1> QED  BY <1>4 DEF ImplementsList, A

\* insert(i, object) puts the object at i, or one further on: where the item at i stands in
\* the front half of its block, the new one comes behind it (circarray.h).
THEOREM InsertGoesTo ==
    ListSpec =>
        [][\A i \in 0 .. length - 1 : \A x \in Items :
              Insert(i, x) => Contents' = InsertAt(Contents, GoesTo(i) + 1, x)]_listVars
<1> DEFINE A == \A i \in 0 .. length - 1 : \A x \in Items :
                   Insert(i, x) => Contents' = InsertAt(Contents, GoesTo(i) + 1, x)
<1>1. ListInv => A
  <2> SUFFICES ASSUME ListInv, NEW i \in 0 .. length - 1, NEW x \in Items, Insert(i, x)
               PROVE  Contents' = InsertAt(Contents, GoesTo(i) + 1, x)
    OBVIOUS
  <2>0. PICK q : q = blocks'
    OBVIOUS
  <2>1. Grown(q, x, GoesTo(i))
    BY <2>0, InsertMakes
  <2>2. Contents = ContentsIn(blocks) /\ Contents' = ContentsIn(q)
    BY <2>0, ListIs, SequenceAfter
  <2> QED  BY <2>1, <2>2 DEF Grown
<1>2. ListSpec => []ListInv
  BY ListInvariance
<1>3. ListInv => [A]_listVars
  BY <1>1
<1> HIDE DEF A
<1>4. ListSpec => [][A]_listVars
  BY <1>2, <1>3, PTL
<1> QED  BY <1>4 DEF A
=============================================================================
