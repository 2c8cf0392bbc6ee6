-------------------------- MODULE WaitObjects_proofs --------------------------
(***************************************************************************)
(* Proofs about WaitObjects: any threads and objects, lists of any length, *)
(* any number of threads that look at the same object.  Once no two are    *)
(* blocked for the same object at any time (Alone, a condition on the      *)
(* behaviour), chains hold exactly the blocked threads, and what the calls *)
(* do is what Events promises; that a set releases once needs no such      *)
(* condition.                                                              *)
(*                                                                         *)
(* The argument: the chain of an object is empty or its only item is that  *)
(* of the thread that is blocked (Chains), whose back reference is the     *)
(* object itself; the reference the code does not correct, of the item     *)
(* that follows, is never there.  The loop of a set therefore ends after   *)
(* one item.                                                               *)
(***************************************************************************)
EXTENDS WaitObjects, FiniteSetTheorems, WellFoundedInduction, TLAPS

States == {"out", "checking", "seen", "blocked"}

Types ==
    /\ flags \in SUBSET Objects
    /\ pc \in [Threads -> States]
    /\ list \in [Threads -> SUBSET Objects]
    /\ todo \in [Threads -> SUBSET Objects]
    /\ limit \in [Threads -> Limits]

Cells ==
    /\ chain = [first |-> chain.first, last |-> chain.last,
                next |-> chain.next, prev |-> chain.prev]
    /\ chain.first \in [Objects -> Links]
    /\ chain.last \in [Objects -> Places]
    /\ chain.next \in [Items -> Links]
    /\ chain.prev \in [Items -> Places \cup {NULL}]

\* What a thread has said and seen.
Calls ==
    \A t \in Threads :
       /\ pc[t] = "out" <=> list[t] = {}
       /\ todo[t] \subseteq list[t]
       /\ pc[t] = "seen" => \E o \in AutoReset : todo[t] = {o}

On(i) == pc[i[1]] = "blocked" /\ i[2] \in list[i[1]]

\* No two threads are blocked for the same object.
Alone == \A t, u \in Threads, o \in Objects : On(<<t, o>>) /\ On(<<u, o>>) => t = u

\* A chain is empty, or its only item is that of the thread that is blocked.
Chains ==
    /\ \A i \in Items :
          IF On(i) THEN /\ chain.first[i[2]] = i /\ chain.last[i[2]] = i
                        /\ chain.next[i] = NULL /\ chain.prev[i] = i[2]
                   ELSE chain.next[i] = NULL /\ chain.prev[i] = NULL
    /\ \A o \in Objects :
          (\A t \in Threads : ~On(<<t, o>>)) => chain.first[o] = NULL /\ chain.last[o] = o

IInv == Types /\ Cells /\ Calls /\ Chains

-------------------------------------------------------------------------------
(* The loop of a set.  It is defined as a recursive function; that it is the one *)
(* expected is shown by the least argument at which it would not be.             *)

Less == {p \in Nat \X Nat : p[1] < p[2]}

\* A set of natural numbers that is not empty has a least one.
LEMMA Least ==
    ASSUME NEW T \in SUBSET Nat, T # {}
    PROVE  \E m \in T : \A k \in T : m <= k
<1>1. IsWellFoundedOn(Less, Nat)
  BY NatLessThanWellFounded DEF OpToRel, Less
<1>2. PICK m \in T : \A k \in T : ~(<<k, m>> \in Less)
  BY <1>1, WFMin, Zenon
<1>3. ASSUME NEW k \in T, k < m PROVE FALSE
  <2>1. <<k, m>> \in Less
    BY <1>3 DEF Less
  <2> QED  BY <2>1, <1>2
<1>4. \A k \in T : m <= k
  BY <1>3
<1> QED  BY <1>4

\* The loop before its first round, and one round.
Start(o) == [chain |-> chain, item |-> chain.first[o], woken |-> {}]
Onward(o, s) ==
    IF s.item = NULL THEN s
    ELSE [chain |-> Removed(s.chain, s.item[1], list[s.item[1]]),
          item |-> IF o \in WakeupAll THEN s.chain.next[s.item] ELSE NULL,
          woken |-> s.woken \cup {s.item[1]}]

IsWalk(o, f) ==
    f = [n \in 0 .. Cardinality(Items) |-> IF n = 0 THEN Start(o) ELSE Onward(o, f[n - 1])]

LEMMA WalkIs ==
    ASSUME NEW o
    PROVE  Walk(o) = (CHOOSE f : IsWalk(o, f))[Cardinality(Items)]
BY DEF Walk, IsWalk, Start, Onward

\* A walk that stops after its first step.
LEMMA ShortWalk ==
    ASSUME NEW o, NEW s, Cardinality(Items) \in Nat, Cardinality(Items) = 0 => s = Start(o),
           Onward(o, Start(o)) = s, Onward(o, s) = s
    PROVE  Walk(o) = s
<1> DEFINE K == Cardinality(Items)
           g == [n \in 0 .. K |-> IF n = 0 THEN Start(o) ELSE s]
           f == CHOOSE f : IsWalk(o, f)
<1>1. K \in Nat /\ (K = 0 => s = Start(o))
  OBVIOUS
<1>a. Walk(o) = f[K]
  BY WalkIs
<1> HIDE DEF K
<1>2. IsWalk(o, g)
  <2>1. \A n \in 0 .. K : g[n] = IF n = 0 THEN Start(o) ELSE Onward(o, g[n - 1])
    BY <1>1
  <2>2. g = [n \in 0 .. K |-> IF n = 0 THEN Start(o) ELSE Onward(o, g[n - 1])]
    BY <2>1
  <2> QED  BY <2>2 DEF IsWalk, K
<1>3. IsWalk(o, f)
  BY <1>2
<1> HIDE DEF f, g
<1>4. \A n \in 0 .. K : f[n] = IF n = 0 THEN Start(o) ELSE Onward(o, f[n - 1])
  BY <1>3 DEF IsWalk, K
<1>5. f[K] = s
  <2> DEFINE Bad == {n \in 1 .. K : f[n] # s}
  <2>1. SUFFICES ASSUME Bad # {} PROVE FALSE
    BY <1>1, <1>4
  <2>a. Bad \in SUBSET Nat
    BY <1>1
  <2>2. PICK m \in Bad : \A k \in Bad : m <= k
    <3> HIDE DEF Bad
    <3> QED  BY <2>a, <2>1, Least
  <2>3. m # 1
    BY <1>1, <1>4
  <2>4. m - 1 \in 1 .. K /\ m - 1 \notin Bad
    BY <1>1, <2>2, <2>3
  <2>5. f[m - 1] = s
    BY <2>4
  <2>6. f[m] = Onward(o, f[m - 1])
    BY <1>1, <1>4, <2>2
  <2>7. f[m] # s
    BY <2>2
  <2> QED  BY <2>5, <2>6, <2>7
<1> QED  BY <1>a, <1>5

-------------------------------------------------------------------------------
(* What the operations on the chains do. *)

LEMMA ItemsArePairs ==
    /\ \A i \in Items : i[1] \in Threads /\ i[2] \in Objects /\ i = <<i[1], i[2]>>
    /\ \A t \in Threads, o \in Objects : <<t, o>> \in Items
    /\ \A t, u \in Threads, o, q \in Objects : <<t, o>> = <<u, q>> <=> t = u /\ o = q
BY DEF Items

LEMMA NewItems ==
    ASSUME NEW t \in Threads, NEW os \in SUBSET Objects
    PROVE  /\ \A i \in Items : i \in {t} \X os <=> i[1] = t /\ i[2] \in os
           /\ {t} \X os \subseteq Items
BY DEF Items

\* The only item of its chains goes.
LEMMA RemovedIs ==
    ASSUME IInv, NEW t \in Threads, pc[t] = "blocked"
    PROVE  Removed(chain, t, list[t]) =
             [first |-> [o \in Objects |-> IF o \in list[t] THEN NULL ELSE chain.first[o]],
              last |-> [o \in Objects |-> IF o \in list[t] THEN o ELSE chain.last[o]],
              next |-> chain.next,
              prev |-> [i \in Items |-> IF i[1] = t /\ i[2] \in list[t] THEN NULL
                                        ELSE chain.prev[i]]]
<1> DEFINE os == list[t]
           gone == {i \in {t} \X os : chain.prev[i] # NULL}
<1>0. os \in SUBSET Objects
  BY DEF IInv, Types
<1>1. \A i \in Items : i \in gone <=> i[1] = t /\ i[2] \in os
  <2>1. \A i \in Items : i[1] = t /\ i[2] \in os => chain.prev[i] = i[2] /\ i[2] \in Objects
    BY ItemsArePairs DEF IInv, Chains, On
  <2> QED  BY <1>0, <2>1, NewItems, PlacesAssumption
<1>2. \A o \in Objects : <<t, o>> \in gone <=> o \in os
  BY <1>1, ItemsArePairs
<1>3. \A o \in os : /\ chain.prev[<<t, o>>] = o /\ chain.next[<<t, o>>] = NULL
                    /\ chain.last[o] = <<t, o>> /\ chain.first[o] = <<t, o>>
  <2>1. \A o \in os : o \in Objects /\ <<t, o>> \in Items /\ On(<<t, o>>)
    BY <1>0, ItemsArePairs DEF On
  <2> QED  BY <2>1, ItemsArePairs DEF IInv, Chains
<1>4. \A i \in Items : <<t, i[2]>> \in gone => chain.prev[<<t, i[2]>>] # i
  BY <1>2, <1>3, ItemsArePairs, PlacesAssumption DEF Items
<1> HIDE DEF gone
<1>5. [o \in Objects |-> IF <<t, o>> \in gone /\ chain.prev[<<t, o>>] = o
                         THEN chain.next[<<t, o>>] ELSE chain.first[o]]
       = [o \in Objects |-> IF o \in os THEN NULL ELSE chain.first[o]]
  BY <1>2, <1>3
<1>6. [o \in Objects |-> IF <<t, o>> \in gone THEN LastAfter(chain, <<t, o>>) ELSE chain.last[o]]
       = [o \in Objects |-> IF o \in os THEN o ELSE chain.last[o]]
  <2>1. \A o \in os : LastAfter(chain, <<t, o>>) = o
    BY <1>3 DEF LastAfter
  <2> QED  BY <1>2, <2>1
<1>7. [i \in Items |-> IF i \in gone THEN NULL
                       ELSE IF <<t, i[2]>> \in gone /\ chain.prev[<<t, i[2]>>] = i
                       THEN chain.next[<<t, i[2]>>] ELSE chain.next[i]]
       = chain.next
  <2>1. \A i \in Items : i \in gone => chain.next[i] = NULL
    <3>1. \A i \in Items : i \in gone => i = <<t, i[2]>> /\ i[2] \in os
      BY <1>1, ItemsArePairs
    <3> QED  BY <3>1, <1>3
  <2>2. chain.next \in [Items -> Links]
    BY DEF IInv, Cells
  <2> QED  BY <1>4, <2>1, <2>2
<1>8. [i \in Items |-> IF i \in gone THEN NULL ELSE chain.prev[i]]
       = [i \in Items |-> IF i[1] = t /\ i[2] \in os THEN NULL ELSE chain.prev[i]]
  BY <1>1
<1>9. Removed(chain, t, os) =
        [first |-> [o \in Objects |-> IF <<t, o>> \in gone /\ chain.prev[<<t, o>>] = o
                                      THEN chain.next[<<t, o>>] ELSE chain.first[o]],
         last |-> [o \in Objects |-> IF <<t, o>> \in gone THEN LastAfter(chain, <<t, o>>)
                                     ELSE chain.last[o]],
         next |-> [i \in Items |-> IF i \in gone THEN NULL
                                   ELSE IF <<t, i[2]>> \in gone /\ chain.prev[<<t, i[2]>>] = i
                                   THEN chain.next[<<t, i[2]>>] ELSE chain.next[i]],
         prev |-> [i \in Items |-> IF i \in gone THEN NULL ELSE chain.prev[i]]]
  BY DEF Removed, gone
<1> QED  BY <1>5, <1>6, <1>7, <1>8, <1>9, Zenon

\* An item comes to chains that are empty.
LEMMA AppendedIs ==
    ASSUME IInv, NEW t \in Threads, \A o \in list[t], u \in Threads : ~On(<<u, o>>)
    PROVE  Appended(chain, t, list[t]) =
             [first |-> [o \in Objects |-> IF o \in list[t] THEN <<t, o>> ELSE chain.first[o]],
              last |-> [o \in Objects |-> IF o \in list[t] THEN <<t, o>> ELSE chain.last[o]],
              next |-> chain.next,
              prev |-> [i \in Items |-> IF i[1] = t /\ i[2] \in list[t] THEN i[2]
                                        ELSE chain.prev[i]]]
<1> DEFINE os == list[t]
           new == {t} \X os
<1>0. os \in SUBSET Objects
  BY DEF IInv, Types
<1>1. \A i \in Items : i \in new <=> i[1] = t /\ i[2] \in os
  BY <1>0, NewItems
<1>2. \A o \in os : chain.last[o] = o
  <2>1. \A o \in os, u \in Threads : ~On(<<u, o>>)
    OBVIOUS
  <2> QED  BY <1>0, <2>1 DEF IInv, Chains
<1> HIDE DEF new
<1>3. [o \in Objects |-> IF o \in os /\ chain.last[o] = o THEN <<t, o>> ELSE chain.first[o]]
       = [o \in Objects |-> IF o \in os THEN <<t, o>> ELSE chain.first[o]]
  BY <1>2
<1>4. [i \in Items |-> IF i \in new THEN NULL
                       ELSE IF i[2] \in os /\ chain.last[i[2]] = i THEN <<t, i[2]>>
                       ELSE chain.next[i]]
       = chain.next
  <2>1. \A i \in Items : i \in new => chain.next[i] = NULL
    BY DEF IInv, Chains
  <2>2. \A i \in Items : i[2] \in os => chain.last[i[2]] # i
    BY <1>0, <1>2, PlacesAssumption DEF Items
  <2>3. chain.next \in [Items -> Links]
    BY DEF IInv, Cells
  <2> QED  BY <2>1, <2>2, <2>3
<1>5. [i \in Items |-> IF i \in new THEN chain.last[i[2]] ELSE chain.prev[i]]
       = [i \in Items |-> IF i[1] = t /\ i[2] \in os THEN i[2] ELSE chain.prev[i]]
  BY <1>1, <1>2
<1> QED  BY <1>3, <1>4, <1>5 DEF Appended, new

-------------------------------------------------------------------------------
(* The invariant is inductive. *)

LEMMA InitInvariant == Init => IInv
<1> SUFFICES ASSUME Init PROVE IInv
  OBVIOUS
<1> DEFINE F == [o \in Objects |-> NULL]
           L == [o \in Objects |-> o]
           N == [i \in Items |-> NULL]
<1>1. chain = [first |-> F, last |-> L, next |-> N, prev |-> N]
  BY DEF Init
<1>2. /\ F \in [Objects -> Links] /\ L \in [Objects -> Places]
      /\ N \in [Items -> Links] /\ N \in [Items -> Places \cup {NULL}]
      /\ (\A o \in Objects : F[o] = NULL /\ L[o] = o) /\ \A i \in Items : N[i] = NULL
  BY DEF Links, Places
<1> HIDE DEF F, L, N
<1>3. chain.first = F /\ chain.last = L /\ chain.next = N /\ chain.prev = N
  BY <1>1
<1>4. Cells
  BY <1>1, <1>2, <1>3 DEF Cells
<1>5. Types /\ Calls
  BY DEF Init, Types, Calls, States, Limits
<1>6. Chains
  <2>1. \A i \in Items : ~On(i)
    BY ItemsArePairs DEF On, Init
  <2> QED  BY <1>2, <1>3, <2>1 DEF Chains
<1> QED  BY <1>4, <1>5, <1>6 DEF IInv

\* A step that leaves the chains alone, and who is blocked.
LEMMA ChainsKept ==
    ASSUME IInv, UNCHANGED chain, \A i \in Items : On(i)' <=> On(i)
    PROVE  Cells' /\ Chains'
<1>1. Cells'
  BY DEF IInv, Cells
<1>2. \A t \in Threads, o \in Objects : On(<<t, o>>)' <=> On(<<t, o>>)
  BY ItemsArePairs
<1>3. Chains'
  BY <1>2 DEF IInv, Chains
<1> QED  BY <1>1, <1>3

\* A thread whose wait is over takes its items from the chains.
LEMMA ChainsAfterRemoval ==
    ASSUME IInv, Alone, NEW t \in Threads, pc[t] = "blocked",
           chain' = Removed(chain, t, list[t]), Leave({t})
    PROVE  Cells' /\ Chains'
<1> DEFINE os == list[t]
           F == [o \in Objects |-> IF o \in os THEN NULL ELSE chain.first[o]]
           L == [o \in Objects |-> IF o \in os THEN o ELSE chain.last[o]]
           P == [i \in Items |-> IF i[1] = t /\ i[2] \in os THEN NULL ELSE chain.prev[i]]
           N == chain.next
<1>0. os \in SUBSET Objects
  BY DEF IInv, Types
<1>1. chain' = [first |-> F, last |-> L, next |-> N, prev |-> P]
  BY RemovedIs
<1>2. /\ F \in [Objects -> Links] /\ L \in [Objects -> Places]
      /\ N \in [Items -> Links] /\ P \in [Items -> Places \cup {NULL}]
  BY <1>0 DEF Links, Places, IInv, Cells
<1>3. \A i \in Items : On(i)' <=> On(i) /\ i[1] # t
  BY ItemsArePairs DEF On, Leave, IInv, Types
<1>4. \A i \in Items : /\ F[i[2]] = IF i[2] \in os THEN NULL ELSE chain.first[i[2]]
                       /\ L[i[2]] = IF i[2] \in os THEN i[2] ELSE chain.last[i[2]]
                       /\ P[i] = IF i[1] = t /\ i[2] \in os THEN NULL ELSE chain.prev[i]
  BY ItemsArePairs
<1>5. \A o \in Objects : /\ F[o] = IF o \in os THEN NULL ELSE chain.first[o]
                         /\ L[o] = IF o \in os THEN o ELSE chain.last[o]
  OBVIOUS
<1> HIDE DEF F, L, N, P
<1>6. chain'.first = F /\ chain'.last = L /\ chain'.next = N /\ chain'.prev = P
  BY <1>1
<1>7. Cells'
  BY <1>1, <1>2, <1>6 DEF Cells
<1>8. \A i \in Items : On(i)' => i[2] \notin os
  <2>1. \A o \in os : o \in Objects /\ On(<<t, o>>)
    BY <1>0 DEF On
  <2>2. ASSUME NEW i \in Items, On(i), i[2] \in os PROVE i[1] = t
    <3>1. On(<<i[1], i[2]>>) /\ i[1] \in Threads
      BY <2>2, ItemsArePairs
    <3> QED  BY <2>1, <2>2, <3>1 DEF Alone
  <2> QED  BY <1>3, <2>2
<1>9. ASSUME NEW i \in Items
      PROVE  IF On(i)' THEN F[i[2]] = i /\ L[i[2]] = i /\ N[i] = NULL /\ P[i] = i[2]
                       ELSE N[i] = NULL /\ P[i] = NULL
  <2>1. N[i] = NULL
    BY DEF N, IInv, Chains
  <2>2. CASE On(i)'
    BY <1>3, <1>4, <1>8, <2>1, <2>2 DEF IInv, Chains
  <2>3. CASE ~On(i)' /\ i[1] # t
    BY <1>3, <1>4, <2>1, <2>3 DEF IInv, Chains
  <2>4. CASE ~On(i)' /\ i[1] = t
    BY <1>3, <1>4, <2>1, <2>4 DEF IInv, Chains, On
  <2> QED  BY <2>2, <2>3, <2>4
<1>10. ASSUME NEW o \in Objects, \A u \in Threads : ~On(<<u, o>>)'
       PROVE  F[o] = NULL /\ L[o] = o
  <2>1. CASE o \in os
    BY <1>5, <2>1
  <2>2. CASE o \notin os
    <3>1. \A u \in Threads : ~On(<<u, o>>)
      BY <1>3, <1>10, <2>2, ItemsArePairs DEF On
    <3> QED  BY <1>5, <2>2, <3>1 DEF IInv, Chains
  <2> QED  BY <2>1, <2>2
<1>11. Chains'
  BY <1>6, <1>9, <1>10 DEF Chains
<1> QED  BY <1>7, <1>11

\* A thread that blocks puts its items on the chains.
LEMMA ChainsAfterAppending ==
    ASSUME IInv, Alone', NEW t \in Threads, pc[t] # "blocked", UNCHANGED list,
           chain' = Appended(chain, t, list[t]), pc' = [pc EXCEPT ![t] = "blocked"]
    PROVE  Cells' /\ Chains'
<1> DEFINE os == list[t]
           F == [o \in Objects |-> IF o \in os THEN <<t, o>> ELSE chain.first[o]]
           L == [o \in Objects |-> IF o \in os THEN <<t, o>> ELSE chain.last[o]]
           P == [i \in Items |-> IF i[1] = t /\ i[2] \in os THEN i[2] ELSE chain.prev[i]]
           N == chain.next
<1>0. os \in SUBSET Objects
  BY DEF IInv, Types
<1>a. \A i \in Items : On(i) => i[2] \notin os
  <2>1. \A i \in Items : On(i) => i[1] # t /\ On(i)'
    BY ItemsArePairs DEF On, IInv, Types
  <2>2. \A o \in os : o \in Objects /\ On(<<t, o>>)'
    BY <1>0 DEF On, IInv, Types
  <2>3. ASSUME NEW i \in Items, On(i)', i[2] \in os PROVE i[1] = t
    <3>1. On(<<i[1], i[2]>>)' /\ i[1] \in Threads
      BY <2>3, ItemsArePairs
    <3> QED  BY <2>2, <2>3, <3>1 DEF Alone
  <2> QED  BY <2>1, <2>3
<1>b. \A o \in os, u \in Threads : ~On(<<u, o>>)
  BY <1>0, <1>a, ItemsArePairs
<1>1. chain' = [first |-> F, last |-> L, next |-> N, prev |-> P]
  BY <1>b, AppendedIs
<1>2. /\ F \in [Objects -> Links] /\ L \in [Objects -> Places]
      /\ N \in [Items -> Links] /\ P \in [Items -> Places \cup {NULL}]
  BY <1>0, ItemsArePairs DEF Links, Places, IInv, Cells
<1>3. \A i \in Items : On(i)' <=> On(i) \/ (i[1] = t /\ i[2] \in os)
  BY ItemsArePairs DEF On, IInv, Types
<1>4. \A i \in Items : /\ F[i[2]] = IF i[2] \in os THEN <<t, i[2]>> ELSE chain.first[i[2]]
                       /\ L[i[2]] = IF i[2] \in os THEN <<t, i[2]>> ELSE chain.last[i[2]]
                       /\ P[i] = IF i[1] = t /\ i[2] \in os THEN i[2] ELSE chain.prev[i]
  BY ItemsArePairs
<1>5. \A o \in Objects \ os : F[o] = chain.first[o] /\ L[o] = chain.last[o]
  OBVIOUS
<1> HIDE DEF F, L, N, P
<1>6. chain'.first = F /\ chain'.last = L /\ chain'.next = N /\ chain'.prev = P
  BY <1>1
<1>7. Cells'
  BY <1>1, <1>2, <1>6 DEF Cells
<1>8. \A i \in Items : On(i) => i[2] \notin os
  BY <1>a
<1>9. ASSUME NEW i \in Items
      PROVE  IF On(i)' THEN F[i[2]] = i /\ L[i[2]] = i /\ N[i] = NULL /\ P[i] = i[2]
                       ELSE N[i] = NULL /\ P[i] = NULL
  <2>1. N[i] = NULL
    BY DEF N, IInv, Chains
  <2>2. CASE On(i)
    BY <1>3, <1>4, <1>8, <2>1, <2>2 DEF IInv, Chains
  <2>3. CASE i[1] = t /\ i[2] \in os
    <3>1. i = <<t, i[2]>>
      BY <2>3, ItemsArePairs
    <3> QED  BY <1>3, <1>4, <2>1, <2>3, <3>1
  <2>4. CASE ~On(i) /\ ~(i[1] = t /\ i[2] \in os)
    BY <1>3, <1>4, <2>1, <2>4 DEF IInv, Chains
  <2> QED  BY <2>2, <2>3, <2>4
<1>10. ASSUME NEW o \in Objects, \A u \in Threads : ~On(<<u, o>>)'
       PROVE  F[o] = NULL /\ L[o] = o
  <2>1. o \notin os /\ \A u \in Threads : ~On(<<u, o>>)
    BY <1>3, <1>10, ItemsArePairs
  <2> QED  BY <1>5, <2>1 DEF IInv, Chains
<1>11. Chains'
  BY <1>6, <1>9, <1>10 DEF Chains
<1> QED  BY <1>7, <1>11

\* What setting an object does: nothing to the chains when nobody waits for it; else it
\* takes the thread that waits off them.
LEMMA SetEffect ==
    ASSUME IInv, NEW o \in Objects
    PROVE  /\ (\A t \in Threads : ~On(<<t, o>>)) =>
                 Walk(o).chain = chain /\ Walk(o).woken = {}
           /\ \A t \in Threads : On(<<t, o>>) =>
                 Walk(o).chain = Removed(chain, t, list[t]) /\ Walk(o).woken = {t}
<1>1. Cardinality(Items) \in Nat /\ IsFiniteSet(Items)
  BY SetsAssumption, FS_Product, FS_CardinalityType DEF Items
<1>2. ASSUME \A t \in Threads : ~On(<<t, o>>)
      PROVE  Walk(o).chain = chain /\ Walk(o).woken = {}
  <2>1. chain.first[o] = NULL
    BY <1>2 DEF IInv, Chains
  <2>2. Onward(o, Start(o)) = Start(o)
    BY <2>1 DEF Onward, Start
  <2>3. Walk(o) = Start(o)
    BY <1>1, <2>2, ShortWalk
  <2> QED  BY <2>3 DEF Start
<1>3. ASSUME NEW t \in Threads, On(<<t, o>>)
      PROVE  Walk(o).chain = Removed(chain, t, list[t]) /\ Walk(o).woken = {t}
  <2> DEFINE i == <<t, o>>
             C == Removed(chain, t, list[t])
             s == [chain |-> C, item |-> NULL, woken |-> {t}]
  <2>1. i \in Items /\ i[1] = t /\ i[2] = o
    BY ItemsArePairs
  <2>2. chain.first[o] = i /\ chain.next[i] = NULL /\ i # NULL
    BY <1>3, <2>1, PlacesAssumption DEF IInv, Chains, Items
  <2>3. Onward(o, Start(o)) = s
    BY <2>1, <2>2 DEF Onward, Start
  <2>4. Onward(o, s) = s
    BY DEF Onward
  <2>5. Cardinality(Items) # 0
    BY <1>1, <2>1, FS_EmptySet
  <2>6. Walk(o) = s
    BY <1>1, <2>3, <2>4, <2>5, ShortWalk
  <2> QED  BY <2>6
<1> QED  BY <1>2, <1>3

LEMMA WaitCallStep ==
    ASSUME IInv, NEW t \in Threads, NEW os \in (SUBSET Objects) \ {{}},
           NEW lim \in Limits, WaitCall(t, os, lim)
    PROVE  IInv'
<1>1. Types'
  BY DEF IInv, Types, WaitCall, States
<1>2. Calls'
  <2>1. pc'[t] = "checking" /\ list'[t] = os /\ todo'[t] = os /\ os # {}
    BY DEF IInv, Types, WaitCall
  <2>2. \A u \in Threads \ {t} : pc'[u] = pc[u] /\ list'[u] = list[u] /\ todo'[u] = todo[u]
    BY DEF IInv, Types, WaitCall
  <2>3. flags' = flags
    BY DEF WaitCall
  <2> QED  BY <2>1, <2>2, <2>3 DEF IInv, Calls
<1>4. Cells' /\ Chains'
  <2>1. \A i \in Items : On(i)' <=> On(i)
    BY ItemsArePairs DEF On, WaitCall, IInv, Types, Calls
  <2> QED  BY <2>1, ChainsKept DEF WaitCall
<1> QED  BY <1>1, <1>2, <1>4 DEF IInv

LEMMA FindsUnsetStep ==
    ASSUME IInv, NEW t \in Threads, FindsUnset(t)
    PROVE  IInv'
<1>1. Types' /\ Calls'
  BY DEF IInv, Types, Calls, FindsUnset
<1>2. Cells' /\ Chains'
  <2>1. \A i \in Items : On(i)' <=> On(i)
    BY DEF On, FindsUnset
  <2> QED  BY <2>1, ChainsKept DEF FindsUnset
<1> QED  BY <1>1, <1>2 DEF IInv

\* A thread leaves wait() that was not blocked.
LEMMA LeaveUnblocked ==
    ASSUME IInv, NEW t \in Threads, pc[t] # "blocked", Leave({t}), UNCHANGED chain,
           flags' \in SUBSET flags
    PROVE  IInv'
<1>1. Types'
  BY DEF IInv, Types, Leave, States, Limits
<1>2. Calls'
  <2> SUFFICES ASSUME NEW u \in Threads
               PROVE  /\ pc'[u] = "out" <=> list'[u] = {}
                      /\ todo'[u] \subseteq list'[u]
                      /\ pc'[u] = "seen" => \E o \in AutoReset : todo'[u] = {o}
    BY DEF Calls
  <2>1. CASE u = t
    BY <2>1 DEF Leave
  <2>2. CASE u # t
    <3>1. pc'[u] = pc[u] /\ list'[u] = list[u] /\ todo'[u] = todo[u]
      BY <2>2 DEF Leave
    <3> QED  BY <3>1 DEF IInv, Calls
  <2> QED  BY <2>1, <2>2
<1>4. Cells' /\ Chains'
  <2>1. \A i \in Items : On(i)' <=> On(i)
    BY ItemsArePairs DEF On, Leave
  <2> QED  BY <2>1, ChainsKept
<1> QED  BY <1>1, <1>2, <1>4 DEF IInv

LEMMA FindsSetStep ==
    ASSUME IInv, NEW t \in Threads, FindsSet(t)
    PROVE  IInv'
<1>1. PICK o \in todo[t] \cap flags :
         IF o \in AutoReset
         THEN /\ pc' = [pc EXCEPT ![t] = "seen"]
              /\ todo' = [todo EXCEPT ![t] = {o}]
              /\ UNCHANGED <<list, limit>>
         ELSE Leave({t})
  BY DEF FindsSet
<1>2. UNCHANGED <<flags, chain>> /\ pc[t] = "checking"
  BY DEF FindsSet
<1>3. CASE o \in AutoReset
  <2>1. Types'
    BY <1>1, <1>2, <1>3 DEF IInv, Types, States
  <2>2. Calls'
    BY <1>1, <1>2, <1>3 DEF IInv, Types, Calls
  <2>3. Cells' /\ Chains'
    <3>1. \A i \in Items : On(i)' <=> On(i)
      BY <1>1, <1>2, <1>3, ItemsArePairs DEF On, IInv, Types
    <3> QED  BY <1>2, <3>1, ChainsKept
  <2> QED  BY <2>1, <2>2, <2>3 DEF IInv
<1>4. CASE o \notin AutoReset
  BY <1>1, <1>2, <1>4, LeaveUnblocked
<1> QED  BY <1>3, <1>4

LEMMA UnsetStep ==
    ASSUME IInv, NEW t \in Threads, Unset(t)
    PROVE  IInv'
BY LeaveUnblocked DEF Unset

\* A thread that has found no flag set returns, finds one after all, or blocks.
LEMMA NoneFoundIs ==
    ASSUME NEW t \in Threads, NoneFound(t)
    PROVE  /\ pc[t] = "checking"
           /\ \/ Leave({t}) /\ UNCHANGED <<flags, chain, history>>
              \/ /\ Leave({t}) /\ UNCHANGED chain
                 /\ \E o \in Recheck(t) : /\ flags' = flags \ ({o} \cap AutoReset)
                                         /\ Released({t}, o)
              \/ /\ Recheck(t) = {}
                 /\ chain' = Appended(chain, t, list[t])
                 /\ pc' = [pc EXCEPT ![t] = "blocked"]
                 /\ UNCHANGED <<flags, list, todo, limit, history>>
BY Zenon DEF NoneFound

LEMMA NoneFoundStep ==
    ASSUME IInv, Alone', NEW t \in Threads, NoneFound(t)
    PROVE  IInv'
<1>1. CASE limit[t] = "none" /\ Leave({t}) /\ UNCHANGED <<flags, chain>>
  BY <1>1, LeaveUnblocked DEF NoneFound
<1>2. CASE /\ \E o \in Recheck(t) : flags' = flags \ ({o} \cap AutoReset) /\ Released({t}, o)
           /\ Leave({t}) /\ UNCHANGED chain
  BY <1>2, LeaveUnblocked DEF NoneFound, Recheck
<1>3. CASE /\ Recheck(t) = {}
           /\ chain' = Appended(chain, t, list[t])
           /\ pc' = [pc EXCEPT ![t] = "blocked"]
           /\ UNCHANGED <<flags, list, todo, limit>>
  <2>1. Types'
    BY <1>3 DEF IInv, Types, States
  <2>2. Calls'
    BY <1>3 DEF IInv, Types, Calls, NoneFound
  <2>3. Cells' /\ Chains'
    BY <1>3, ChainsAfterAppending DEF NoneFound
  <2> QED  BY <2>1, <2>2, <2>3 DEF IInv
<1> QED  BY <1>1, <1>2, <1>3 DEF NoneFound

\* A thread leaves wait() that was blocked.
LEMMA LeaveBlocked ==
    ASSUME IInv, Alone, NEW t \in Threads, pc[t] = "blocked", Leave({t}),
           chain' = Removed(chain, t, list[t]), flags' \in SUBSET Objects
    PROVE  IInv'
<1>1. Types'
  BY DEF IInv, Types, Leave, States, Limits
<1>2. Calls'
  <2> SUFFICES ASSUME NEW u \in Threads
               PROVE  /\ pc'[u] = "out" <=> list'[u] = {}
                      /\ todo'[u] \subseteq list'[u]
                      /\ pc'[u] = "seen" => \E o \in AutoReset : todo'[u] = {o}
    BY DEF Calls
  <2>1. CASE u = t
    BY <2>1 DEF Leave
  <2>2. CASE u # t
    <3>1. pc'[u] = pc[u] /\ list'[u] = list[u] /\ todo'[u] = todo[u]
      BY <2>2 DEF Leave
    <3> QED  BY <3>1 DEF IInv, Calls
  <2> QED  BY <2>1, <2>2
<1>4. Cells' /\ Chains'
  BY ChainsAfterRemoval
<1> QED  BY <1>1, <1>2, <1>4 DEF IInv

LEMMA SetStep ==
    ASSUME IInv, Alone, NEW o \in Objects, Set(o)
    PROVE  IInv'
<1>0. /\ flags' = (flags \cup {o}) \ Spent(o, Walk(o).woken)
      /\ chain' = Walk(o).chain
      /\ Leave(Walk(o).woken)
  BY DEF Set
<1>1. CASE \A t \in Threads : ~On(<<t, o>>)
  <2>1. /\ flags' = flags \cup {o} /\ chain' = chain /\ Leave({})
    BY <1>0, <1>1, SetEffect DEF Spent
  <2>2. UNCHANGED <<pc, list, todo, limit>>
    BY <2>1 DEF Leave, IInv, Types
  <2>3. Types' /\ Calls'
    BY <2>1, <2>2 DEF IInv, Types, Calls
  <2>4. Cells' /\ Chains'
    BY <2>1, <2>2, ChainsKept DEF On
  <2> QED  BY <2>3, <2>4 DEF IInv
<1>2. ASSUME NEW t \in Threads, On(<<t, o>>) PROVE IInv'
  <2>1. /\ flags' = (flags \cup {o}) \ ({o} \cap AutoReset)
        /\ chain' = Removed(chain, t, list[t]) /\ Leave({t})
    BY <1>0, <1>2, SetEffect DEF Spent
  <2>2. pc[t] = "blocked"
    BY <1>2 DEF On
  <2>3. flags' \in SUBSET Objects
    BY <2>1 DEF IInv, Types
  <2> QED  BY <2>1, <2>2, <2>3, LeaveBlocked
<1> QED  BY <1>1, <1>2

LEMMA ResetStep ==
    ASSUME IInv, NEW o \in Objects, Reset(o)
    PROVE  IInv'
<1>1. Types' /\ Calls'
  BY DEF IInv, Types, Calls, Reset, calls
<1>2. Cells' /\ Chains'
  BY ChainsKept DEF On, Reset, calls
<1> QED  BY <1>1, <1>2 DEF IInv

LEMMA NextInvariant ==
    ASSUME IInv, Alone, Alone', [Next]_vars
    PROVE  IInv'
<1>1. CASE UNCHANGED vars
  <2>1. UNCHANGED <<flags, chain, pc, list, todo, limit>>
    BY <1>1 DEF vars, calls
  <2> QED  BY <2>1 DEF IInv, Types, Cells, Calls, Chains, On
<1>2. CASE Next
  <2>1. ASSUME NEW t \in Threads, TimeOut(t) PROVE IInv'
    BY <2>1, LeaveBlocked DEF TimeOut, IInv, Types
  <2> QED  BY <1>2, <2>1, WaitCallStep, FindsUnsetStep, FindsSetStep, UnsetStep, NoneFoundStep,
              SetStep, ResetStep DEF Next
<1> QED  BY <1>1, <1>2

-------------------------------------------------------------------------------
(* The theorems. *)

\* The invariant holds, for any threads and objects, of every behaviour in which no two
\* threads are blocked for the same object at a time (waitableobject.cpp:71 leaves the back
\* reference of the item that follows as it was).  They may look at it together.
THEOREM Invariance == Spec /\ []Alone => []IInv
<1>1. Init => IInv
  BY InitInvariant
<1>2. IInv /\ Alone /\ Alone' /\ [Next]_vars => IInv'
  BY NextInvariant
<1> QED  BY <1>1, <1>2, PTL DEF Spec

\* The chain of an object leads to the thread that is blocked for it, and to no other.
\* Of every behaviour in which no two are blocked for the same object.
THEOREM ChainsCorrect == Spec /\ []Alone => []ChainHoldsTheBlocked
<1>1. ASSUME IInv, Alone, NEW o \in Objects
      PROVE  /\ Chained(o) = {<<t, o>> : t \in Blocked(o)}
             /\ chain.last[o] = IF chain.first[o] = NULL THEN o ELSE chain.last[o]
             /\ chain.last[o] \in Items => chain.last[o] \in Chained(o)
                                           /\ chain.next[chain.last[o]] = NULL
  <2>1. CASE \A t \in Threads : ~On(<<t, o>>)
    <3>1. chain.first[o] = NULL /\ chain.last[o] = o
      BY <1>1, <2>1 DEF IInv, Chains
    <3>2. Blocked(o) = {}
      BY <2>1 DEF Blocked, On
    <3>3. Chained(o) = {}
      <4>1. {} \in SUBSET Items /\ chain.first[o] \in {} \cup {NULL}
        BY <3>1
      <4> QED  BY <4>1 DEF Chained
    <3>4. o \notin Items
      BY PlacesAssumption DEF Items
    <3> QED  BY <3>1, <3>2, <3>3, <3>4
  <2>2. ASSUME NEW t \in Threads, On(<<t, o>>)
        PROVE  /\ Chained(o) = {<<u, o>> : u \in Blocked(o)}
               /\ chain.first[o] # NULL
               /\ chain.last[o] \in Chained(o) /\ chain.next[chain.last[o]] = NULL
    <3> DEFINE i == <<t, o>>
    <3>1. i \in Items /\ i[1] = t /\ i[2] = o /\ i # NULL
      BY ItemsArePairs, PlacesAssumption DEF Items
    <3>2. chain.first[o] = i /\ chain.last[o] = i /\ chain.next[i] = NULL
      BY <1>1, <2>2, <3>1 DEF IInv, Chains
    <3>3. Blocked(o) = {t}
      BY <1>1, <2>2, <3>1 DEF Blocked, On, Alone
    <3> HIDE DEF i
    <3>4. Chained(o) = {i}
      <4>1. {i} \in SUBSET Items /\ chain.first[o] \in {i} \cup {NULL}
            /\ \A j \in {i} : chain.next[j] \in {i} \cup {NULL}
        BY <3>1, <3>2
      <4>2. Chained(o) \subseteq {i}
        BY <4>1 DEF Chained
      <4>3. i \in Chained(o)
        BY <3>1, <3>2 DEF Chained
      <4> QED  BY <4>2, <4>3
    <3> QED  BY <3>1, <3>2, <3>3, <3>4 DEF i
  <2> QED  BY <2>1, <2>2
<1>2. IInv /\ Alone => ChainHoldsTheBlocked
  BY <1>1 DEF ChainHoldsTheBlocked
<1> QED  BY <1>2, Invariance, PTL

-------------------------------------------------------------------------------
(* wait() and set() keep the promises of Events. *)

WaitsOf(t) == IF pc[t] = "blocked" THEN list[t] ELSE {}
Waits == [t \in Threads |-> WaitsOf(t)]

LEMMA InitSimulation == Init => Abstract!Init
BY DEF Init, Abstract!Init

\* The abstract state does not change when nobody blocks or is released.
LEMMA WaitsKept ==
    ASSUME \A t \in Threads : WaitsOf(t)' = WaitsOf(t)
    PROVE  Waits' = Waits
BY DEF Waits

\* A thread that is not blocked waits for nothing, and one that leaves neither.
LEMMA WaitsLeft ==
    ASSUME IInv, NEW T \in SUBSET Threads, Leave(T)
    PROVE  \A t \in Threads : WaitsOf(t)' = IF t \in T THEN {} ELSE WaitsOf(t)
BY DEF IInv, Types, Leave, WaitsOf

\* A thread finds an object set, without having waited.
LEMMA FindSimulation ==
    ASSUME IInv, NEW t \in Threads, pc[t] # "blocked", Leave({t}), NEW o \in flags,
           flags' = flags \ ({o} \cap AutoReset)
    PROVE  Abstract!Next
<1>1. Waits' = Waits /\ Waits[t] = {}
  <2>1. WaitsOf(t) = {}
    BY DEF WaitsOf
  <2> QED  BY <2>1, WaitsLeft, WaitsKept DEF Waits
<1>2. flags' = IF o \in AutoReset THEN flags \ {o} ELSE flags \cup {o}
  OBVIOUS
<1>3. Abstract!Find(t, o)
  BY <1>1, <1>2 DEF Abstract!Find, Abstract!Spent, Waits, WaitsOf
<1> QED  BY <1>3 DEF Abstract!Next, IInv, Types

LEMMA StepSimulation ==
    ASSUME IInv, Alone, [Next]_vars
    PROVE  [Abstract!Next]_<<flags, Waits>>
<1>1. CASE UNCHANGED vars
  BY <1>1 DEF vars, calls, Waits, WaitsOf
<1>2. ASSUME NEW t \in Threads, NEW os, NEW lim, WaitCall(t, os, lim)
      PROVE  UNCHANGED <<flags, Waits>>
  <2>1. \A u \in Threads : WaitsOf(u)' = WaitsOf(u)
    BY <1>2 DEF WaitCall, WaitsOf, IInv, Types
  <2> QED  BY <1>2, <2>1, WaitsKept DEF WaitCall
<1>3. ASSUME NEW t \in Threads, FindsUnset(t)
      PROVE  UNCHANGED <<flags, Waits>>
  BY <1>3 DEF FindsUnset, Waits, WaitsOf
<1>4. ASSUME NEW t \in Threads, FindsSet(t)
      PROVE  UNCHANGED <<flags, Waits>>
  <2>1. \A u \in Threads : WaitsOf(u)' = WaitsOf(u)
    <3>1. CASE Leave({t})
      BY <1>4, <3>1, WaitsLeft DEF FindsSet, WaitsOf
    <3>2. CASE pc' = [pc EXCEPT ![t] = "seen"] /\ UNCHANGED list
      BY <1>4, <3>2 DEF FindsSet, WaitsOf, IInv, Types
    <3> QED  BY <1>4, <3>1, <3>2 DEF FindsSet
  <2> QED  BY <1>4, <2>1, WaitsKept DEF FindsSet
<1>5. ASSUME NEW t \in Threads, Unset(t)
      PROVE  [Abstract!Next]_<<flags, Waits>>
  <2>1. PICK o \in AutoReset : todo[t] = {o}
    BY <1>5 DEF Unset, IInv, Calls
  <2>2. CASE o \in flags
    BY <1>5, <2>1, <2>2, FindSimulation DEF Unset
  <2>3. CASE o \notin flags
    <3>1. flags' = flags
      BY <1>5, <2>1, <2>3 DEF Unset, IInv, Types
    <3>2. \A u \in Threads : WaitsOf(u)' = WaitsOf(u)
      BY <1>5, WaitsLeft DEF Unset, WaitsOf
    <3> QED  BY <3>1, <3>2, WaitsKept
  <2> QED  BY <2>2, <2>3
<1>6. ASSUME NEW t \in Threads, NoneFound(t)
      PROVE  [Abstract!Next]_<<flags, Waits>>
  <2>1. CASE limit[t] = "none" /\ Leave({t}) /\ UNCHANGED <<flags, chain>>
    <3>1. \A u \in Threads : WaitsOf(u)' = WaitsOf(u)
      BY <1>6, <2>1, WaitsLeft DEF NoneFound, WaitsOf
    <3> QED  BY <2>1, <3>1, WaitsKept
  <2>2. CASE /\ \E o \in Recheck(t) : flags' = flags \ ({o} \cap AutoReset) /\ Released({t}, o)
             /\ Leave({t}) /\ UNCHANGED chain
    BY <1>6, <2>2, FindSimulation DEF NoneFound, Recheck
  <2>3. CASE /\ Recheck(t) = {}
             /\ chain' = Appended(chain, t, list[t])
             /\ pc' = [pc EXCEPT ![t] = "blocked"]
             /\ UNCHANGED <<flags, list, todo, limit>>
    <3>1. Waits' = [Waits EXCEPT ![t] = list[t]] /\ Waits[t] = {}
      BY <1>6, <2>3 DEF NoneFound, Waits, WaitsOf, IInv, Types
    <3>2. PICK os \in SUBSET Objects : os = list[t]
      BY DEF IInv, Types
    <3>3. Abstract!Block(t, os)
      <4>1. os \cap flags = {} /\ flags' = flags
        BY <2>3, <3>2 DEF Recheck
      <4> QED  BY <3>1, <3>2, <4>1 DEF Abstract!Block, Waits, WaitsOf
    <3>4. \E u \in Threads, r \in SUBSET Objects : Abstract!Block(u, r)
      BY <3>3
    <3>5. Abstract!Next
      BY <3>4, Zenon DEF Abstract!Next
    <3> QED  BY <3>5
  <2> QED  BY <1>6, <2>1, <2>2, <2>3 DEF NoneFound
<1>7. ASSUME NEW t \in Threads, TimeOut(t)
      PROVE  Abstract!Next
  <2>1. Waits' = [Waits EXCEPT ![t] = {}]
    BY <1>7, WaitsLeft DEF TimeOut, Waits
  <2>2. Abstract!TimeOut(t)
    BY <1>7, <2>1 DEF Abstract!TimeOut, TimeOut, Waits, WaitsOf
  <2> QED  BY <2>2 DEF Abstract!Next
<1>8. ASSUME NEW o \in Objects, Set(o)
      PROVE  Abstract!Next
  <2>0. /\ flags' = (flags \cup {o}) \ Spent(o, Walk(o).woken)
        /\ Leave(Walk(o).woken)
    BY <1>8 DEF Set
  <2>1. Abstract!Waiters(o) = {t \in Threads : On(<<t, o>>)}
    BY DEF Abstract!Waiters, On
  <2>2. CASE \A t \in Threads : ~On(<<t, o>>)
    <3>1. flags' = flags \cup {o} /\ Leave({})
      BY <2>0, <2>2, SetEffect DEF Spent
    <3>2. Waits' = Waits
      BY <3>1, WaitsLeft, WaitsKept
    <3>3. Abstract!Set(o)
      BY <2>1, <2>2, <3>1, <3>2 DEF Abstract!Set, Waits, WaitsOf
    <3> QED  BY <3>3 DEF Abstract!Next
  <2>3. ASSUME NEW t \in Threads, On(<<t, o>>)
        PROVE  Abstract!Next
    <3>1. flags' = (flags \cup {o}) \ ({o} \cap AutoReset) /\ Leave({t})
      BY <2>0, <2>3, SetEffect DEF Spent
    <3>2. Abstract!Waiters(o) = {t}
      BY <2>1, <2>3 DEF On, Alone
    <3>3. Waits' = [u \in Threads |-> IF u \in {t} THEN {} ELSE Waits[u]]
      BY <3>1, WaitsLeft DEF Waits
    <3>4. flags' = IF o \in AutoReset THEN flags \ {o} ELSE flags \cup {o}
      BY <3>1
    <3>5. flags' = Abstract!Spent(o)
      BY <3>4 DEF Abstract!Spent
    <3>6. Abstract!Release(o, {t})
      <4>1. [u \in Threads |-> IF pc[u] = "blocked" THEN list[u] ELSE {}]'
              = [u \in Threads |-> IF u \in {t} THEN {} ELSE
                    [v \in Threads |-> IF pc[v] = "blocked" THEN list[v] ELSE {}][u]]
        BY <3>3 DEF Waits, WaitsOf
      <4> QED  BY <3>2, <3>5, <4>1 DEF Abstract!Release
    <3>7. Abstract!Set(o)
      BY <3>2, <3>6 DEF Abstract!Set
    <3> QED  BY <3>7 DEF Abstract!Next
  <2> QED  BY <2>2, <2>3
<1>9. ASSUME NEW o \in Objects, Reset(o)
      PROVE  Abstract!Next
  <2>1. Abstract!Reset(o)
    BY <1>9 DEF Reset, calls, Abstract!Reset
  <2> QED  BY <2>1 DEF Abstract!Next
<1> QED  BY <1>1, <1>2, <1>3, <1>4, <1>5, <1>6, <1>7, <1>8, <1>9 DEF Next

\* What threads and objects do is what Events promises, for any threads and objects, of
\* every behaviour in which no two threads are blocked for the same object at a time.
THEOREM Refinement == Spec /\ []Alone => ImplementsEvents
<1>1. IInv /\ Alone /\ [Next]_vars => [Abstract!Next]_<<flags, Waits>>
  BY StepSimulation
<1> QED  BY <1>1, InitSimulation, Invariance, PTL
         DEF Spec, ImplementsEvents, Abstract!Spec, Abstract!vars, Waits, WaitsOf

-------------------------------------------------------------------------------
(* One set, one release. *)

\* An object that is set has released nobody since, nor has one that a thread has seen,
\* unless the thread is late.
Once ==
    /\ releases \in [Objects -> Nat]
    /\ \A o \in AutoReset : releases[o] <= 1 /\ (o \in flags => releases[o] = 0)
    /\ \A t \in Threads :
          pc[t] = "seen" => \E o \in AutoReset : todo[t] = {o} /\ (t \in late \/ releases[o] = 0)

\* A thread is released by an object that has released nobody, or is late; others that
\* have seen it set are late then.
LEMMA ReleaseOnce ==
    ASSUME Once, NEW t \in Threads, NEW o \in Objects, Leave({t}), Released({t}, o),
           t \in late \/ o \notin AutoReset \/ releases[o] = 0, flags' = flags \ ({o} \cap AutoReset)
    PROVE  Once'
<1>1. releases' \in [Objects -> Nat]
  BY DEF Once, Released
<1>2. \A q \in AutoReset : releases'[q] <= 1 /\ (q \in flags' => releases'[q] = 0)
  BY KindsAssumption DEF Once, Released
<1>3. ASSUME NEW u \in Threads, pc'[u] = "seen"
      PROVE  \E q \in AutoReset : todo'[u] = {q} /\ (u \in late' \/ releases'[q] = 0)
  <2>1. u # t /\ pc[u] = "seen" /\ todo'[u] = todo[u]
    BY <1>3 DEF Leave
  <2>2. PICK q \in AutoReset : todo[u] = {q} /\ (u \in late \/ releases[q] = 0)
    BY <2>1 DEF Once
  <2>3. CASE q = o
    BY <2>1, <2>2, <2>3 DEF Released, Seen
  <2>4. CASE q # o
    BY <2>1, <2>2, <2>4, KindsAssumption DEF Released, Once
  <2> QED  BY <2>3, <2>4
<1> QED  BY <1>1, <1>2, <1>3 DEF Once

\* Threads that are somewhere else by now do not matter.
LEMMA StillOnce ==
    ASSUME Once, UNCHANGED <<releases, late>>, flags' \subseteq flags,
           \A u \in Threads : pc'[u] = "seen" => pc[u] = "seen" /\ todo'[u] = todo[u]
    PROVE  Once'
<1>1. \A u \in Threads : pc'[u] = "seen" =>
         \E q \in AutoReset : todo'[u] = {q} /\ (u \in late' \/ releases'[q] = 0)
  BY DEF Once
<1> QED  BY <1>1 DEF Once

LEMMA OnceStep ==
    ASSUME Types, Once, [Next]_vars
    PROVE  Once'
<1>1. CASE UNCHANGED vars
  BY <1>1, StillOnce DEF vars, calls, history
<1>2. ASSUME NEW t \in Threads, NEW os \in SUBSET Objects, NEW lim, WaitCall(t, os, lim) PROVE Once'
  <2>1. \A u \in Threads : pc'[u] = "seen" => pc[u] = "seen" /\ todo'[u] = todo[u]
    BY <1>2 DEF WaitCall, Types
  <2> QED  BY <1>2, <2>1, StillOnce DEF WaitCall, history
<1>3. ASSUME NEW t \in Threads, FindsUnset(t) PROVE Once'
  <2>1. \A u \in Threads : pc'[u] = "seen" => pc[u] = "seen" /\ todo'[u] = todo[u]
    BY <1>3 DEF FindsUnset, Types
  <2> QED  BY <1>3, <2>1, StillOnce DEF FindsUnset, history
<1>4. ASSUME NEW t \in Threads, FindsSet(t) PROVE Once'
  <2>1. PICK o \in todo[t] \cap flags :
           IF o \in AutoReset
           THEN /\ pc' = [pc EXCEPT ![t] = "seen"]
                /\ todo' = [todo EXCEPT ![t] = {o}]
                /\ UNCHANGED <<list, limit>>
           ELSE Leave({t})
    BY <1>4 DEF FindsSet
  <2>2. UNCHANGED <<flags, releases, late>>
    BY <1>4 DEF FindsSet, history
  <2>3. CASE o \in AutoReset
    <3>1. \A u \in Threads : pc'[u] = "seen" =>
             \E q \in AutoReset : todo'[u] = {q} /\ (u \in late' \/ releases'[q] = 0)
      BY <2>1, <2>2, <2>3 DEF Once, Types
    <3> QED  BY <2>2, <3>1 DEF Once
  <2>4. CASE o \notin AutoReset
    <3>1. \A u \in Threads : pc'[u] = "seen" => pc[u] = "seen" /\ todo'[u] = todo[u]
      BY <2>1, <2>4 DEF Leave
    <3> QED  BY <2>2, <3>1, StillOnce
  <2> QED  BY <2>3, <2>4
<1>5. ASSUME NEW t \in Threads, Unset(t) PROVE Once'
  <2>1. PICK o \in AutoReset : todo[t] = {o} /\ (t \in late \/ releases[o] = 0)
    BY <1>5 DEF Unset, Once
  <2>2. o \in Objects /\ flags' = flags \ ({o} \cap AutoReset) /\ Leave({t}) /\ Released({t}, o)
    BY <1>5, <2>1, KindsAssumption DEF Unset
  <2> QED  BY <2>1, <2>2, ReleaseOnce
<1>6. ASSUME NEW t \in Threads, NoneFound(t) PROVE Once'
  <2>1. CASE limit[t] = "none" /\ Leave({t}) /\ UNCHANGED <<flags, chain, history>>
    <3>1. \A u \in Threads : pc'[u] = "seen" => pc[u] = "seen" /\ todo'[u] = todo[u]
      BY <2>1 DEF Leave
    <3> QED  BY <2>1, <3>1, StillOnce DEF history
  <2>2. ASSUME NEW o \in Recheck(t), flags' = flags \ ({o} \cap AutoReset), Released({t}, o), Leave({t})
        PROVE  Once'
    <3>1. o \in flags /\ o \in Objects
      BY <2>2 DEF Recheck, Types
    <3>2. o \notin AutoReset \/ releases[o] = 0
      BY <3>1 DEF Once
    <3> QED  BY <2>2, <3>1, <3>2, ReleaseOnce
  <2>3. CASE pc' = [pc EXCEPT ![t] = "blocked"] /\ UNCHANGED <<flags, list, todo, limit, history>>
    <3>1. \A u \in Threads : pc'[u] = "seen" => pc[u] = "seen" /\ todo'[u] = todo[u]
      BY <2>3 DEF Types
    <3> QED  BY <2>3, <3>1, StillOnce DEF history
  <2> QED  BY <1>6, <2>1, <2>2, <2>3 DEF NoneFound
<1>7. ASSUME NEW t \in Threads, TimeOut(t) PROVE Once'
  <2>1. \A u \in Threads : pc'[u] = "seen" => pc[u] = "seen" /\ todo'[u] = todo[u]
    BY <1>7 DEF TimeOut, Leave
  <2> QED  BY <1>7, <2>1, StillOnce DEF TimeOut, history
<1>8. ASSUME NEW o \in Objects, Set(o) PROVE Once'
  <2>1. PICK T : T = Walk(o).woken
    OBVIOUS
  <2>2. /\ flags' = (flags \cup {o}) \ (IF T = {} THEN {} ELSE {o} \cap AutoReset)
        /\ Leave(T)
        /\ releases' = [releases EXCEPT ![o] = IF T = {} THEN 0 ELSE 1]
        /\ late' = IF T = {} THEN late ELSE late \cup Seen(o)
    BY <1>8, <2>1 DEF Set, Spent
  <2>3. releases' \in [Objects -> Nat]
    BY <2>2 DEF Once
  <2>4. \A q \in AutoReset : releases'[q] <= 1 /\ (q \in flags' => releases'[q] = 0)
    BY <2>2, KindsAssumption DEF Once
  <2>5. ASSUME NEW u \in Threads, pc'[u] = "seen"
        PROVE  \E q \in AutoReset : todo'[u] = {q} /\ (u \in late' \/ releases'[q] = 0)
    <3>1. pc[u] = "seen" /\ todo'[u] = todo[u]
      BY <2>2, <2>5 DEF Leave
    <3>2. PICK q \in AutoReset : todo[u] = {q} /\ (u \in late \/ releases[q] = 0)
      BY <3>1 DEF Once
    <3>3. CASE q = o
      BY <2>2, <3>1, <3>2, <3>3, KindsAssumption DEF Once, Seen
    <3>4. CASE q # o
      BY <2>2, <3>1, <3>2, <3>4, KindsAssumption DEF Once
    <3> QED  BY <3>3, <3>4
  <2> QED  BY <2>3, <2>4, <2>5 DEF Once
<1>9. ASSUME NEW o \in Objects, Reset(o) PROVE Once'
  BY <1>9, StillOnce DEF Reset, calls, history
<1> QED  BY <1>1, <1>2, <1>3, <1>4, <1>5, <1>6, <1>7, <1>8, <1>9 DEF Next

LEMMA TypesStep ==
    ASSUME Types, [Next]_vars
    PROVE  Types'
<1>1. CASE UNCHANGED vars
  BY <1>1 DEF vars, calls, Types
<1>2. ASSUME NEW T, Leave(T), flags' \in SUBSET Objects PROVE Types'
  BY <1>2 DEF Types, Leave, States, Limits
<1>3. ASSUME NEW t \in Threads, NEW os \in SUBSET Objects, NEW lim \in Limits, WaitCall(t, os, lim) PROVE Types'
  BY <1>3 DEF WaitCall, Types, States
<1>4. ASSUME NEW t \in Threads, FindsUnset(t) PROVE Types'
  BY <1>4 DEF FindsUnset, Types
<1>5. ASSUME NEW t \in Threads, FindsSet(t) PROVE Types'
  BY <1>2, <1>5 DEF FindsSet, Types, States
<1>6. ASSUME NEW t \in Threads, Unset(t) PROVE Types'
  BY <1>2, <1>6 DEF Unset, Types
<1>7. ASSUME NEW t \in Threads, NoneFound(t) PROVE Types'
  <2>1. CASE Leave({t}) /\ UNCHANGED flags
    BY <1>2, <2>1 DEF Types
  <2>2. CASE Leave({t}) /\ \E o \in Recheck(t) : flags' = flags \ ({o} \cap AutoReset) /\ Released({t}, o)
    BY <1>2, <2>2 DEF Types
  <2>3. CASE pc' = [pc EXCEPT ![t] = "blocked"] /\ UNCHANGED <<flags, list, todo, limit, history>>
    BY <2>3 DEF Types, States
  <2> QED  BY <1>7, <2>1, <2>2, <2>3 DEF NoneFound
<1>8. ASSUME NEW t \in Threads, TimeOut(t) PROVE Types'
  BY <1>2, <1>8 DEF TimeOut, Types
<1>9. ASSUME NEW o \in Objects, Set(o) PROVE Types'
  <2>1. flags' \in SUBSET Objects
    BY <1>9 DEF Set, Types
  <2> QED  BY <1>2, <1>9, <2>1 DEF Set
<1>10. ASSUME NEW o \in Objects, Reset(o) PROVE Types'
  BY <1>10 DEF Reset, calls, Types
<1> QED  BY <1>1, <1>3, <1>4, <1>5, <1>6, <1>7, <1>8, <1>9, <1>10 DEF Next

\* One set of an event that resets itself releases threads once, for any threads, objects
\* and chains, however many look at the same event: apart from those that have seen it set
\* when another is released, which is what reading and resetting it apart allows
\* (waitableobject.cpp:88).
THEOREM OneSetOneRelease == Spec => []OneReleasePerSet
<1>1. Init => Types /\ Once
  BY KindsAssumption DEF Init, Types, Once, States, Limits
<1>2. Types /\ Once /\ [Next]_vars => (Types /\ Once)'
  BY OnceStep, TypesStep
<1>3. Once => OneReleasePerSet
  BY DEF Once, OneReleasePerSet
<1> QED  BY <1>1, <1>2, <1>3, PTL DEF Spec
===============================================================================
