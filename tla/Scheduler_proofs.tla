--------------------------- MODULE Scheduler_proofs ---------------------------
(***************************************************************************)
(* Proofs about Scheduler: until a tick is served while the interrupted    *)
(* thread is on its ring no more, flags and rings agree and the processor  *)
(* runs a thread of the highest ring, for any number of threads and any    *)
(* priorities, whatever the ticks.                                         *)
(*                                                                         *)
(* The argument is about rings first: leaving a ring, joining at its end   *)
(* and joining before a lonely root turn a ring of S into a ring of S with *)
(* one thread less or more, and do not touch the other rings.  The         *)
(* invariant then follows the flags through every step.                    *)
(***************************************************************************)
EXTENDS Scheduler, TLAPS

Links == [next : [Threads -> Threads \cup {NULL}],
          prev : [Threads -> Threads \cup {NULL}],
          root : [Rings -> Threads \cup {NULL}]]

\* The rings of L hold the threads A says.
AllRings(L, A) ==
    /\ A \in [Rings -> SUBSET Threads]
    /\ \A p, q \in Rings : p # q => A[p] \cap A[q] = {}
    /\ \A q \in Rings : IsRing(L, q, A[q])

-------------------------------------------------------------------------------
(* Lemmas about one ring. *)

\* The links and the root are all that makes a ring.
LEMMA SameRing ==
    ASSUME NEW L, NEW M, NEW q, NEW S,
           IsRing(L, q, S), M.root[q] = L.root[q],
           \A t \in S : M.next[t] = L.next[t] /\ M.prev[t] = L.prev[t]
    PROVE  IsRing(M, q, S)
<1>1. CASE S = {}
  BY <1>1 DEF IsRing
<1>2. CASE S # {}
  <2>1. M.root[q] \in S
    BY <1>2 DEF IsRing
  <2>2. \A t \in S : /\ M.next[t] \in S /\ M.prev[t] \in S
                     /\ M.prev[M.next[t]] = t /\ M.next[M.prev[t]] = t
    BY <1>2 DEF IsRing
  <2>3. ASSUME NEW C \in SUBSET S, C # {}, \A t \in C : M.next[t] \in C
        PROVE  C = S
    <3>1. \A t \in C : L.next[t] \in C
      BY <2>3
    <3> QED  BY <1>2, <2>3, <3>1 DEF IsRing
  <2> QED  BY <1>2, <2>1, <2>2, <2>3 DEF IsRing
<1> QED  BY <1>1, <1>2

\* A thread whose next is itself is all of its ring.
LEMMA LonelyRing ==
    ASSUME NEW L, NEW q, NEW S, IsRing(L, q, S), NEW t \in S, L.next[t] = t
    PROVE  S = {t}
<1>1. {t} \in SUBSET S /\ {t} # {} /\ \A u \in {t} : L.next[u] \in {t}
  OBVIOUS
<1> QED  BY <1>1 DEF IsRing

\* What leaving a ring writes.
LEMMA UnlinkWrites ==
    ASSUME NEW L \in Links, NEW q \in Rings, NEW S \in SUBSET Threads,
           IsRing(L, q, S), NEW t \in S, L.next[t] # t
    PROVE  LET M == Unlink(L, t, q) IN
           /\ M \in Links
           /\ M.root = [L.root EXCEPT ![q] = IF @ = t THEN L.next[t] ELSE @]
           /\ M.next = [L.next EXCEPT ![L.prev[t]] = L.next[t]]
           /\ M.prev = [L.prev EXCEPT ![L.next[t]] = L.prev[t]]
<1>1. L.next[t] \in S /\ L.prev[t] \in S /\ L.next[t] # NULL
  BY ThreadsAssumption DEF IsRing
<1> QED  BY <1>1 DEF Unlink, Links

\* Leaving a ring.
LEMMA UnlinkRing ==
    ASSUME NEW L \in Links, NEW q \in Rings, NEW S \in SUBSET Threads,
           IsRing(L, q, S), NEW t \in S
    PROVE  /\ Unlink(L, t, q) \in Links
           /\ IsRing(Unlink(L, t, q), q, S \ {t})
           /\ \A p \in Rings \ {q} : Unlink(L, t, q).root[p] = L.root[p]
           /\ \A u \in Threads \ S : /\ Unlink(L, t, q).next[u] = L.next[u]
                                     /\ Unlink(L, t, q).prev[u] = L.prev[u]
<1> DEFINE M == Unlink(L, t, q)
<1>1. CASE L.next[t] = t
  <2>1. S = {t}
    BY <1>1, LonelyRing
  <2>2. M = [L EXCEPT !.root[q] = NULL]
    BY <1>1, ThreadsAssumption DEF Unlink
  <2> QED  BY <2>1, <2>2 DEF Links, IsRing
<1>2. CASE L.next[t] # t
  <2> DEFINE n == L.next[t]
             p == L.prev[t]
  <2>1. /\ n \in S /\ p \in S /\ n # t /\ p # t
        /\ L.prev[n] = t /\ L.next[p] = t
    BY <1>2 DEF IsRing
  <2>2. /\ M \in Links
        /\ M.root = [L.root EXCEPT ![q] = IF @ = t THEN n ELSE @]
        /\ M.next = [L.next EXCEPT ![p] = n]
        /\ M.prev = [L.prev EXCEPT ![n] = p]
    BY <1>2, UnlinkWrites
  <2> HIDE DEF M
  <2>3. /\ M.root[q] = IF L.root[q] = t THEN n ELSE L.root[q]
        /\ \A r \in Rings \ {q} : M.root[r] = L.root[r]
        /\ M.next[p] = n /\ \A u \in Threads \ {p} : M.next[u] = L.next[u]
        /\ M.prev[n] = p /\ \A u \in Threads \ {n} : M.prev[u] = L.prev[u]
    BY <2>1, <2>2 DEF Links
  <2>4. M.root[q] \in S \ {t}
    BY <2>1, <2>3 DEF IsRing
  <2>5. ASSUME NEW u \in S \ {t}
        PROVE  /\ M.next[u] \in S \ {t} /\ M.prev[u] \in S \ {t}
               /\ M.prev[M.next[u]] = u /\ M.next[M.prev[u]] = u
    <3>1. /\ L.next[u] \in S /\ L.prev[u] \in S
          /\ L.prev[L.next[u]] = u /\ L.next[L.prev[u]] = u
      BY DEF IsRing
    <3>2. L.next[u] = t => u = p
      BY <3>1
    <3>3. L.prev[u] = t => u = n
      BY <3>1
    <3>4. L.next[u] = n => u = t
      BY <2>1, <3>1
    <3>5. L.prev[u] = p => u = t
      BY <2>1, <3>1
    <3> QED  BY <2>1, <2>3, <3>1, <3>2, <3>3, <3>4, <3>5
  <2>6. ASSUME NEW C \in SUBSET (S \ {t}), C # {}, \A u \in C : M.next[u] \in C
        PROVE  C = S \ {t}
    <3>1. CASE p \in C
      <4>1. n \in C
        BY <2>3, <2>6, <3>1
      <4>2. \A u \in C \cup {t} : L.next[u] \in C \cup {t}
        BY <2>1, <2>3, <2>6, <4>1
      <4>3. C \cup {t} \in SUBSET S /\ C \cup {t} # {}
        OBVIOUS
      <4>4. C \cup {t} = S
        BY <4>2, <4>3 DEF IsRing
      <4> QED  BY <4>4
    <3>2. CASE p \notin C
      <4>1. \A u \in C : L.next[u] \in C
        BY <2>3, <2>6, <3>2
      <4>2. C = S
        BY <2>6, <4>1 DEF IsRing
      <4> QED  BY <2>1, <3>2, <4>2
    <3> QED  BY <3>1, <3>2
  <2>7. IsRing(M, q, S \ {t})
    BY <2>1, <2>4, <2>5, <2>6 DEF IsRing
  <2>8. \A u \in Threads \ S : M.next[u] = L.next[u] /\ M.prev[u] = L.prev[u]
    BY <2>1, <2>3
  <2> QED  BY <2>2, <2>3, <2>7, <2>8 DEF M
<1> QED  BY <1>1, <1>2

\* Joining a ring at its end.
LEMMA AppendRing ==
    ASSUME NEW L \in Links, NEW q \in Rings, NEW S \in SUBSET Threads,
           IsRing(L, q, S), NEW t \in Threads \ S
    PROVE  /\ AppendTo(L, t, q) \in Links
           /\ IsRing(AppendTo(L, t, q), q, S \cup {t})
           /\ \A p \in Rings \ {q} : AppendTo(L, t, q).root[p] = L.root[p]
           /\ \A u \in Threads \ (S \cup {t}) :
                 /\ AppendTo(L, t, q).next[u] = L.next[u]
                 /\ AppendTo(L, t, q).prev[u] = L.prev[u]
<1> DEFINE M == AppendTo(L, t, q)
           r == L.root[q]
           e == L.prev[r]
<1>1. CASE r = NULL
  <2>1. S = {}
    BY <1>1, ThreadsAssumption DEF IsRing
  <2>2. /\ M \in Links /\ M.root = [L.root EXCEPT ![q] = t]
        /\ M.next = [L.next EXCEPT ![t] = t] /\ M.prev = [L.prev EXCEPT ![t] = t]
    BY <1>1 DEF AppendTo, Links
  <2> HIDE DEF M
  <2>3. M.root[q] = t /\ M.next[t] = t /\ M.prev[t] = t
    BY <2>2 DEF Links
  <2>4. IsRing(M, q, {t})
    BY <2>3 DEF IsRing
  <2>5. /\ \A p \in Rings \ {q} : M.root[p] = L.root[p]
        /\ \A u \in Threads \ {t} : M.next[u] = L.next[u] /\ M.prev[u] = L.prev[u]
    BY <2>2 DEF Links
  <2> QED  BY <2>1, <2>2, <2>4, <2>5 DEF M
<1>2. CASE r # NULL
  <2>1. r \in S /\ e \in S /\ L.next[e] = r /\ r # t /\ e # t
    BY <1>2 DEF IsRing
  <2>2. /\ M \in Links /\ M.root = L.root
        /\ M.next = [L.next EXCEPT ![t] = r, ![e] = t]
        /\ M.prev = [L.prev EXCEPT ![t] = e, ![r] = t]
    BY <1>2, <2>1 DEF AppendTo, Links
  <2> HIDE DEF M
  <2>3. /\ M.next[t] = r /\ M.next[e] = t
        /\ \A u \in Threads \ {t, e} : M.next[u] = L.next[u]
        /\ M.prev[t] = e /\ M.prev[r] = t
        /\ \A u \in Threads \ {t, r} : M.prev[u] = L.prev[u]
    BY <2>1, <2>2 DEF Links
  <2>4. M.root[q] \in S \cup {t}
    BY <2>1, <2>2
  <2>5. ASSUME NEW u \in S \cup {t}
        PROVE  /\ M.next[u] \in S \cup {t} /\ M.prev[u] \in S \cup {t}
               /\ M.prev[M.next[u]] = u /\ M.next[M.prev[u]] = u
    <3>1. CASE u = t
      BY <2>1, <2>3, <3>1
    <3>2. CASE u # t
      <4>1. /\ u \in S /\ L.next[u] \in S /\ L.prev[u] \in S
            /\ L.prev[L.next[u]] = u /\ L.next[L.prev[u]] = u
        BY <3>2 DEF IsRing
      <4>2. L.next[u] = r => u = e
        BY <4>1
      <4>3. L.prev[u] = e => u = r
        BY <2>1, <4>1
      <4> QED  BY <2>1, <2>3, <4>1, <4>2, <4>3, <3>2
    <3> QED  BY <3>1, <3>2
  <2>6. ASSUME NEW C \in SUBSET (S \cup {t}), C # {}, \A u \in C : M.next[u] \in C
        PROVE  C = S \cup {t}
    <3>1. C \ {t} \in SUBSET S /\ C \ {t} # {}
      BY <2>1, <2>3, <2>6
    <3>2. ASSUME NEW u \in C \ {t} PROVE L.next[u] \in C \ {t}
      <4>1. u \in S /\ L.next[u] \in S
        BY <3>1 DEF IsRing
      <4>2. CASE u = e
        BY <2>1, <2>3, <2>6, <4>2
      <4>3. CASE u # e
        BY <2>3, <2>6, <4>1, <4>3
      <4> QED  BY <4>2, <4>3
    <3>3. C \ {t} = S
      BY <3>1, <3>2, <2>1 DEF IsRing
    <3>4. t \in C
      BY <2>1, <2>3, <2>6, <3>3
    <3> QED  BY <3>3, <3>4
  <2>7. IsRing(M, q, S \cup {t})
    BY <2>4, <2>5, <2>6 DEF IsRing
  <2>8. \A u \in Threads \ (S \cup {t}) :
           M.next[u] = L.next[u] /\ M.prev[u] = L.prev[u]
    BY <2>1, <2>3
  <2> QED  BY <2>2, <2>7, <2>8 DEF M
<1> QED  BY <1>1, <1>2

\* Joining before a lonely root.
LEMMA FrontRing ==
    ASSUME NEW L \in Links, NEW q \in Rings, NEW S \in SUBSET Threads,
           IsRing(L, q, S), NEW t \in Threads \ S, Alone(L, q)
    PROVE  /\ PutOnFront(L, t, q) \in Links
           /\ IsRing(PutOnFront(L, t, q), q, S \cup {t})
           /\ \A p \in Rings \ {q} : PutOnFront(L, t, q).root[p] = L.root[p]
           /\ \A u \in Threads \ (S \cup {t}) :
                 /\ PutOnFront(L, t, q).next[u] = L.next[u]
                 /\ PutOnFront(L, t, q).prev[u] = L.prev[u]
<1> DEFINE M == PutOnFront(L, t, q)
           r == L.root[q]
<1>1. r \in S /\ r # t /\ L.next[r] = r
  BY DEF Alone, IsRing
<1>2. S = {r}
  BY <1>1, LonelyRing
<1>3. /\ M \in Links /\ M.root = [L.root EXCEPT ![q] = t]
      /\ M.next = [L.next EXCEPT ![t] = r, ![r] = t]
      /\ M.prev = [L.prev EXCEPT ![t] = r, ![r] = t]
  BY <1>1 DEF PutOnFront, Links
<1> HIDE DEF M
<1>4. /\ M.root[q] = t /\ \A p \in Rings \ {q} : M.root[p] = L.root[p]
      /\ M.next[t] = r /\ M.next[r] = t /\ M.prev[t] = r /\ M.prev[r] = t
      /\ \A u \in Threads \ {r, t} : M.next[u] = L.next[u] /\ M.prev[u] = L.prev[u]
  BY <1>1, <1>3 DEF Links
<1>5. \A C \in SUBSET {r, t} : C # {} /\ (\A u \in C : M.next[u] \in C) => C = {r, t}
  BY <1>1, <1>4
<1>6. IsRing(M, q, {r, t})
  BY <1>1, <1>4, <1>5 DEF IsRing
<1>7. S \cup {t} = {r, t}
  BY <1>2
<1> QED  BY <1>2, <1>3, <1>4, <1>6, <1>7 DEF M

\* Joining a ring as setThreadRunningRaw does it.
LEMMA EnqueueRing ==
    ASSUME NEW L \in Links, NEW q \in Rings, NEW S \in SUBSET Threads,
           IsRing(L, q, S), NEW t \in Threads \ S
    PROVE  /\ Enqueue(L, t, q) \in Links
           /\ IsRing(Enqueue(L, t, q), q, S \cup {t})
           /\ \A p \in Rings \ {q} : Enqueue(L, t, q).root[p] = L.root[p]
           /\ \A u \in Threads \ (S \cup {t}) :
                 /\ Enqueue(L, t, q).next[u] = L.next[u]
                 /\ Enqueue(L, t, q).prev[u] = L.prev[u]
<1>1. CASE Alone(L, q)
  <2>1. Enqueue(L, t, q) = PutOnFront(L, t, q)
    BY <1>1 DEF Enqueue
  <2> QED  BY <1>1, <2>1, FrontRing
<1>2. CASE ~Alone(L, q)
  <2>1. Enqueue(L, t, q) = AppendTo(L, t, q)
    BY <1>2 DEF Enqueue
  <2> QED  BY <2>1, AppendRing
<1> QED  BY <1>1, <1>2

-------------------------------------------------------------------------------
(* Lemmas about all rings. *)

\* What changes one ring and keeps the links outside of it and the other roots
\* keeps the other rings.
LEMMA OtherRings ==
    ASSUME NEW L \in Links, NEW M \in Links, NEW A, AllRings(L, A),
           NEW q \in Rings, NEW T \in SUBSET Threads,
           \A p \in Rings \ {q} : A[p] \cap T = {},
           \A p \in Rings \ {q} : M.root[p] = L.root[p],
           \A u \in Threads \ T : M.next[u] = L.next[u] /\ M.prev[u] = L.prev[u]
    PROVE  \A p \in Rings \ {q} : IsRing(M, p, A[p])
<1> SUFFICES ASSUME NEW p \in Rings \ {q}
             PROVE  IsRing(M, p, A[p])
  OBVIOUS
<1>1. IsRing(L, p, A[p]) /\ A[p] \in SUBSET Threads /\ A[p] \cap T = {}
  BY DEF AllRings
<1>2. \A u \in A[p] : M.next[u] = L.next[u] /\ M.prev[u] = L.prev[u]
  BY <1>1
<1> QED  BY <1>1, <1>2, SameRing

LEMMA UnlinkAll ==
    ASSUME NEW L \in Links, NEW A, AllRings(L, A), NEW q \in Rings, NEW t \in A[q]
    PROVE  /\ Unlink(L, t, q) \in Links
           /\ AllRings(Unlink(L, t, q), [A EXCEPT ![q] = @ \ {t}])
           /\ \A u \in Threads \ A[q] : /\ Unlink(L, t, q).next[u] = L.next[u]
                                        /\ Unlink(L, t, q).prev[u] = L.prev[u]
<1> DEFINE M == Unlink(L, t, q)
           B == [A EXCEPT ![q] = @ \ {t}]
<1>1. A \in [Rings -> SUBSET Threads] /\ A[q] \in SUBSET Threads /\ IsRing(L, q, A[q])
  BY DEF AllRings
<1>2. /\ M \in Links
      /\ IsRing(M, q, A[q] \ {t})
      /\ \A p \in Rings \ {q} : M.root[p] = L.root[p]
      /\ \A u \in Threads \ A[q] : M.next[u] = L.next[u] /\ M.prev[u] = L.prev[u]
  BY <1>1, UnlinkRing
<1> HIDE DEF M
<1>3. \A p \in Rings \ {q} : A[p] \cap A[q] = {}
  BY DEF AllRings
<1>4. \A p \in Rings \ {q} : IsRing(M, p, A[p])
  BY <1>1, <1>2, <1>3, OtherRings
<1>5. /\ B \in [Rings -> SUBSET Threads]
      /\ B[q] = A[q] \ {t} /\ \A p \in Rings \ {q} : B[p] = A[p]
  BY <1>1
<1> HIDE DEF B
<1>6. AllRings(M, B)
  BY <1>2, <1>4, <1>5 DEF AllRings
<1> QED  BY <1>2, <1>6 DEF M, B

LEMMA AppendAll ==
    ASSUME NEW L \in Links, NEW A, AllRings(L, A), NEW q \in Rings,
           NEW t \in Threads, \A p \in Rings : t \notin A[p]
    PROVE  /\ AppendTo(L, t, q) \in Links
           /\ AllRings(AppendTo(L, t, q), [A EXCEPT ![q] = @ \cup {t}])
           /\ \A u \in Threads \ (A[q] \cup {t}) :
                 /\ AppendTo(L, t, q).next[u] = L.next[u]
                 /\ AppendTo(L, t, q).prev[u] = L.prev[u]
<1> DEFINE M == AppendTo(L, t, q)
           B == [A EXCEPT ![q] = @ \cup {t}]
<1>1. A \in [Rings -> SUBSET Threads] /\ A[q] \in SUBSET Threads /\ IsRing(L, q, A[q])
  BY DEF AllRings
<1>2. /\ M \in Links
      /\ IsRing(M, q, A[q] \cup {t})
      /\ \A p \in Rings \ {q} : M.root[p] = L.root[p]
      /\ \A u \in Threads \ (A[q] \cup {t}) :
            M.next[u] = L.next[u] /\ M.prev[u] = L.prev[u]
  BY <1>1, AppendRing
<1> HIDE DEF M
<1>3. \A p \in Rings \ {q} : A[p] \cap (A[q] \cup {t}) = {}
  BY DEF AllRings
<1>4. \A p \in Rings \ {q} : IsRing(M, p, A[p])
  BY <1>1, <1>2, <1>3, OtherRings
<1>5. /\ B \in [Rings -> SUBSET Threads]
      /\ B[q] = A[q] \cup {t} /\ \A p \in Rings \ {q} : B[p] = A[p]
  BY <1>1
<1> HIDE DEF B
<1>6. \A p, o \in Rings : p # o => B[p] \cap B[o] = {}
  BY <1>3, <1>5 DEF AllRings
<1>7. AllRings(M, B)
  BY <1>2, <1>4, <1>5, <1>6 DEF AllRings
<1> QED  BY <1>2, <1>7 DEF M, B

LEMMA EnqueueAll ==
    ASSUME NEW L \in Links, NEW A, AllRings(L, A), NEW q \in Rings,
           NEW t \in Threads, \A p \in Rings : t \notin A[p]
    PROVE  /\ Enqueue(L, t, q) \in Links
           /\ AllRings(Enqueue(L, t, q), [A EXCEPT ![q] = @ \cup {t}])
           /\ \A u \in Threads \ (A[q] \cup {t}) :
                 /\ Enqueue(L, t, q).next[u] = L.next[u]
                 /\ Enqueue(L, t, q).prev[u] = L.prev[u]
<1> DEFINE M == Enqueue(L, t, q)
           B == [A EXCEPT ![q] = @ \cup {t}]
<1>1. A \in [Rings -> SUBSET Threads] /\ A[q] \in SUBSET Threads /\ IsRing(L, q, A[q])
  BY DEF AllRings
<1>2. /\ M \in Links
      /\ IsRing(M, q, A[q] \cup {t})
      /\ \A p \in Rings \ {q} : M.root[p] = L.root[p]
      /\ \A u \in Threads \ (A[q] \cup {t}) :
            M.next[u] = L.next[u] /\ M.prev[u] = L.prev[u]
  BY <1>1, EnqueueRing
<1> HIDE DEF M
<1>3. \A p \in Rings \ {q} : A[p] \cap (A[q] \cup {t}) = {}
  BY DEF AllRings
<1>4. \A p \in Rings \ {q} : IsRing(M, p, A[p])
  BY <1>1, <1>2, <1>3, OtherRings
<1>5. /\ B \in [Rings -> SUBSET Threads]
      /\ B[q] = A[q] \cup {t} /\ \A p \in Rings \ {q} : B[p] = A[p]
  BY <1>1
<1> HIDE DEF B
<1>6. \A p, o \in Rings : p # o => B[p] \cap B[o] = {}
  BY <1>3, <1>5 DEF AllRings
<1>7. AllRings(M, B)
  BY <1>2, <1>4, <1>5, <1>6 DEF AllRings
<1> QED  BY <1>2, <1>7 DEF M, B

\* The links of threads on no ring stay as they are.
Outside(L, M, A, t) ==
    \A u \in Threads \ {t} : (\A q \in Rings : u \notin A[q]) =>
       M.next[u] = L.next[u] /\ M.prev[u] = L.prev[u]

\* setThreadRunningRaw on the rings: from the waiting ring, or from none.
LEMMA MadeRunningRings ==
    ASSUME NEW L \in Links, NEW A, AllRings(L, A), NEW t \in Threads,
           \/ t \in A[Waiting]
           \/ L.next[t] = NULL /\ \A q \in Rings : t \notin A[q]
    PROVE  /\ MadeRunning(L, t) \in Links
           /\ AllRings(MadeRunning(L, t),
                       [A EXCEPT ![Waiting] = @ \ {t}, ![Queue(t)] = @ \cup {t}])
           /\ Outside(L, MadeRunning(L, t), A, t)
<1> DEFINE M == Unlink(L, t, Waiting)
           B == [A EXCEPT ![Waiting] = @ \ {t}]
<1>1. Queue(t) \in Rings /\ Waiting \in Rings /\ Queue(t) # Waiting
  BY DEF Queue, Rings, Waiting
<1>2. A \in [Rings -> SUBSET Threads]
  BY DEF AllRings
<1>3. M \in Links /\ AllRings(M, B) /\ Outside(L, M, A, t)
  <2>1. CASE t \in A[Waiting]
    BY <1>1, <2>1, UnlinkAll DEF Outside
  <2>2. CASE L.next[t] = NULL /\ \A q \in Rings : t \notin A[q]
    <3>1. M = L
      BY <2>2 DEF Unlink
    <3>2. B = A
      BY <1>1, <1>2, <2>2
    <3> QED  BY <3>1, <3>2 DEF Outside
  <2> QED  BY <2>1, <2>2
<1>4. \A q \in Rings : t \notin B[q]
  BY <1>1, <1>2 DEF AllRings
<1>5. B \in [Rings -> SUBSET Threads] /\ \A q \in Rings : B[q] \subseteq A[q]
  BY <1>2
<1> HIDE DEF M, B
<1>6. /\ Enqueue(M, t, Queue(t)) \in Links
      /\ AllRings(Enqueue(M, t, Queue(t)), [B EXCEPT ![Queue(t)] = @ \cup {t}])
      /\ \A u \in Threads \ (B[Queue(t)] \cup {t}) :
            /\ Enqueue(M, t, Queue(t)).next[u] = M.next[u]
            /\ Enqueue(M, t, Queue(t)).prev[u] = M.prev[u]
  BY <1>1, <1>3, <1>4, EnqueueAll
<1>7. Outside(L, Enqueue(M, t, Queue(t)), A, t)
  BY <1>1, <1>3, <1>5, <1>6 DEF Outside
<1>8. [B EXCEPT ![Queue(t)] = @ \cup {t}]
        = [A EXCEPT ![Waiting] = @ \ {t}, ![Queue(t)] = @ \cup {t}]
  BY <1>1, <1>2 DEF B
<1>9. MadeRunning(L, t) = Enqueue(M, t, Queue(t))
  BY DEF MadeRunning, M
<1> QED  BY <1>6, <1>7, <1>8, <1>9

\* setThreadWaiting on the rings.
LEMMA WaitRings ==
    ASSUME NEW L \in Links, NEW A, AllRings(L, A), NEW t \in Threads,
           t \in A[Queue(t)]
    PROVE  LET M == AppendTo(Unlink(L, t, Queue(t)), t, Waiting) IN
           /\ M \in Links
           /\ AllRings(M, [A EXCEPT ![Queue(t)] = @ \ {t}, ![Waiting] = @ \cup {t}])
           /\ Outside(L, M, A, t)
<1> DEFINE M == Unlink(L, t, Queue(t))
           B == [A EXCEPT ![Queue(t)] = @ \ {t}]
           N == AppendTo(M, t, Waiting)
<1>1. Queue(t) \in Rings /\ Waiting \in Rings /\ Queue(t) # Waiting
  BY DEF Queue, Rings, Waiting
<1>2. A \in [Rings -> SUBSET Threads]
  BY DEF AllRings
<1>3. M \in Links /\ AllRings(M, B) /\ Outside(L, M, A, t)
  BY <1>1, UnlinkAll DEF Outside
<1>4. \A q \in Rings : t \notin B[q]
  BY <1>1, <1>2 DEF AllRings
<1>5. B \in [Rings -> SUBSET Threads] /\ \A q \in Rings : B[q] \subseteq A[q]
  BY <1>2
<1> HIDE DEF M, B
<1>6. /\ N \in Links
      /\ AllRings(N, [B EXCEPT ![Waiting] = @ \cup {t}])
      /\ \A u \in Threads \ (B[Waiting] \cup {t}) :
            N.next[u] = M.next[u] /\ N.prev[u] = M.prev[u]
  BY <1>1, <1>3, <1>4, AppendAll
<1> HIDE DEF N
<1>7. Outside(L, N, A, t)
  BY <1>1, <1>3, <1>5, <1>6 DEF Outside
<1>8. [B EXCEPT ![Waiting] = @ \cup {t}]
        = [A EXCEPT ![Queue(t)] = @ \ {t}, ![Waiting] = @ \cup {t}]
  BY <1>1, <1>2 DEF B
<1> QED  BY <1>6, <1>7, <1>8 DEF M, N

\* removeThread on the rings.
LEMMA RemovedRings ==
    ASSUME NEW L \in Links, NEW A, AllRings(L, A), NEW t \in Threads,
           t \in A[Queue(t)]
    PROVE  /\ Removed(L, t) \in Links
           /\ AllRings(Removed(L, t), [A EXCEPT ![Queue(t)] = @ \ {t}])
           /\ Outside(L, Removed(L, t), A, t)
           /\ Removed(L, t).next[t] = NULL /\ Removed(L, t).prev[t] = NULL
<1> DEFINE M == Unlink(L, t, Queue(t))
           B == [A EXCEPT ![Queue(t)] = @ \ {t}]
           N == [M EXCEPT !.next[t] = NULL, !.prev[t] = NULL]
<1>1. Queue(t) \in Rings
  BY DEF Queue, Rings
<1>2. A \in [Rings -> SUBSET Threads]
  BY DEF AllRings
<1>3. M \in Links /\ AllRings(M, B) /\ Outside(L, M, A, t)
  BY <1>1, UnlinkAll DEF Outside
<1>4. \A q \in Rings : t \notin B[q]
  BY <1>1, <1>2 DEF AllRings
<1> HIDE DEF M, B
<1>5. /\ N \in Links /\ N.root = M.root
      /\ N.next[t] = NULL /\ N.prev[t] = NULL
      /\ \A u \in Threads \ {t} : N.next[u] = M.next[u] /\ N.prev[u] = M.prev[u]
  BY <1>3 DEF Links
<1> HIDE DEF N
<1>6. ASSUME NEW q \in Rings PROVE IsRing(N, q, B[q])
  <2>1. IsRing(M, q, B[q]) /\ B[q] \in SUBSET Threads
    BY <1>3 DEF AllRings
  <2>2. \A u \in B[q] : N.next[u] = M.next[u] /\ N.prev[u] = M.prev[u]
    BY <1>4, <1>5, <2>1
  <2> QED  BY <1>5, <2>1, <2>2, SameRing
<1>7. AllRings(N, B)
  BY <1>3, <1>6 DEF AllRings
<1>8. Outside(L, N, A, t)
  BY <1>3, <1>5 DEF Outside
<1>9. Removed(L, t) = N
  BY DEF Removed, M, N
<1> QED  BY <1>5, <1>7, <1>8, <1>9 DEF B

\* The choice of the next thread.
LEMMA ChosenThread ==
    ASSUME NEW L, NEW A, AllRings(L, A)
    PROVE  /\ A[1] # {} => ThreadToRun(L) \in A[1]
           /\ A[1] = {} /\ A[0] # {} => ThreadToRun(L) \in A[0]
           /\ A[1] = {} /\ A[0] = {} => ThreadToRun(L) = NULL
<1>1. \A q \in {0, 1} : /\ A[q] # {} => L.root[q] \in A[q] /\ L.root[q] # NULL
                        /\ A[q] = {} => L.root[q] = NULL
  BY ThreadsAssumption DEF AllRings, IsRing, Rings
<1> QED  BY <1>1 DEF ThreadToRun

\* Another root of the same ring.
LEMMA Reroot ==
    ASSUME NEW L \in Links, NEW A, AllRings(L, A), NEW q \in Rings, NEW r \in A[q]
    PROVE  /\ [L EXCEPT !.root[q] = r] \in Links
           /\ AllRings([L EXCEPT !.root[q] = r], A)
<1> DEFINE M == [L EXCEPT !.root[q] = r]
<1>1. /\ M \in Links /\ M.next = L.next /\ M.prev = L.prev
      /\ M.root[q] = r /\ \A p \in Rings \ {q} : M.root[p] = L.root[p]
  BY DEF Links, AllRings
<1> HIDE DEF M
<1>2. ASSUME NEW p \in Rings PROVE IsRing(M, p, A[p])
  <2>1. IsRing(L, p, A[p])
    BY DEF AllRings
  <2>2. CASE p # q
    BY <1>1, <2>1, <2>2, SameRing
  <2>3. CASE p = q
    BY <1>1, <2>1, <2>3 DEF IsRing
  <2> QED  BY <2>2, <2>3
<1>3. AllRings(M, A)
  BY <1>2 DEF AllRings
<1> QED  BY <1>1, <1>3 DEF M

-------------------------------------------------------------------------------
(* The invariant. *)

Held == [q \in Rings |-> Members(q)]

Kinds ==
    /\ links \in Links
    /\ running \in SUBSET Threads /\ started \in SUBSET Threads
    /\ dead \in SUBSET Threads
    /\ running \subseteq started /\ dead \subseteq started /\ running \cap dead = {}
    /\ current \in Threads \cup {NULL}

\* What two of the properties say, until a tick strays.
LooseUnlinked ==
    \A t \in Threads \ (started \ dead) : links.next[t] = NULL /\ links.prev[t] = NULL

RightRuns ==
    ~needsReschedule /\ current \notin owing =>
       IF running = {} THEN current = NULL
       ELSE /\ current \in running
            /\ \A t \in running : Queue(t) <= Queue(current)

IInv == /\ Kinds
        /\ AllRings(links, Held)
        /\ LooseUnlinked
        /\ RightRuns

\* The members of the rings, ring by ring.
LEMMA HeldIs ==
    /\ Held = [q \in Rings |-> IF q = Waiting THEN started \ (running \cup dead)
                               ELSE {t \in running : Queue(t) = q}]
    /\ Held[0] = {t \in running : Queue(t) = 0}
    /\ Held[1] = {t \in running : Queue(t) = 1}
    /\ Held[Waiting] = started \ (running \cup dead)
BY DEF Held, Members, Rings, Waiting

\* The thread chosen after a switch is right.
LEMMA SwitchIsRight ==
    AllRings(links, Held) /\ Kinds /\ current = ThreadToRun(links)
       => RightRuns
<1> SUFFICES ASSUME AllRings(links, Held), Kinds, current = ThreadToRun(links)
             PROVE  RightRuns
  OBVIOUS
<1>1. \A t \in running : Queue(t) \in {0, 1}
  BY DEF Queue
<1>2. /\ Held[1] # {} => current \in Held[1]
      /\ Held[1] = {} /\ Held[0] # {} => current \in Held[0]
      /\ Held[1] = {} /\ Held[0] = {} => current = NULL
  BY ChosenThread
<1>3. /\ Held[0] = {t \in running : Queue(t) = 0}
      /\ Held[1] = {t \in running : Queue(t) = 1}
  BY HeldIs
<1>4. running = {} => current = NULL
  BY <1>2, <1>3
<1>5. ASSUME running # {}
      PROVE  current \in running /\ \A t \in running : Queue(t) <= Queue(current)
  <2>1. CASE Held[1] # {}
    BY <1>1, <1>2, <1>3, <2>1
  <2>2. CASE Held[1] = {}
    <3>1. \A t \in running : Queue(t) = 0
      BY <1>1, <1>3, <2>2
    <3>2. current \in Held[0]
      BY <1>2, <1>3, <1>5, <2>2, <3>1
    <3> QED  BY <1>3, <3>1, <3>2
  <2> QED  BY <2>1, <2>2
<1> QED  BY <1>4, <1>5 DEF RightRuns

LEMMA InitInvariant == Init => IInv
<1> SUFFICES ASSUME Init PROVE IInv
  OBVIOUS
<1>1. PICK b \in Threads :
         /\ links = [next |-> [t \in Threads |-> IF t = b THEN b ELSE NULL],
                     prev |-> [t \in Threads |-> IF t = b THEN b ELSE NULL],
                     root |-> [q \in Rings |-> IF q = Queue(b) THEN b ELSE NULL]]
         /\ running = {b} /\ started = {b} /\ dead = {}
  BY DEF Init
<1>2. Kinds
  BY <1>1 DEF Init, Kinds, Links
<1>3. /\ links.next[b] = b /\ links.prev[b] = b
      /\ \A q \in Rings : links.root[q] = IF q = Queue(b) THEN b ELSE NULL
      /\ \A t \in Threads \ {b} : links.next[t] = NULL /\ links.prev[t] = NULL
  BY <1>1
<1>4. /\ Held \in [Rings -> SUBSET Threads]
      /\ \A q \in Rings : Held[q] = IF q = Queue(b) THEN {b} ELSE {}
  BY <1>1 DEF Held, Members, Rings, Queue, Waiting
<1>5. \A q \in Rings : IsRing(links, q, Held[q])
  <2> SUFFICES ASSUME NEW q \in Rings PROVE IsRing(links, q, Held[q])
    OBVIOUS
  <2>1. CASE q = Queue(b)
    BY <1>3, <1>4, <2>1 DEF IsRing
  <2>2. CASE q # Queue(b)
    BY <1>3, <1>4, <2>2 DEF IsRing
  <2> QED  BY <2>1, <2>2
<1>6. AllRings(links, Held)
  BY <1>4, <1>5 DEF AllRings
<1>7. LooseUnlinked /\ RightRuns
  BY <1>1, <1>3 DEF Init, LooseUnlinked, RightRuns
<1> QED  BY <1>2, <1>6, <1>7 DEF IInv

\* setThreadRunningRaw keeps the rings and the flags in step.
LEMMA RunRawStep ==
    ASSUME IInv, NEW u \in Idle, RunRaw(links, u), dead' = dead,
           current' \in Threads \cup {NULL}
    PROVE  Kinds' /\ AllRings(links, Held)' /\ LooseUnlinked'
<1>1. /\ u \in Threads /\ links \in Links /\ AllRings(links, Held) /\ u \notin running
      /\ u \notin dead /\ Queue(u) \in {0, 1}
  BY DEF IInv, Kinds, Idle, Queue
<1>2. \/ u \in Held[Waiting]
      \/ links.next[u] = NULL /\ \A q \in Rings : u \notin Held[q]
  <2>1. CASE u \in started
    BY <1>1, <2>1, HeldIs
  <2>2. CASE u \notin started
    BY <1>1, <2>2, HeldIs DEF IInv, Kinds, LooseUnlinked, Rings, Waiting
  <2> QED  BY <2>1, <2>2
<1>3. /\ links' \in Links
      /\ AllRings(links', [Held EXCEPT ![Waiting] = @ \ {u}, ![Queue(u)] = @ \cup {u}])
      /\ Outside(links, links', Held, u)
  BY <1>1, <1>2, MadeRunningRings DEF RunRaw
<1>4. running' = running \cup {u} /\ started' = started \cup {u} /\ dead' = dead
  BY DEF RunRaw
<1>5. Kinds'
  BY <1>1, <1>3, <1>4 DEF IInv, Kinds
<1>6. Held' = [Held EXCEPT ![Waiting] = @ \ {u}, ![Queue(u)] = @ \cup {u}]
  <2>1. Members(Waiting)' = Held[Waiting] \ {u}
    BY <1>1, <1>4, HeldIs DEF IInv, Kinds, Members
  <2>2. ASSUME NEW q \in {0, 1}
        PROVE  Members(q)' = IF q = Queue(u) THEN Held[q] \cup {u} ELSE Held[q]
    <3>1. Held[q] = {x \in running : Queue(x) = q}
      BY HeldIs
    <3>2. Members(q)' = {x \in running' : Queue(x) = q}
      BY DEF Members, Waiting
    <3> QED  BY <1>1, <1>4, <3>1, <3>2
  <2>3. Held' = [q \in Rings |-> Members(q)'] /\ Held \in [Rings -> SUBSET Threads]
    BY DEF Held, AllRings, IInv
  <2> QED  BY <1>1, <2>1, <2>2, <2>3 DEF Rings, Waiting
<1>7. LooseUnlinked'
  <2> SUFFICES ASSUME NEW t \in Threads \ (started' \ dead')
               PROVE  links'.next[t] = NULL /\ links'.prev[t] = NULL
    BY DEF LooseUnlinked
  <2>1. t # u /\ t \in Threads \ (started \ dead)
    BY <1>1, <1>4
  <2>2. \A q \in Rings : t \notin Held[q]
    BY <2>1, HeldIs DEF IInv, Kinds, Rings, Waiting
  <2> QED  BY <1>3, <2>1, <2>2 DEF Outside, IInv, LooseUnlinked
<1> QED  BY <1>3, <1>5, <1>6, <1>7

\* The end of a turn of the dispatcher.
LEMMA SwitchStep ==
    ASSUME NEW wanted \in BOOLEAN, NEW L, SwitchIf(wanted, L), links' = L,
           AllRings(links, Held)', L \in Links, current \in Threads \cup {NULL}
    PROVE  /\ current' \in Threads \cup {NULL}
           /\ \/ current' = ThreadToRun(L)
              \/ current' = current /\ needsReschedule' = wanted
<1>1. ThreadToRun(L) \in Threads \cup {NULL}
  BY DEF Links, ThreadToRun, Rings
<1> QED  BY <1>1 DEF SwitchIf

-------------------------------------------------------------------------------
(* Every step keeps the invariant. *)

\* What the invariant says of a thread in its own code.
LEMMA RunningThread ==
    ASSUME IInv, NEW t \in Threads, Runs(t)
    PROVE  /\ Queue(t) \in {0, 1} /\ t \in Held[Queue(t)]
           /\ links \in Links /\ AllRings(links, Held)
           /\ Held \in [Rings -> SUBSET Threads]
BY HeldIs DEF IInv, Kinds, Runs, Queue, AllRings

LEMMA MakeRunStep ==
    ASSUME IInv, NEW t \in Threads, NEW u \in Threads, MakeRun(t, u)
    PROVE  IInv'
<1>1. Kinds' /\ AllRings(links, Held)' /\ LooseUnlinked'
  BY RunRawStep DEF MakeRun, IInv, Kinds, cpuVars
<1>2. RightRuns'
  BY DEF MakeRun, RunRaw, Runs, IInv, RightRuns, cpuVars, timerVars
<1> QED  BY <1>1, <1>2 DEF IInv

LEMMA WaitStep ==
    ASSUME IInv, NEW t \in Threads, Wait(t)
    PROVE  IInv'
<1>1. /\ Queue(t) \in {0, 1} /\ t \in Held[Queue(t)]
      /\ links \in Links /\ AllRings(links, Held)
      /\ Held \in [Rings -> SUBSET Threads]
  BY RunningThread DEF Wait
<1>2. /\ links' \in Links
      /\ AllRings(links', [Held EXCEPT ![Queue(t)] = @ \ {t}, ![Waiting] = @ \cup {t}])
      /\ Outside(links, links', Held, t)
  BY <1>1, WaitRings DEF Wait
<1>3. /\ running' = running \ {t} /\ started' = started /\ dead' = dead
      /\ current' = current /\ current = t /\ t \in running /\ owing' = owing \cup {t}
  BY DEF Wait, Runs, cpuVars, timerVars, IInv, Kinds
<1>4. Kinds' /\ RightRuns'
  BY <1>2, <1>3 DEF IInv, Kinds, RightRuns
<1>5. Held' = [Held EXCEPT ![Queue(t)] = @ \ {t}, ![Waiting] = @ \cup {t}]
  <2>1. Members(Waiting)' = Held[Waiting] \cup {t}
    BY <1>1, <1>3, HeldIs DEF IInv, Kinds, Members
  <2>2. ASSUME NEW q \in {0, 1}
        PROVE  Members(q)' = IF q = Queue(t) THEN Held[q] \ {t} ELSE Held[q]
    <3>1. Held[q] = {x \in running : Queue(x) = q}
      BY HeldIs
    <3>2. Members(q)' = {x \in running' : Queue(x) = q}
      BY DEF Members, Waiting
    <3> QED  BY <1>1, <1>3, <3>1, <3>2
  <2>3. Held' = [q \in Rings |-> Members(q)']
    BY DEF Held
  <2> QED  BY <1>1, <2>1, <2>2, <2>3 DEF Rings, Waiting
<1>6. LooseUnlinked'
  <2> SUFFICES ASSUME NEW u \in Threads \ (started \ dead)
               PROVE  links'.next[u] = NULL /\ links'.prev[u] = NULL
    BY <1>3 DEF LooseUnlinked
  <2>1. u # t /\ \A q \in Rings : u \notin Held[q]
    BY <1>3, HeldIs DEF IInv, Kinds, Rings, Waiting
  <2> QED  BY <1>2, <2>1 DEF Outside, IInv, LooseUnlinked
<1> QED  BY <1>2, <1>4, <1>5, <1>6 DEF IInv

LEMMA YieldStep ==
    ASSUME IInv, NEW t \in Threads, Yield(t)
    PROVE  IInv'
<1>1. /\ Queue(t) \in Rings /\ t \in Held[Queue(t)]
      /\ links \in Links /\ AllRings(links, Held)
  BY RunningThread DEF Yield, Rings
<1>2. links.next[t] \in Held[Queue(t)]
  BY <1>1 DEF AllRings, IsRing
<1>3. links' \in Links /\ AllRings(links', Held)
  BY <1>1, <1>2, Reroot DEF Yield
<1>4. Held' = Held
  BY DEF Yield, Held, Members
<1>5. links'.next = links.next /\ links'.prev = links.prev
  BY <1>1 DEF Yield, Links
<1>6. Kinds' /\ LooseUnlinked'
  BY <1>3, <1>5 DEF IInv, Kinds, LooseUnlinked, Yield, cpuVars
<1>7. RightRuns'
  BY DEF Yield, Runs, IInv, RightRuns, cpuVars, timerVars
<1> QED  BY <1>3, <1>4, <1>6, <1>7 DEF IInv

\* The rings after a thread has died.
LEMMA DeadRings ==
    ASSUME IInv, NEW t \in Threads, Remove(t)
    PROVE  LET L == Removed(links, t)
               A == [Held EXCEPT ![Queue(t)] = @ \ {t}]
           IN  /\ L \in Links
               /\ AllRings(L, A)
               /\ Outside(links, L, Held, t)
               /\ L.next[t] = NULL /\ L.prev[t] = NULL
               /\ \A q \in Rings : A[q] \subseteq Held[q] /\ t \notin A[q]
               /\ A[Waiting] = Held[Waiting]
<1>1. /\ Queue(t) \in {0, 1} /\ t \in Held[Queue(t)]
      /\ links \in Links /\ AllRings(links, Held)
      /\ Held \in [Rings -> SUBSET Threads]
  BY RunningThread DEF Remove
<1>2. \A q \in Rings : q # Queue(t) => t \notin Held[q]
  BY <1>1 DEF AllRings, Rings
<1> DEFINE A == [Held EXCEPT ![Queue(t)] = @ \ {t}]
<1>3. \A q \in Rings : A[q] \subseteq Held[q] /\ t \notin A[q]
  BY <1>1, <1>2
<1>4. A[Waiting] = Held[Waiting]
  BY <1>1 DEF Rings, Waiting
<1>5. /\ Removed(links, t) \in Links
      /\ AllRings(Removed(links, t), A)
      /\ Outside(links, Removed(links, t), Held, t)
      /\ Removed(links, t).next[t] = NULL /\ Removed(links, t).prev[t] = NULL
  BY <1>1, RemovedRings
<1> QED  BY <1>3, <1>4, <1>5

LEMMA RemoveStep ==
    ASSUME IInv, NEW t \in Threads, Remove(t)
    PROVE  IInv'
<1> DEFINE L == Removed(links, t)
           A == [Held EXCEPT ![Queue(t)] = @ \ {t}]
<1>1. /\ L \in Links /\ AllRings(L, A) /\ Outside(links, L, Held, t)
      /\ L.next[t] = NULL /\ L.prev[t] = NULL
      /\ \A q \in Rings : A[q] \subseteq Held[q] /\ t \notin A[q]
      /\ A[Waiting] = Held[Waiting]
  BY DeadRings
<1>2. /\ t \in running /\ t \in started /\ t \notin dead /\ Queue(t) \in {0, 1}
      /\ Held \in [Rings -> SUBSET Threads]
      /\ current = t /\ current' = current /\ owing' = owing \cup {t}
      /\ dead' = dead \cup {t} /\ started' = started
  BY DEF Remove, Runs, Queue, IInv, Kinds, cpuVars, timerVars, AllRings
<1>3. A[0] = {x \in running \ {t} : Queue(x) = 0}
  BY <1>2, HeldIs DEF Rings
<1>4. A[1] = {x \in running \ {t} : Queue(x) = 1}
  BY <1>2, HeldIs DEF Rings
<1>5. A[Waiting] = started \ (running \cup dead) /\ A \in [Rings -> SUBSET Threads]
  BY <1>1, <1>2, HeldIs DEF Rings
<1> HIDE DEF L, A
<1>6. RightRuns'
  BY <1>2 DEF RightRuns
<1>7. ASSUME links' = L, running' = running \ {t}
      PROVE  IInv'
  <2>1. Kinds'
    BY <1>1, <1>2, <1>7 DEF IInv, Kinds
  <2>2. A = Held'
    BY <1>2, <1>3, <1>4, <1>5, <1>7 DEF IInv, Kinds, Held, Members, Rings, Waiting
  <2>3. LooseUnlinked'
    <3> SUFFICES ASSUME NEW u \in Threads \ (started' \ dead')
                 PROVE  links'.next[u] = NULL /\ links'.prev[u] = NULL
      BY DEF LooseUnlinked
    <3>1. CASE u = t
      BY <1>1, <1>7, <3>1
    <3>2. CASE u # t
      <4>1. u \in Threads \ (started \ dead)
        BY <1>2, <3>2
      <4>2. \A q \in Rings : u \notin Held[q]
        BY <4>1, HeldIs DEF IInv, Kinds, Rings, Waiting
      <4> QED  BY <1>1, <1>7, <3>2, <4>1, <4>2 DEF Outside, IInv, LooseUnlinked
    <3> QED  BY <3>1, <3>2
  <2> QED  BY <1>1, <1>6, <1>7, <2>1, <2>2, <2>3 DEF IInv
<1>8. ASSUME NEW u \in Idle \cap started, links' = MadeRunning(L, u),
             running' = (running \ {t}) \cup {u}
      PROVE  IInv'
  <2>1. u \in Threads /\ u \in A[Waiting] /\ u # t /\ Queue(u) \in {0, 1}
    BY <1>1, <1>2, <1>5 DEF Idle, Queue
  <2>2. /\ links' \in Links
        /\ AllRings(links', [A EXCEPT ![Waiting] = @ \ {u}, ![Queue(u)] = @ \cup {u}])
        /\ Outside(L, links', A, u)
    BY <1>1, <1>8, <2>1, MadeRunningRings
  <2>3. Kinds'
    BY <1>2, <1>8, <2>1, <2>2 DEF IInv, Kinds, Idle
  <2>4. Held' = [A EXCEPT ![Waiting] = @ \ {u}, ![Queue(u)] = @ \cup {u}]
    <3>1. Members(Waiting)' = A[Waiting] \ {u}
      BY <1>2, <1>5, <1>8, <2>1 DEF IInv, Kinds, Members
    <3>2. Members(0)' = IF Queue(u) = 0 THEN A[0] \cup {u} ELSE A[0]
      <4>1. Members(0)' = {x \in running' : Queue(x) = 0}
        BY DEF Members, Waiting
      <4> QED  BY <1>3, <1>8, <4>1
    <3>3. Members(1)' = IF Queue(u) = 1 THEN A[1] \cup {u} ELSE A[1]
      <4>1. Members(1)' = {x \in running' : Queue(x) = 1}
        BY DEF Members, Waiting
      <4> QED  BY <1>4, <1>8, <4>1
    <3>4. Held' = [q \in Rings |-> Members(q)']
      BY DEF Held
    <3> QED  BY <1>5, <2>1, <3>1, <3>2, <3>3, <3>4 DEF Rings, Waiting
  <2>5. LooseUnlinked'
    <3> SUFFICES ASSUME NEW x \in Threads \ (started' \ dead')
                 PROVE  links'.next[x] = NULL /\ links'.prev[x] = NULL
      BY DEF LooseUnlinked
    <3>1. x # u /\ \A q \in Rings : x \notin A[q]
      <4>1. x # u
        BY <1>2, <2>1, <1>8 DEF Idle
      <4>2. CASE x = t
        BY <1>1, <4>1, <4>2
      <4>3. CASE x # t
        <5>1. \A q \in Rings : x \notin Held[q]
          BY <1>2, <4>3, HeldIs DEF IInv, Kinds, Rings, Waiting
        <5> QED  BY <1>1, <4>1, <5>1
      <4> QED  BY <4>2, <4>3
    <3>2. L.next[x] = NULL /\ L.prev[x] = NULL
      <4>1. CASE x = t
        BY <1>1, <4>1
      <4>2. CASE x # t
        <5>1. x \in Threads \ (started \ dead) /\ \A q \in Rings : x \notin Held[q]
          BY <1>2, <4>2, HeldIs DEF IInv, Kinds, Rings, Waiting
        <5> QED  BY <1>1, <4>2, <5>1 DEF Outside, IInv, LooseUnlinked
      <4> QED  BY <4>1, <4>2
    <3> QED  BY <2>2, <3>1, <3>2 DEF Outside
  <2> QED  BY <1>6, <2>2, <2>3, <2>4, <2>5 DEF IInv
<1> QED  BY <1>7, <1>8 DEF Remove, L

\* The steps that leave the rings alone.
LEMMA OtherStep ==
    ASSUME IInv, UNCHANGED <<links, running, started, dead>>,
           current' = current,
           needsReschedule' \/ (UNCHANGED needsReschedule /\ owing' = owing)
    PROVE  IInv'
<1>a. Held' = Held /\ links' = links
  BY DEF Held, Members
<1>b. AllRings(links', Held')
  BY <1>a DEF IInv
<1>1. Kinds' /\ AllRings(links, Held)' /\ LooseUnlinked'
  BY <1>b DEF IInv, Kinds, LooseUnlinked
<1>3. RightRuns'
  BY DEF IInv, RightRuns
<1> QED  BY <1>1, <1>3 DEF IInv

\* After a turn of the dispatcher that ends with the rings in order.
LEMMA AfterTurn ==
    ASSUME Kinds', AllRings(links, Held)', LooseUnlinked',
           \/ current' = ThreadToRun(links')
           \/ RightRuns'
    PROVE  IInv'
<1>1. (AllRings(links, Held) /\ Kinds /\ current = ThreadToRun(links)
         => RightRuns)'
  BY SwitchIsRight, PTL
<1> QED  BY <1>1 DEF IInv

LEMMA ServeTickStep ==
    ASSUME IInv, ServeTick, ~strayed'
    PROVE  IInv'
<1>1. links' \in Links /\ AllRings(links', Held)
      /\ links'.next = links.next /\ links'.prev = links.prev
  <2>1. CASE current = NULL
    BY <2>1 DEF ServeTick, Rotated, IInv, Kinds
  <2>2. CASE current # NULL
    <3>1. /\ current \in running /\ Queue(current) \in Rings
          /\ current \in Held[Queue(current)]
          /\ links \in Links /\ AllRings(links, Held)
      BY <2>2, HeldIs DEF ServeTick, IInv, Kinds, Queue, Rings
    <3>2. links.next[current] \in Held[Queue(current)]
      BY <3>1 DEF AllRings, IsRing
    <3>3. links' = [links EXCEPT !.root[Queue(current)] = links.next[current]]
      BY <2>2 DEF ServeTick, Rotated
    <3> QED  BY <3>1, <3>2, <3>3, Reroot DEF Links
  <2> QED  BY <2>1, <2>2
<1>2. Held' = Held
  BY DEF ServeTick, Held, Members
<1>3. AllRings(links, Held)'
  BY <1>1, <1>2
<1>4. /\ current' \in Threads \cup {NULL}
      /\ \/ current' = ThreadToRun(links')
         \/ /\ current' = current
            /\ needsReschedule' = (needsReschedule \/ current # NULL)
  BY <1>1, <1>3, SwitchStep DEF ServeTick, IInv, Kinds
<1>5. Kinds' /\ LooseUnlinked'
  BY <1>1, <1>4 DEF ServeTick, IInv, Kinds, LooseUnlinked
<1>6. CASE current' = current /\ needsReschedule' = (needsReschedule \/ current # NULL)
  BY <1>3, <1>5, <1>6, AfterTurn DEF ServeTick, IInv, RightRuns
<1> QED  BY <1>3, <1>4, <1>5, <1>6, AfterTurn

LEMMA ServeWakeupStep ==
    ASSUME IInv, NEW u \in Threads, ServeWakeup(u)
    PROVE  IInv'
<1>1. u \in Idle /\ RunRaw(links, u) /\ dead' = dead /\ SwitchIf(TRUE, links')
      /\ owing' = owing /\ fired' = fired /\ running \subseteq running'
  BY DEF ServeWakeup, RunRaw
<1>2. links \in Links /\ current \in Threads \cup {NULL} /\ links' \in Links
  <2>1. links \in Links /\ AllRings(links, Held) /\ u \in Held[Waiting]
    BY <1>1, HeldIs DEF ServeWakeup, IInv, Kinds, Idle
  <2>2. links' \in Links
    BY <2>1, MadeRunningRings DEF ServeWakeup, RunRaw
  <2> QED  BY <2>1, <2>2 DEF IInv, Kinds
<1>3. /\ current' \in Threads \cup {NULL}
      /\ \/ current' = ThreadToRun(links')
         \/ current' = current /\ needsReschedule' = TRUE
  <2>1. ThreadToRun(links') \in Threads \cup {NULL}
    BY <1>2 DEF Links, ThreadToRun, Rings
  <2> QED  BY <1>1, <1>2, <2>1 DEF SwitchIf
<1>4. Kinds' /\ AllRings(links, Held)' /\ LooseUnlinked'
  BY <1>1, <1>3, RunRawStep
<1>5. CASE current' = current /\ needsReschedule' = TRUE
  BY <1>1, <1>4, <1>5, AfterTurn DEF IInv, RightRuns
<1> QED  BY <1>3, <1>4, <1>5, AfterTurn

LEMMA DispatchStep ==
    ASSUME IInv, Dispatch
    PROVE  IInv'
<1>1. /\ links' = links /\ running' = running /\ started' = started /\ dead' = dead
      /\ owing' = owing /\ fired' = fired /\ SwitchIf(TRUE, links)
  BY DEF Dispatch, threadVars
<1>2. Held' = Held
  BY <1>1 DEF Held, Members
<1>3. AllRings(links', Held') /\ links \in Links /\ current \in Threads \cup {NULL}
  BY <1>1, <1>2 DEF IInv, Kinds
<1>4. /\ current' \in Threads \cup {NULL}
      /\ \/ current' = ThreadToRun(links')
         \/ current' = current /\ needsReschedule' = TRUE
  BY <1>1, <1>3, SwitchStep
<1>5. Kinds' /\ AllRings(links, Held)' /\ LooseUnlinked'
  BY <1>1, <1>3, <1>4 DEF IInv, Kinds, LooseUnlinked
<1>6. CASE current' = current /\ needsReschedule' = TRUE
  BY <1>1, <1>5, <1>6, AfterTurn DEF IInv, RightRuns
<1> QED  BY <1>4, <1>5, <1>6, AfterTurn

LEMMA NextInvariant == IInv /\ [Next]_vars /\ ~strayed' => IInv'
<1> SUFFICES ASSUME IInv, [Next]_vars, ~strayed' PROVE IInv'
  OBVIOUS
<1>1. ASSUME NEW t \in Threads, Reschedule(t) \/ DisableContextSwitch(t)
                                  \/ EnableContextSwitch(t)
      PROVE  IInv'
  BY <1>1, OtherStep DEF Reschedule, DisableContextSwitch, EnableContextSwitch,
     threadVars, timerVars
<1>2. ASSUME NEW t \in Threads, ThreadStep(t)
      PROVE  IInv'
  BY <1>1, <1>2, MakeRunStep, WaitStep, YieldStep, RemoveStep DEF ThreadStep
<1>3. CASE TimerStrikes
  BY <1>3, OtherStep DEF TimerStrikes, threadVars, cpuVars
<1>4. CASE DispatcherWaits
  BY <1>4, OtherStep DEF DispatcherWaits, threadVars, cpuVars, timerVars
<1>5. CASE UNCHANGED vars
  BY <1>5, OtherStep DEF vars, threadVars, cpuVars, timerVars
<1> QED  BY <1>2, <1>3, <1>4, <1>5, ServeTickStep, ServeWakeupStep, DispatchStep
            DEF Next, DispatcherStep

-------------------------------------------------------------------------------
(* Time slices.  The invariant above says who runs; what follows says that the  *)
(* timer is armed for it.                                                       *)

\* With no switch pending the current thread is the one a switch would choose.
ChosenRuns == ~needsReschedule /\ current \notin owing => current = ThreadToRun(links)

\* A current thread at the front of a ring it shares has a slice that ends.
FrontIsTimed ==
    current \in running /\ links.root[Queue(current)] = current
       /\ links.next[current] # current => armed \/ fired

\* One that has just gone to sleep, and that may come back before anybody else is
\* switched to, has left the timer armed, or its tick unserved, if there is somebody
\* on its ring.
SleeperIsTimed ==
    current # NULL /\ current \notin running \cup dead /\ operation[current] = "sleep" =>
       /\ ~switchDisabled
       /\ (\E t \in running : Queue(t) = Queue(current)) => armed \/ fired

Slices == /\ ChosenRuns /\ FrontIsTimed /\ SleeperIsTimed
          /\ operation \in [Threads -> {NULL, "section", "sleep"}]

\* The thread that is chosen is on the ring it is the root of.
LEMMA ChosenIsFront ==
    AllRings(links, Held) /\ Kinds =>
       LET r == ThreadToRun(links)
       IN  r # NULL => r \in running /\ links.root[Queue(r)] = r
<1> SUFFICES ASSUME AllRings(links, Held), Kinds, ThreadToRun(links) # NULL
             PROVE  /\ ThreadToRun(links) \in running
                    /\ links.root[Queue(ThreadToRun(links))] = ThreadToRun(links)
  OBVIOUS
<1>1. \A q \in {0, 1} : links.root[q] # NULL =>
         links.root[q] \in running /\ Queue(links.root[q]) = q
  <2> SUFFICES ASSUME NEW q \in {0, 1}, links.root[q] # NULL
               PROVE  links.root[q] \in running /\ Queue(links.root[q]) = q
    OBVIOUS
  <2>1. IsRing(links, q, Held[q])
    BY DEF AllRings, Rings
  <2>2. Held[q] = {t \in running : Queue(t) = q}
    BY HeldIs
  <2> QED  BY <2>1, <2>2 DEF IsRing
<1> QED  BY <1>1 DEF ThreadToRun

\* A thread that becomes runnable does not get another one to share its ring with that
\* stays in front of it, unless it shared the ring before.
LEMMA FrontKept ==
    ASSUME NEW L \in Links, NEW A, AllRings(L, A), NEW t \in Threads,
           \/ t \in A[Waiting]
           \/ L.next[t] = NULL /\ \A q \in Rings : t \notin A[q],
           NEW c \in Threads, c \in A[Queue(c)], c # t,
           MadeRunning(L, t).root[Queue(c)] = c, MadeRunning(L, t).next[c] # c
    PROVE  L.root[Queue(c)] = c /\ L.next[c] # c
<1> DEFINE M == Unlink(L, t, Waiting)
           N == Enqueue(M, t, Queue(t))
           q == Queue(c)
<1>1. /\ q \in {0, 1} /\ Queue(t) \in {0, 1} /\ Waiting \in Rings /\ Queue(t) \in Rings
      /\ q # Waiting /\ q \in Rings /\ Queue(t) # Waiting
  BY DEF Queue, Rings, Waiting
<1> HIDE DEF M, N, q
<1>2. /\ M \in Links /\ M.root[q] = L.root[q] /\ M.next[c] = L.next[c]
      /\ IsRing(M, Queue(t), A[Queue(t)])
  <2>1. CASE t \in A[Waiting]
    <3>1. IsRing(L, Waiting, A[Waiting]) /\ A[Waiting] \in SUBSET Threads
          /\ c \in Threads \ A[Waiting]
      BY <1>1 DEF AllRings, q
    <3>2. /\ M \in Links
          /\ \A p \in Rings \ {Waiting} : M.root[p] = L.root[p]
          /\ \A u \in Threads \ A[Waiting] : M.next[u] = L.next[u]
      <4>1. PICK S \in SUBSET Threads : S = A[Waiting]
        BY <3>1
      <4>2. IsRing(L, Waiting, S) /\ t \in S
        BY <2>1, <3>1, <4>1
      <4>3. /\ Unlink(L, t, Waiting) \in Links
            /\ IsRing(Unlink(L, t, Waiting), Waiting, S \ {t})
            /\ \A p \in Rings \ {Waiting} : Unlink(L, t, Waiting).root[p] = L.root[p]
            /\ \A u \in Threads \ S : /\ Unlink(L, t, Waiting).next[u] = L.next[u]
                                      /\ Unlink(L, t, Waiting).prev[u] = L.prev[u]
        BY <1>1, <4>2, UnlinkRing
      <4> QED  BY <4>1, <4>3 DEF M
    <3>3. AllRings(M, [A EXCEPT ![Waiting] = @ \ {t}])
      BY <1>1, <2>1, UnlinkAll DEF M
    <3>4. A[Queue(t)] = [A EXCEPT ![Waiting] = @ \ {t}][Queue(t)]
      BY <1>1 DEF AllRings, Rings, Waiting
    <3> QED  BY <1>1, <3>1, <3>2, <3>3, <3>4 DEF AllRings, Rings
  <2>2. CASE L.next[t] = NULL
    BY <1>1, <2>2 DEF M, Unlink, AllRings, Rings
  <2> QED  BY <2>1, <2>2
<1>3. N = MadeRunning(L, t)
  BY DEF MadeRunning, M, N
<1>4. L.root[q] # NULL
  BY <1>1, ThreadsAssumption DEF AllRings, IsRing, q
<1>5. CASE Queue(t) # q
  <2>1. /\ t \in Threads \ A[Queue(t)] /\ c \in Threads \ (A[Queue(t)] \cup {t})
        /\ A[Queue(t)] \in SUBSET Threads /\ Queue(t) \in Rings
    BY <1>1, <1>5 DEF AllRings, Rings, Waiting, q
  <2>2. /\ \A p \in Rings \ {Queue(t)} : N.root[p] = M.root[p]
        /\ \A u \in Threads \ (A[Queue(t)] \cup {t}) : N.next[u] = M.next[u]
    <3>1. PICK S \in SUBSET Threads : S = A[Queue(t)]
      BY <2>1
    <3>2. PICK r \in Rings : r = Queue(t)
      BY <2>1
    <3>3. IsRing(M, r, S) /\ M \in Links /\ t \in Threads \ S
      BY <1>2, <2>1, <3>1, <3>2
    <3>4. /\ Enqueue(M, t, r) \in Links
          /\ IsRing(Enqueue(M, t, r), r, S \cup {t})
          /\ \A p \in Rings \ {r} : Enqueue(M, t, r).root[p] = M.root[p]
          /\ \A u \in Threads \ (S \cup {t}) :
                /\ Enqueue(M, t, r).next[u] = M.next[u]
                /\ Enqueue(M, t, r).prev[u] = M.prev[u]
      BY <3>3, EnqueueRing
    <3> QED  BY <3>1, <3>2, <3>4 DEF N
  <2>3. N.root[q] = M.root[q]
    BY <1>1, <1>5, <2>2
  <2>4. N.next[c] = M.next[c]
    BY <2>1, <2>2
  <2> QED  BY <1>2, <1>3, <2>3, <2>4 DEF q
<1>6. CASE Queue(t) = q /\ Alone(M, q)
  <2>1. N.root[q] = t
    BY <1>1, <1>2, <1>6 DEF Enqueue, PutOnFront, Links, N
  <2> QED  BY <1>3, <2>1 DEF q
<1>7. CASE Queue(t) = q /\ ~Alone(M, q)
  <2>1. M.root[q] # NULL
    BY <1>2, <1>4
  <2>2. N.root = M.root
    BY <1>1, <1>2, <1>7, <2>1 DEF Enqueue, AppendTo, Links, N
  <2>3. L.root[q] = c
    BY <1>2, <1>3, <2>2 DEF q
  <2>4. M.next[c] # c
    BY <1>2, <1>7, <2>1, <2>3 DEF Alone
  <2> QED  BY <1>2, <2>3, <2>4 DEF q
<1> QED  BY <1>5, <1>6, <1>7

\* The same of the current thread, when another one is made runnable.
LEMMA FrontStep ==
    ASSUME IInv, NEW u \in Idle, RunRaw(links, u), current \in running, FrontIsTimed,
           links'.root[Queue(current)] = current, links'.next[current] # current
    PROVE  armed \/ fired
<1>1. /\ u \in Threads /\ links \in Links /\ AllRings(links, Held) /\ u \notin running
      /\ u \notin dead /\ current \in Threads /\ u # current
  BY DEF IInv, Kinds, Idle
<1>2. \/ u \in Held[Waiting]
      \/ links.next[u] = NULL /\ \A q \in Rings : u \notin Held[q]
  <2>1. CASE u \in started
    BY <1>1, <2>1, HeldIs
  <2>2. CASE u \notin started
    BY <1>1, <2>2, HeldIs DEF IInv, Kinds, LooseUnlinked, Rings, Waiting
  <2> QED  BY <2>1, <2>2
<1>3. current \in Held[Queue(current)]
  BY HeldIs DEF Queue
<1>4. links' = MadeRunning(links, u)
  BY DEF RunRaw
<1>5. links.root[Queue(current)] = current /\ links.next[current] # current
  BY <1>1, <1>2, <1>3, <1>4, FrontKept
<1> QED  BY <1>5 DEF FrontIsTimed

\* A thread alone on its ring follows itself.
LEMMA AloneFollowsItself ==
    Kinds /\ AllRings(links, Held) => \A c \in running :
       links.next[c] # c <=> \E t \in running : t # c /\ Queue(t) = Queue(c)
<1> SUFFICES ASSUME Kinds, AllRings(links, Held), NEW c \in running
             PROVE  links.next[c] # c <=> \E t \in running : t # c /\ Queue(t) = Queue(c)
  OBVIOUS
<1>1. /\ Queue(c) \in {0, 1} /\ Queue(c) \in Rings
      /\ Held[Queue(c)] = {t \in running : Queue(t) = Queue(c)}
  BY HeldIs DEF Queue, Rings
<1>2. IsRing(links, Queue(c), Held[Queue(c)]) /\ c \in Held[Queue(c)]
  BY <1>1 DEF AllRings
<1>3. ASSUME links.next[c] = c PROVE Held[Queue(c)] = {c}
  BY <1>2, <1>3, LonelyRing
<1>4. ASSUME \A t \in running : Queue(t) = Queue(c) => t = c PROVE links.next[c] = c
  BY <1>1, <1>2, <1>4 DEF IsRing
<1> QED  BY <1>1, <1>3, <1>4

LEMMA InitSlices == Init => Slices
BY ThreadsAssumption DEF Init, Slices, ChosenRuns, FrontIsTimed, SleeperIsTimed

LEMMA WaitSlices ==
    ASSUME IInv, Slices, NEW t \in Threads, Wait(t)
    PROVE  Slices'
<1>1. /\ current = t /\ t \in running /\ t \notin owing
      /\ needsReschedule => switchDisabled
      /\ current' = t /\ running' = running \ {t} /\ owing' = owing \cup {t}
      /\ operation' = [operation EXCEPT ![t] = IF switchDisabled THEN "section" ELSE "sleep"]
      /\ armed' = armed /\ fired' = fired /\ switchDisabled' = switchDisabled
  BY DEF Wait, Runs, cpuVars, timerVars
<1>2. ChosenRuns' /\ FrontIsTimed' /\ operation' \in [Threads -> {NULL, "section", "sleep"}]
  BY <1>1 DEF ChosenRuns, FrontIsTimed, Slices
<1>3. SleeperIsTimed'
  <2> SUFFICES ASSUME operation'[t] = "sleep"
               PROVE  /\ ~switchDisabled
                      /\ (\E x \in running \ {t} : Queue(x) = Queue(t)) => armed \/ fired
    BY <1>1 DEF SleeperIsTimed
  <2>1. ~switchDisabled
    BY <1>1 DEF Slices
  <2>2. links.root[Queue(t)] = t
    BY <1>1, <2>1, ThreadsAssumption, ChosenIsFront DEF Slices, ChosenRuns, IInv, Kinds
  <2>3. ASSUME NEW x \in running \ {t}, Queue(x) = Queue(t) PROVE armed \/ fired
    <3>1. links.next[t] # t
      BY <1>1, <2>3, AloneFollowsItself DEF IInv
    <3> QED  BY <1>1, <2>2, <3>1 DEF Slices, FrontIsTimed
  <2> QED  BY <2>1, <2>3
<1> QED  BY <1>2, <1>3 DEF Slices

LEMMA ThreadSlices ==
    ASSUME IInv, Slices, NEW t \in Threads, ThreadStep(t)
    PROVE  Slices'
<1>1. ASSUME NEW u \in Threads, MakeRun(t, u) PROVE Slices'
  <2>1. /\ u \in Idle /\ RunRaw(links, u) /\ current = t /\ t \in running
        /\ owing' = owing \cup {t} /\ UNCHANGED <<current, armed, fired>>
    BY <1>1 DEF MakeRun, Runs, cpuVars, timerVars
  <2>2. FrontIsTimed'
    BY <2>1, FrontStep DEF FrontIsTimed, Slices
  <2> QED  BY <2>1, <2>2 DEF Slices, ChosenRuns, SleeperIsTimed, RunRaw
<1>2. CASE Yield(t)
  <2>1. /\ current = t /\ t \in running /\ owing' = owing \cup {t}
        /\ UNCHANGED <<current, armed, fired, running, operation>>
    BY <1>2 DEF Yield, Runs, cpuVars, timerVars
  <2>2. links'.root[Queue(t)] = t /\ links'.next[t] # t
          => links.root[Queue(t)] = t /\ links.next[t] # t
    BY <1>2 DEF Yield, IInv, Kinds, Links, Queue, Rings
  <2> QED  BY <2>1, <2>2 DEF Slices, ChosenRuns, FrontIsTimed, SleeperIsTimed
<1>3. CASE Remove(t)
  <2>1. /\ current = t /\ t \in running /\ owing' = owing \cup {t} /\ dead' = dead \cup {t}
        /\ current' = current /\ t \notin running'
        /\ operation' \in [Threads -> {NULL, "section", "sleep"}]
    BY <1>3 DEF Remove, Runs, cpuVars, Idle, Slices
  <2> QED  BY <2>1 DEF Slices, ChosenRuns, FrontIsTimed, SleeperIsTimed
<1>4. CASE Reschedule(t) \/ DisableContextSwitch(t) \/ EnableContextSwitch(t)
  <2>1. /\ UNCHANGED <<links, running, dead, operation, current, armed, fired>>
        /\ needsReschedule' \/ (UNCHANGED <<needsReschedule, owing>>)
        /\ switchDisabled' => switchDisabled \/ current \in running
    BY <1>4 DEF Reschedule, DisableContextSwitch, EnableContextSwitch, Runs,
                threadVars, timerVars
  <2> QED  BY <2>1 DEF Slices, ChosenRuns, FrontIsTimed, SleeperIsTimed
<1> QED  BY <1>1, <1>2, <1>3, <1>4, WaitSlices DEF ThreadStep

\* After a turn of the dispatcher that switched to a thread it has armed the timer for.
LEMMA AfterSwitch ==
    ASSUME Kinds', AllRings(links, Held)', current' = ThreadToRun(links'),
           operation' \in [Threads -> {NULL, "section", "sleep"}],
           current' # NULL /\ links'.next[current'] # current' => armed' \/ fired'
    PROVE  Slices'
<1>1. (AllRings(links, Held) /\ Kinds =>
          LET r == ThreadToRun(links)
          IN  r # NULL => r \in running /\ links.root[Queue(r)] = r)'
  BY ChosenIsFront, PTL
<1>2. current' # NULL => current' \in running'
  BY <1>1
<1> QED  BY <1>2, ThreadsAssumption DEF Slices, ChosenRuns, FrontIsTimed, SleeperIsTimed, Kinds

LEMMA TickSlices ==
    ASSUME IInv, IInv', Slices, ServeTick, ~strayed'
    PROVE  Slices'
<1>1. /\ links' = Rotated(links) /\ UNCHANGED <<running, dead, operation, switchDisabled, owing>>
      /\ SwitchIf(needsReschedule \/ current # NULL, links')
      /\ current # NULL => current \in running
  BY DEF ServeTick, IInv
<1>2. ASSUME current # NULL, links'.root[Queue(current)] = current
      PROVE  links'.next[current] = current
  BY <1>1, <1>2 DEF Rotated, IInv, Kinds, Links, Queue, Rings
<1>3. CASE current' = ThreadToRun(links') /\ armed' = Rearmed(links', current')
  <2>1. ASSUME current' # NULL PROVE links'.root[Queue(current')] = current'
    <3>1. (AllRings(links, Held) /\ Kinds =>
              LET r == ThreadToRun(links)
              IN  r # NULL => r \in running /\ links.root[Queue(r)] = r)'
      BY ChosenIsFront, PTL
    <3> QED  BY <1>3, <2>1, <3>1 DEF IInv
  <2>2. current' # NULL /\ links'.next[current'] # current' => armed'
    BY <1>2, <1>3, <2>1 DEF Rearmed
  <2> QED  BY <1>1, <1>3, <2>2, AfterSwitch DEF IInv, Slices
<1>4. CASE /\ current' = current
           /\ needsReschedule' = (needsReschedule \/ current # NULL)
           /\ UNCHANGED <<armed, switchDisabled>>
  <2>1. current = NULL => links' = links
    BY <1>1 DEF Rotated
  <2> QED  BY <1>1, <1>2, <1>4, <2>1, ThreadsAssumption
              DEF Slices, ChosenRuns, FrontIsTimed, SleeperIsTimed, IInv, Kinds
<1> QED  BY <1>1, <1>3, <1>4 DEF SwitchIf

LEMMA WakeupSlices ==
    ASSUME IInv, IInv', Slices, NEW u \in Threads, ServeWakeup(u)
    PROVE  Slices'
<1>1. /\ u \in Idle /\ operation[u] = "sleep" /\ RunRaw(links, u)
      /\ links' = MadeRunning(links, u) /\ running' = running \cup {u}
      /\ operation' = [operation EXCEPT ![u] = NULL]
      /\ UNCHANGED <<dead, switchDisabled, fired, owing>>
      /\ SwitchIf(TRUE, links')
  BY DEF ServeWakeup, RunRaw
<1>2. operation' \in [Threads -> {NULL, "section", "sleep"}]
  BY <1>1 DEF Slices
\* The thread that was put to sleep, and is the first to be woken, is alone again or
\* finds the timer as it left it.
<1>3. ASSUME u = current
      PROVE  ~switchDisabled /\ (links'.next[u] # u => armed \/ fired)
  <2>1. current # NULL /\ current \notin running \cup dead
    BY <1>1, <1>3, ThreadsAssumption DEF Idle
  <2>2. ~switchDisabled /\ ((\E t \in running : Queue(t) = Queue(u)) => armed \/ fired)
    BY <1>1, <1>3, <2>1 DEF Slices, SleeperIsTimed
  <2>3. links'.next[u] # u => \E t \in running' : t # u /\ Queue(t) = Queue(u)
    <3>1. (Kinds /\ AllRings(links, Held) => \A c \in running :
              links.next[c] # c <=> \E t \in running : t # c /\ Queue(t) = Queue(c))'
      BY AloneFollowsItself, PTL
    <3> QED  BY <1>1, <3>1 DEF IInv
  <2> QED  BY <1>1, <2>2, <2>3
<1>4. ASSUME current \in running', links'.root[Queue(current)] = current,
             links'.next[current] # current
      PROVE  armed \/ fired
  <2>1. CASE u = current
    BY <1>3, <1>4, <2>1
  <2>2. CASE u # current
    BY <1>1, <1>4, <2>2, FrontStep DEF Slices
  <2> QED  BY <2>1, <2>2
<1>5. CASE current' = ThreadToRun(links') /\ armed' = Rearmed(links', current')
  <2>1. ASSUME current' # NULL
        PROVE  current' \in running' /\ links'.root[Queue(current')] = current'
    <3>1. (AllRings(links, Held) /\ Kinds =>
              LET r == ThreadToRun(links)
              IN  r # NULL => r \in running /\ links.root[Queue(r)] = r)'
      BY ChosenIsFront, PTL
    <3> QED  BY <1>5, <2>1, <3>1 DEF IInv
  <2>2. ASSUME current' # NULL, links'.next[current'] # current' PROVE armed' \/ fired'
    <3>1. CASE current' # current
      BY <1>5, <2>2, <3>1 DEF Rearmed
    <3>2. CASE current' = current
      BY <1>1, <1>4, <1>5, <2>1, <2>2, <3>2 DEF Rearmed
    <3> QED  BY <3>1, <3>2
  <2> QED  BY <1>2, <1>5, <2>2, AfterSwitch DEF IInv
<1>6. CASE /\ current' = current /\ needsReschedule' = TRUE /\ armed' = armed
           /\ switchDisabled
  <2>1. u # current
    BY <1>3, <1>6
  <2>2. ~(current # NULL /\ current \notin running \cup dead /\ operation[current] = "sleep")
    BY <1>6 DEF Slices, SleeperIsTimed
  <2>3. SleeperIsTimed'
    BY <1>1, <1>6, <2>1, <2>2 DEF SleeperIsTimed, IInv, Kinds, Slices
  <2> QED  BY <1>1, <1>2, <1>4, <1>6, <2>3 DEF Slices, ChosenRuns, FrontIsTimed
<1> QED  BY <1>1, <1>5, <1>6 DEF SwitchIf, MaySwitch

LEMMA NextSlices == IInv /\ IInv' /\ Slices /\ [Next]_vars /\ ~strayed' => Slices'
<1> SUFFICES ASSUME IInv, IInv', Slices, [Next]_vars, ~strayed' PROVE Slices'
  OBVIOUS
<1>1. CASE TimerStrikes
  BY <1>1 DEF TimerStrikes, threadVars, cpuVars, Slices, ChosenRuns, FrontIsTimed,
              SleeperIsTimed
<1>2. CASE Dispatch
  <2>1. /\ links' = links /\ operation' = operation /\ fired' = fired
        /\ current' = ThreadToRun(links') /\ armed' = Rearmed(links', current')
    BY <1>2 DEF Dispatch, threadVars, SwitchIf, MaySwitch
  <2>2. current' # NULL /\ links'.next[current'] # current' => armed' \/ fired'
    BY <2>1, ChosenIsFront DEF Rearmed, Slices, FrontIsTimed, IInv
  <2> QED  BY <2>1, <2>2, AfterSwitch DEF IInv, Slices
<1>3. CASE DispatcherWaits \/ UNCHANGED vars
  BY <1>3 DEF DispatcherWaits, vars, threadVars, cpuVars, timerVars, Slices, ChosenRuns,
              FrontIsTimed, SleeperIsTimed
<1> QED  BY <1>1, <1>2, <1>3, ThreadSlices, TickSlices, WakeupSlices DEF Next, DispatcherStep

-------------------------------------------------------------------------------
(* The theorems. *)

\* Nothing but a tick strays, and what has strayed is never forgotten.
LEMMA StrayedForEver == [Next]_vars /\ strayed => strayed'
BY DEF Next, vars, ThreadStep, MakeRun, Wait, Yield, Remove, Reschedule, DisableContextSwitch,
   EnableContextSwitch, TimerStrikes, DispatcherStep, ServeTick, ServeWakeup, Dispatch,
   DispatcherWaits

\* The invariant holds for any threads and priorities and ticks at any moment, until one
\* of them is served between the moment a thread leaves its ring and the switch.
THEOREM Invariance == Spec => [](~strayed => IInv)
<1>1. Init => (~strayed => IInv)
  BY InitInvariant
<1>2. (~strayed => IInv) /\ [Next]_vars => (~strayed => IInv)'
  BY NextInvariant, StrayedForEver
<1> QED  BY <1>1, <1>2, PTL DEF Spec

\* Flags and rings agree after any sequence of starts, waits, wakeups, yields,
\* deaths, ticks and interrupts, until a tick strays.
THEOREM RingsCorrect == Spec => []RingsMatchFlags
<1>1. (~strayed => IInv) => RingsMatchFlags
  BY DEF IInv, AllRings, Held, RingsMatchFlags
<1> QED  BY <1>1, Invariance, PTL

\* A thread on no ring can be put on one, until a tick strays.
THEOREM OffRingCorrect == Spec => []OffRingUnlinked
<1>1. (~strayed => IInv) => OffRingUnlinked
  BY DEF IInv, LooseUnlinked, OffRingUnlinked
<1> QED  BY <1>1, Invariance, PTL

\* With no switch pending the processor runs a thread of the highest ring, until a tick
\* strays.
THEOREM PriorityRespected == Spec => []HighestRuns
<1>1. (~strayed => IInv) => HighestRuns
  BY DEF IInv, RightRuns, HighestRuns
<1> QED  BY <1>1, Invariance, PTL

\* The assertion of the code: a thread alone on its ring is the root.  It fails
\* only after a tick has strayed.
THEOREM AssertionHolds == Spec => []LastOneIsRoot
<1>1. (~strayed => IInv) => LastOneIsRoot
  <2> SUFFICES ASSUME IInv, NEW t \in started \ dead, links.next[t] = t
               PROVE  links.root[IF t \in running THEN Queue(t) ELSE Waiting] = t
    BY DEF LastOneIsRoot
  <2> DEFINE q == IF t \in running THEN Queue(t) ELSE Waiting
  <2>1. q \in Rings /\ t \in Members(q)
    BY DEF Members, Rings, Queue, Waiting
  <2>2. IsRing(links, q, Members(q))
    BY <2>1 DEF IInv, AllRings, Held
  <2>3. Members(q) = {t}
    BY <2>1, <2>2, LonelyRing
  <2> QED  BY <2>2, <2>3 DEF IsRing
<1> QED  BY <1>1, Invariance, PTL

\* "Otherwise scheduler will never trigger timer": whenever the running thread shares
\* its ring the timer is armed to end its slice, or has just struck; until a tick
\* strays.
THEOREM SlicesEnd == Spec => []SharedSliceEnds
<1>1. (~strayed => IInv) /\ (~strayed => Slices) => SharedSliceEnds
  BY ChosenIsFront DEF IInv, Slices, ChosenRuns, FrontIsTimed, SharedSliceEnds
<1>2. /\ (~strayed => IInv) /\ (~strayed => IInv)' /\ (~strayed => Slices) /\ [Next]_vars
      => (~strayed => Slices)'
  BY NextSlices, StrayedForEver
<1>3. Init => (~strayed => Slices)
  BY InitSlices
<1> QED  BY <1>1, <1>2, <1>3, Invariance, PTL DEF Spec

\* Context switches that are disabled do not happen.
THEOREM LockRespected == Spec => NoSwitchWhileDisabled
<1>1. [Next]_vars => [switchDisabled => current' = current]_vars
  <2> SUFFICES ASSUME Next, switchDisabled PROVE current' = current
    OBVIOUS
  <2>1. ASSUME NEW t \in Threads, ThreadStep(t) PROVE current' = current
    BY <2>1 DEF ThreadStep, MakeRun, Wait, Yield, Remove, Reschedule,
                DisableContextSwitch, EnableContextSwitch, cpuVars
  <2>2. ASSUME NEW t \in Threads, ServeWakeup(t) PROVE current' = current
    BY <2>2 DEF ServeWakeup, SwitchIf, MaySwitch
  <2>3. CASE TimerStrikes \/ DispatcherStep
    BY <2>3 DEF TimerStrikes, DispatcherStep, ServeTick, Dispatch, DispatcherWaits,
                SwitchIf, MaySwitch, cpuVars
  <2> QED  BY <2>1, <2>2, <2>3 DEF Next
<1> QED  BY <1>1, PTL DEF Spec, NoSwitchWhileDisabled

\* A switch that is wanted and allowed finds the dispatcher awake.
THEOREM SwitchesHeard == Spec => []SwitchIsHeard
<1>1. Init => SwitchIsHeard
  BY DEF Init, SwitchIsHeard
<1>2. SwitchIsHeard /\ [Next]_vars => SwitchIsHeard'
  <2> SUFFICES ASSUME SwitchIsHeard, [Next]_vars PROVE SwitchIsHeard'
    OBVIOUS
  <2>1. ASSUME NEW t \in Threads, ThreadStep(t) PROVE SwitchIsHeard'
    BY <2>1 DEF SwitchIsHeard, ThreadStep, MakeRun, Wait, Yield, Remove, Reschedule,
                DisableContextSwitch, EnableContextSwitch, cpuVars, Notified, CatchUp
  <2>2. ASSUME NEW t \in Threads, ServeWakeup(t) PROVE SwitchIsHeard'
    BY <2>2 DEF SwitchIsHeard, ServeWakeup
  <2>3. CASE TimerStrikes \/ DispatcherStep
    BY <2>3 DEF SwitchIsHeard, TimerStrikes, DispatcherStep, ServeTick, Dispatch,
                DispatcherWaits, cpuVars
  <2>4. CASE UNCHANGED vars
    BY <2>4 DEF SwitchIsHeard, vars, cpuVars
  <2> QED  BY <2>1, <2>2, <2>3, <2>4 DEF Next
<1> QED  BY <1>1, <1>2, PTL DEF Spec
===============================================================================
