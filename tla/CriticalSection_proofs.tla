------------------------ MODULE CriticalSection_proofs ------------------------
(***************************************************************************)
(* Proofs about CriticalSection: with one section, any number of threads   *)
(* that contend for it in any order, nest it to any depth and die outside  *)
(* it, the section is exclusive and its status counts its levels.  Until a *)
(* woken thread takes it while another one waits behind it, and loses the  *)
(* flag, threads may die inside, too, and the flag, the chain of waiters   *)
(* and the hand-over are right, whoever contends.                          *)
(*                                                                         *)
(* The argument: at any time at most one thread has won the section (it is *)
(* inside, or it has been handed the section and has not run yet).  While  *)
(* a section is handed over its count is zero and its flag is set, so no   *)
(* compare-and-swap and no system call can take it; while a thread is      *)
(* inside, the count is the number of its levels, hence not zero.  The     *)
(* chain starts with the thread that waits longest, and only that one is   *)
(* ever handed the section; as long as it takes it with nobody behind, the *)
(* chain is then empty, which is what the cleared flag says.               *)
(***************************************************************************)
EXTENDS CriticalSection, FiniteSetTheorems, SequenceTheorems, TLAPS

Types ==
    /\ count \in [Sections -> Nat]
    /\ flag \in [Sections -> BOOLEAN]
    /\ owner \in [Sections -> Threads \cup {NULL}]
    /\ locked \in [Sections \cup Threads -> Sections \cup {NULL}]
    /\ lockedRef \in [Sections -> Sections \cup Threads \cup {NULL}]
    /\ pc \in [Threads -> Locations]
    /\ sec \in [Threads -> Sections \cup {NULL}]
    /\ held \in [Threads -> Seq(Sections)]

Levels(t) == Len(held[t])
Passing(t) == pc[t] \in {"register", "cas", "slowunlock"}
In(t) == Levels(t) > 0 \/ Passing(t)
Won(t) == In(t) \/ pc[t] = "acquire"

\* Where a thread is, and what it then holds.
Places(S) ==
    \A t \in Threads :
       /\ pc[t] \notin {"run", "dead"} => sec[t] = S
       /\ pc[t] # "run" => Levels(t) = 0

\* Who owns the section, by its record and by the list of the thread.
Owners(S) ==
    /\ locked[S] = NULL
    /\ \A t \in Threads :
          /\ Levels(t) > 0 => /\ owner[S] = t
                              /\ locked[t] = S
                              /\ lockedRef[S] = t
          /\ Levels(t) = 0 => owner[S] # t /\ locked[t] = NULL

\* At most one winner; the status tells what it has.
Status(S) ==
    /\ \A t, u \in Threads : Won(t) /\ Won(u) => t = u
    /\ \A t \in Threads :
          /\ pc[t] = "acquire" => count[S] = 0 /\ flag[S]
          /\ Levels(t) > 0 => count[S] = Levels(t)
          /\ Passing(t) => count[S] = 1
    /\ (\A t \in Threads : ~Won(t)) => count[S] = 0

IInv(S) == Types /\ Places(S) /\ Owners(S) /\ Status(S)

\* The chain of waiters: empty, without the flag, or with the flag and a first waiter
\* that is linked to the section; only that one is handed the section, and it is the
\* last one, too, when it names nobody.
Queued(t) == pc[t] \in {"blocked", "acquire"}

Cells ==
    /\ waiter \in [Sections \cup Threads -> Threads \cup {NULL}]
    /\ lastRef \in [Sections -> Sections \cup Threads]
    /\ prevRef \in [Threads -> Sections \cup Threads \cup {NULL}]

Nobody(S) ==
    /\ \A t \in Threads : ~Queued(t)
    /\ ~flag[S] /\ waiter[S] = NULL /\ lastRef[S] = S

First(S, f) ==
    /\ Queued(f) /\ flag[S] /\ waiter[S] = f /\ prevRef[f] = S
    /\ lastRef[S] \in Threads /\ Queued(lastRef[S])
    /\ \A t \in Threads : pc[t] = "acquire" => t = f
    /\ waiter[f] = NULL => /\ lastRef[S] = f
                           /\ \A t \in Threads : Queued(t) => t = f
    /\ \E t \in Threads : Won(t)

Chain(S) == Nobody(S) \/ \E f \in Threads : First(S, f)

CInv(S) == Cells /\ Chain(S)

-------------------------------------------------------------------------------
(* Lemmas. *)

\* The innermost section of a thread is the section.
LEMMA InnermostIs ==
    ASSUME NEW S, Sections = {S}, held \in [Threads -> Seq(Sections)],
           NEW t \in Threads, Levels(t) > 0
    PROVE  Innermost(t) = S
<1>1. held[t] \in Seq(Sections) /\ Len(held[t]) \in 1 .. Len(held[t])
  BY DEF Levels
<1> QED  BY <1>1 DEF Innermost

\* What entering and leaving a level does to the sequence of levels.
LEMMA LevelsChange ==
    ASSUME NEW S, Sections = {S}, NEW h \in Seq(Sections)
    PROVE  /\ Len(h) \in Nat
           /\ Append(h, S) \in Seq(Sections) /\ Len(Append(h, S)) = Len(h) + 1
           /\ Len(h) > 0 => /\ SubSeq(h, 1, Len(h) - 1) \in Seq(Sections)
                            /\ Len(SubSeq(h, 1, Len(h) - 1)) = Len(h) - 1
<1>1. Len(h) \in Nat /\ h \in [1 .. Len(h) -> Sections]
  BY LenProperties
<1>2. Append(h, S) \in Seq(Sections) /\ Len(Append(h, S)) = Len(h) + 1
  BY AppendProperties
<1>3. ASSUME Len(h) > 0
      PROVE  /\ SubSeq(h, 1, Len(h) - 1) \in Seq(Sections)
             /\ Len(SubSeq(h, 1, Len(h) - 1)) = Len(h) - 1
  <2>1. \A i \in 1 .. Len(h) - 1 : h[i] \in Sections
    BY <1>1
  <2>2. 1 \in Int /\ Len(h) - 1 \in Int
    BY <1>1
  <2>3. /\ SubSeq(h, 1, Len(h) - 1) \in Seq(Sections)
        /\ Len(SubSeq(h, 1, Len(h) - 1))
             = IF 1 <= Len(h) - 1 THEN Len(h) - 1 - 1 + 1 ELSE 0
    BY <2>1, <2>2, SubSeqProperties
  <2> QED  BY <1>1, <1>3, <2>3
<1> QED  BY <1>1, <1>2, <1>3

LEMMA NoLevels ==
    ASSUME NEW h \in Seq(Sections)
    PROVE  (Len(h) = 0) <=> (h = <<>>)
BY EmptySeq

\* A thread whose list is empty leads to no section.
LEMMA EmptyList ==
    ASSUME NEW t \in Threads, locked[t] = NULL
    PROVE  LockedList(t) = {}
<1>1. {} \in SUBSET Sections /\ locked[t] \in {} \cup {NULL}
  OBVIOUS
<1> QED  BY <1>1 DEF LockedList

\* A thread whose list names the section leads to it only.
LEMMA SingleList ==
    ASSUME NEW S, Sections = {S}, NEW t \in Threads, locked[t] = S, locked[S] = NULL
    PROVE  LockedList(t) = {S}
<1>1. NULL # S
  BY SetsAssumption
<1>2. \A C \in SUBSET Sections : locked[t] \in C \cup {NULL} => S \in C
  BY <1>1
<1> QED  BY <1>2 DEF LockedList

\* The depth of the only section is the number of levels.
LEMMA DepthIsLevels ==
    ASSUME NEW S, Sections = {S}, held \in [Threads -> Seq(Sections)],
           NEW t \in Threads
    PROVE  Depth(t, S) = Levels(t)
<1>1. held[t] \in Seq(Sections) /\ Len(held[t]) \in Nat
  OBVIOUS
<1>2. {i \in DOMAIN held[t] : held[t][i] = S} = 1 .. Len(held[t])
  BY <1>1
<1>3. Cardinality(1 .. Len(held[t])) = Len(held[t])
  BY <1>1, FS_Interval
<1> QED  BY <1>2, <1>3 DEF Depth, Levels

-------------------------------------------------------------------------------
(* The invariant is inductive. *)

LEMMA InitInvariant ==
    ASSUME NEW S, Sections = {S}
    PROVE  Init => IInv(S)
BY SetsAssumption DEF Init, IInv, Types, Places, Owners, Status, Levels, Passing,
                      In, Won, Locations

LEMMA LockAgainStep ==
    ASSUME NEW S, Sections = {S}, NEW t \in Threads, IInv(S),
           LockAgain(t, S)
    PROVE  IInv(S)'
<1> USE DEF statusVars, waitVars, listVars
<1>1. Types'
  BY SetsAssumption, LevelsChange DEF IInv, Types, Places, Locations, LockAgain, OwnedBy
<1>2. Places(S)'
  BY SetsAssumption, LevelsChange DEF IInv, Types, Places, Levels, LockAgain, OwnedBy
<1>3. Owners(S)'
  BY SetsAssumption, LevelsChange DEF IInv, Types, Places, Owners, Levels, LockAgain, OwnedBy
<1>4. Status(S)'
  BY SetsAssumption, LevelsChange DEF IInv, Types, Places, Owners, Status, Levels,
     Passing, In, Won, LockAgain, OwnedBy
<1> QED  BY <1>1, <1>2, <1>3, <1>4 DEF IInv

LEMMA LockFastStep ==
    ASSUME NEW S, Sections = {S}, NEW t \in Threads, IInv(S),
           LockFast(t, S)
    PROVE  IInv(S)'
<1> USE DEF statusVars, waitVars, listVars
<1>0. held[t] \in Seq(Sections) /\ Levels(t) = 0
  BY LevelsChange DEF IInv, Types, Owners, Status, Levels, LockFast, OwnedBy, CasLock
<1>1. Types'
  BY SetsAssumption, LevelsChange DEF IInv, Types, Places, Locations, LockFast, OwnedBy, CasLock, Goto
<1>2. Places(S)'
  BY <1>0, SetsAssumption, LevelsChange DEF IInv, Types, Places, Levels, LockFast, OwnedBy, CasLock, Goto
<1>3. Owners(S)'
  BY SetsAssumption, LevelsChange DEF IInv, Types, Places, Owners, Levels, LockFast, OwnedBy, CasLock, Goto
<1>4. Status(S)'
  BY <1>0, SetsAssumption, LevelsChange DEF IInv, Types, Places, Owners, Status, Levels,
     Passing, In, Won, LockFast, OwnedBy, CasLock, Goto
<1> QED  BY <1>1, <1>2, <1>3, <1>4 DEF IInv

LEMMA LockFailsStep ==
    ASSUME NEW S, Sections = {S}, NEW t \in Threads, IInv(S),
           LockFails(t, S)
    PROVE  IInv(S)'
<1> USE DEF statusVars, waitVars, listVars
<1>0. held[t] \in Seq(Sections) /\ Levels(t) = 0
  BY LevelsChange DEF IInv, Types, Owners, Status, Levels, LockFails, OwnedBy
<1>1. Types'
  BY SetsAssumption, LevelsChange DEF IInv, Types, Places, Locations, LockFails, OwnedBy, Goto
<1>2. Places(S)'
  BY <1>0, SetsAssumption, LevelsChange DEF IInv, Types, Places, Levels, LockFails, OwnedBy, Goto
<1>3. Owners(S)'
  BY SetsAssumption, LevelsChange DEF IInv, Types, Places, Owners, Levels, LockFails, OwnedBy, Goto
<1>4. Status(S)'
  BY <1>0, SetsAssumption, LevelsChange DEF IInv, Types, Places, Owners, Status, Levels,
     Passing, In, Won, LockFails, OwnedBy, Goto
<1> QED  BY <1>1, <1>2, <1>3, <1>4 DEF IInv

LEMMA SlowLockTakeStep ==
    ASSUME NEW S, Sections = {S}, NEW t \in Threads, IInv(S),
           SlowLockTake(t)
    PROVE  IInv(S)'
<1> USE DEF statusVars, waitVars, listVars
<1>1. Types'
  <2>1. sec[t] = S /\ count' = [count EXCEPT ![S] = count[S] + 1] /\ count[S] \in Nat
    BY DEF IInv, Types, Places, SlowLockTake
  <2>2. count' \in [Sections -> Nat] /\ pc' \in [Threads -> Locations]
    BY <2>1 DEF IInv, Types, Locations, SlowLockTake, Goto
  <2> QED  BY <2>2 DEF IInv, Types, SlowLockTake
<1>2. Places(S)'
  BY SetsAssumption, LevelsChange DEF IInv, Types, Places, Levels, SlowLockTake, SlowTakes, Goto
<1>3. Owners(S)'
  BY SetsAssumption, LevelsChange DEF IInv, Types, Places, Owners, Levels, SlowLockTake, SlowTakes, Goto
<1>4. Status(S)'
  BY SetsAssumption, LevelsChange DEF IInv, Types, Places, Owners, Status, Levels,
     Passing, In, Won, SlowLockTake, SlowTakes, Goto
<1> QED  BY <1>1, <1>2, <1>3, <1>4 DEF IInv

LEMMA SlowLockWaitStep ==
    ASSUME NEW S, Sections = {S}, NEW t \in Threads, IInv(S),
           SlowLockWait(t)
    PROVE  IInv(S)'
<1> USE DEF statusVars, waitVars, listVars
<1>1. Types'
  BY SetsAssumption, LevelsChange DEF IInv, Types, Places, Locations, SlowLockWait, SlowTakes, SetWaitersFlag, Goto
<1>2. Places(S)'
  BY SetsAssumption, LevelsChange DEF IInv, Types, Places, Levels, SlowLockWait, SlowTakes, SetWaitersFlag, Goto
<1>3. Owners(S)'
  BY SetsAssumption, LevelsChange DEF IInv, Types, Places, Owners, Levels, SlowLockWait, SlowTakes, SetWaitersFlag, Goto
<1>4. Status(S)'
  BY SetsAssumption, LevelsChange DEF IInv, Types, Places, Owners, Status, Levels,
     Passing, In, Won, SlowLockWait, SlowTakes, SetWaitersFlag, Goto
<1> QED  BY <1>1, <1>2, <1>3, <1>4 DEF IInv

LEMMA AcquireStep ==
    ASSUME NEW S, Sections = {S}, NEW t \in Threads, IInv(S),
           Acquire(t)
    PROVE  IInv(S)'
<1> USE DEF statusVars, waitVars, listVars
<1>1. Types'
  BY SetsAssumption, LevelsChange DEF IInv, Types, Places, Locations, Acquire, Goto
<1>2. Places(S)'
  BY SetsAssumption, LevelsChange DEF IInv, Types, Places, Levels, Acquire, Goto
<1>3. Owners(S)'
  BY SetsAssumption, LevelsChange DEF IInv, Types, Places, Owners, Levels, Acquire, Goto
<1>4. Status(S)'
  <2>1. /\ sec[t] = S /\ pc[t] = "acquire" /\ Levels(t) = 0
        /\ count' = [count EXCEPT ![S] = 1] /\ pc' = [pc EXCEPT ![t] = "register"]
        /\ held' = held
    BY DEF IInv, Types, Places, Acquire, Goto
  <2>2. /\ \A u \in Threads \ {t} : ~Won(u) /\ pc'[u] = pc[u]
        /\ pc'[t] = "register" /\ count'[S] = 1
    BY <2>1 DEF IInv, Types, Status, Won
  <2>3. /\ \A u \in Threads \ {t} : ~Won(u)'
        /\ Won(t)' /\ Passing(t)' /\ Levels(t)' = 0
    BY <2>1, <2>2 DEF Won, In, Passing, Levels
  <2> QED  BY <2>1, <2>2, <2>3 DEF Status, Won, In
<1> QED  BY <1>1, <1>2, <1>3, <1>4 DEF IInv

LEMMA RegisterStep ==
    ASSUME NEW S, Sections = {S}, NEW t \in Threads, IInv(S),
           Register(t)
    PROVE  IInv(S)'
<1> USE DEF statusVars, waitVars, listVars
<1>0. /\ sec[t] = S /\ Levels(t) = 0 /\ locked[t] = NULL
     /\ Levels(t)' = 1 /\ held'[t] \in Seq(Sections)
     /\ \A u \in Threads \ {t} : held'[u] = held[u] /\ Levels(u) = 0
  BY SetsAssumption, LevelsChange DEF IInv, Types, Places, Owners, Status, Levels, Passing, In, Won, Register
<1>1. Types'
  BY <1>0, SetsAssumption, LevelsChange DEF IInv, Types, Places, Locations, Register, Goto
<1>2. Places(S)'
  BY SetsAssumption, LevelsChange DEF IInv, Types, Places, Levels, Register, Goto
<1>3. Owners(S)'
  BY <1>0, SetsAssumption, LevelsChange DEF IInv, Types, Places, Owners, Levels, Register, Goto
<1>4. Status(S)'
  BY <1>0, SetsAssumption, LevelsChange DEF IInv, Types, Places, Owners, Status, Levels,
     Passing, In, Won, Register, Goto
<1> QED  BY <1>1, <1>2, <1>3, <1>4 DEF IInv

LEMMA UnlockOnceStep ==
    ASSUME NEW S, Sections = {S}, NEW t \in Threads, IInv(S),
           UnlockOnce(t)
    PROVE  IInv(S)'
<1> USE DEF statusVars, waitVars, listVars
<1>a. /\ held[t] \in Seq(Sections) /\ Len(held[t]) \in Nat \ {0}
      /\ Innermost(t) = S
  <2>1. held \in [Threads -> Seq(Sections)] /\ held[t] \in Seq(Sections)
    BY DEF IInv, Types
  <2>2. held[t] # <<>>
    BY DEF UnlockOnce
  <2>3. Len(held[t]) \in Nat \ {0}
    BY <2>1, <2>2, EmptySeq
  <2>4. Levels(t) > 0
    BY <2>3 DEF Levels
  <2> QED  BY <2>1, <2>3, <2>4, InnermostIs
<1>b. held' = [held EXCEPT ![t] = SubSeq(held[t], 1, Len(held[t]) - 1)]
  BY DEF UnlockOnce
<1>c. held'[t] \in Seq(Sections) /\ Levels(t)' = Levels(t) - 1
  <2>1. /\ SubSeq(held[t], 1, Len(held[t]) - 1) \in Seq(Sections)
        /\ Len(SubSeq(held[t], 1, Len(held[t]) - 1)) = Len(held[t]) - 1
    BY <1>a, LevelsChange
  <2>2. held'[t] = SubSeq(held[t], 1, Len(held[t]) - 1)
    BY <1>b DEF IInv, Types
  <2> QED  BY <2>1, <2>2 DEF Levels
<1>d. \A u \in Threads \ {t} : held'[u] = held[u]
  BY <1>b DEF IInv, Types
<1>e. \A u \in Threads \ {t} : Levels(u) = 0
  BY <1>a, LevelsChange DEF IInv, Types, Status, Levels, In, Won
<1>0. /\ Innermost(t) = S
      /\ held'[t] \in Seq(Sections) /\ Levels(t)' = Levels(t) - 1
      /\ Levels(t) = count[S] /\ Levels(t) \in Nat \ {0}
      /\ \A u \in Threads \ {t} : held'[u] = held[u] /\ Levels(u) = 0
  BY <1>a, <1>c, <1>d, <1>e DEF IInv, Status, Levels
<1>1. Types'
  BY <1>0, SetsAssumption, LevelsChange DEF IInv, Types, Places, Locations, UnlockOnce, LastLevel
<1>2. Places(S)'
  BY <1>0, SetsAssumption, LevelsChange DEF IInv, Types, Places, Levels, UnlockOnce, LastLevel
<1>3. Owners(S)'
  BY <1>0, SetsAssumption, LevelsChange DEF IInv, Types, Places, Owners, Levels, UnlockOnce, LastLevel
<1>4. Status(S)'
  BY <1>0, SetsAssumption, LevelsChange DEF IInv, Types, Places, Owners, Status, Levels,
     Passing, In, Won, UnlockOnce, LastLevel
<1> QED  BY <1>1, <1>2, <1>3, <1>4 DEF IInv

LEMMA UnregisterStep ==
    ASSUME NEW S, Sections = {S}, NEW t \in Threads, IInv(S),
           Unregister(t)
    PROVE  IInv(S)'
<1> USE DEF statusVars, waitVars, listVars
<1>a. /\ held[t] \in Seq(Sections) /\ Len(held[t]) \in Nat \ {0}
      /\ Innermost(t) = S
  <2>1. held \in [Threads -> Seq(Sections)] /\ held[t] \in Seq(Sections)
    BY DEF IInv, Types
  <2>2. held[t] # <<>>
    BY DEF Unregister
  <2>3. Len(held[t]) \in Nat \ {0}
    BY <2>1, <2>2, EmptySeq
  <2>4. Levels(t) > 0
    BY <2>3 DEF Levels
  <2> QED  BY <2>1, <2>3, <2>4, InnermostIs
<1>b. held' = [held EXCEPT ![t] = SubSeq(held[t], 1, Len(held[t]) - 1)]
  BY DEF Unregister
<1>c. held'[t] \in Seq(Sections) /\ Levels(t)' = Levels(t) - 1
  <2>1. /\ SubSeq(held[t], 1, Len(held[t]) - 1) \in Seq(Sections)
        /\ Len(SubSeq(held[t], 1, Len(held[t]) - 1)) = Len(held[t]) - 1
    BY <1>a, LevelsChange
  <2>2. held'[t] = SubSeq(held[t], 1, Len(held[t]) - 1)
    BY <1>b DEF IInv, Types
  <2> QED  BY <2>1, <2>2 DEF Levels
<1>d. \A u \in Threads \ {t} : held'[u] = held[u]
  BY <1>b DEF IInv, Types
<1>e. \A u \in Threads \ {t} : Levels(u) = 0
  BY <1>a, LevelsChange DEF IInv, Types, Status, Levels, In, Won
<1>0. /\ Innermost(t) = S
      /\ held'[t] \in Seq(Sections) /\ Levels(t)' = Levels(t) - 1
      /\ Levels(t) = count[S] /\ Levels(t) \in Nat \ {0}
      /\ \A u \in Threads \ {t} : held'[u] = held[u] /\ Levels(u) = 0
  BY <1>a, <1>c, <1>d, <1>e DEF IInv, Status, Levels
<1>1. Types'
  BY <1>0, SetsAssumption, LevelsChange DEF IInv, Types, Places, Locations, Unregister, LastLevel, Unlocked, Goto
<1>2. Places(S)'
  BY <1>0, SetsAssumption, LevelsChange DEF IInv, Types, Places, Levels, Unregister, LastLevel, Unlocked, Goto
<1>3. Owners(S)'
  BY <1>0, SetsAssumption, LevelsChange DEF IInv, Types, Places, Owners, Levels, Unregister, LastLevel, Unlocked, Goto
<1>4. Status(S)'
  BY <1>0, SetsAssumption, LevelsChange DEF IInv, Types, Places, Owners, Status, Levels,
     Passing, In, Won, Unregister, LastLevel, Unlocked, Goto
<1> QED  BY <1>1, <1>2, <1>3, <1>4 DEF IInv

LEMMA ReleaseStep ==
    ASSUME NEW S, Sections = {S}, NEW t \in Threads, IInv(S),
           Release(t)
    PROVE  IInv(S)'
<1> USE DEF statusVars, waitVars, listVars
<1>1. Types'
  <2>1. sec[t] = S /\ pc[t] \in Locations
    BY DEF IInv, Types, Places, Release
  <2>2. pc' \in [Threads -> Locations]
    <3>1. pc \in [Threads -> Locations] /\ "run" \in Locations /\ "slowunlock" \in Locations
      BY DEF IInv, Types, Locations
    <3>2. \E l \in Locations : pc' = [pc EXCEPT ![t] = l]
      BY <3>1 DEF Release, Goto
    <3> QED  BY <3>1, <3>2
  <2>3. count' \in [Sections -> Nat]
    BY <2>1 DEF IInv, Types, Release
  <2> QED  BY <2>2, <2>3 DEF IInv, Types, Release
<1>2. Places(S)'
  BY SetsAssumption, LevelsChange DEF IInv, Types, Places, Levels, Release, CasUnlock, Goto
<1>3. Owners(S)'
  BY SetsAssumption, LevelsChange DEF IInv, Types, Places, Owners, Levels, Release, CasUnlock, Goto
<1>4. Status(S)'
  BY SetsAssumption, LevelsChange DEF IInv, Types, Places, Owners, Status, Levels,
     Passing, In, Won, Release, CasUnlock, Goto
<1> QED  BY <1>1, <1>2, <1>3, <1>4 DEF IInv

LEMMA SlowUnlockStep ==
    ASSUME NEW S, Sections = {S}, NEW t \in Threads, IInv(S),
           SlowUnlock(t)
    PROVE  IInv(S)'
<1> USE DEF statusVars, waitVars, listVars
<1>1. Types'
  <2>1. sec[t] = S
    BY DEF IInv, Places, SlowUnlock
  <2>2. pc' \in [Threads -> Locations]
    BY DEF IInv, Types, Locations, SlowUnlock
  <2>3. GivenBack(S) \in Nat
    BY DEF IInv, Types, GivenBack
  <2>4. count' \in [Sections -> Nat]
    BY <2>1, <2>3 DEF IInv, Types, SlowUnlock
  <2> QED  BY <2>2, <2>4 DEF IInv, Types, SlowUnlock
<1>2. Places(S)'
  BY SetsAssumption, LevelsChange DEF IInv, Types, Places, Levels, SlowUnlock, Wakes, GivenBack
<1>3. Owners(S)'
  BY SetsAssumption, LevelsChange DEF IInv, Types, Places, Owners, Levels, SlowUnlock, Wakes, GivenBack
<1>4. Status(S)'
  BY SetsAssumption, LevelsChange DEF IInv, Types, Places, Owners, Status, Levels,
     Passing, In, Won, SlowUnlock, Wakes, GivenBack
<1> QED  BY <1>1, <1>2, <1>3, <1>4 DEF IInv

LEMMA TerminateOutsideStep ==
    ASSUME NEW S, Sections = {S}, NEW t \in Threads, IInv(S),
           Terminate(t), held[t] = <<>>
    PROVE  IInv(S)'
<1> USE DEF statusVars, waitVars, listVars
<1>0. held[t] = <<>> /\ Levels(t) = 0 /\ locked[t] = NULL /\ Freed(t) = {}
  BY EmptyList DEF IInv, Types, Owners, Levels, Terminate, Freed
<1>1. Types'
  BY <1>0, SetsAssumption, LevelsChange DEF IInv, Types, Places, Locations, Terminate
<1>2. Places(S)'
  BY <1>0, SetsAssumption, LevelsChange DEF IInv, Types, Places, Levels, Terminate
<1>3. Owners(S)'
  BY <1>0, SetsAssumption, LevelsChange DEF IInv, Types, Places, Owners, Levels, Terminate
<1>4. Status(S)'
  BY <1>0, SetsAssumption, LevelsChange DEF IInv, Types, Places, Owners, Status, Levels,
     Passing, In, Won, Terminate
<1> QED  BY <1>1, <1>2, <1>3, <1>4 DEF IInv

\* A thread that dies inside the section gives it to the thread that waits, if one does.
LEMMA TerminateInsideStep ==
    ASSUME NEW S, Sections = {S}, NEW t \in Threads, IInv(S), CInv(S),
           Terminate(t), held[t] # <<>>
    PROVE  IInv(S)'
<1> USE DEF statusVars, waitVars, listVars
<1>0. Levels(t) > 0 /\ locked[t] = S /\ locked[S] = NULL /\ Freed(t) = {S}
  <2>1. held[t] \in Seq(Sections)
    BY DEF IInv, Types
  <2>2. Levels(t) > 0
    BY <2>1, NoLevels, LenProperties DEF Levels
  <2>3. locked[t] = S /\ locked[S] = NULL
    BY <2>2 DEF IInv, Owners
  <2> QED  BY <2>2, <2>3, SingleList DEF Freed
<1>1. Types'
  BY <1>0, SetsAssumption, LevelsChange DEF IInv, Types, Places, Locations, Terminate
<1>2. Places(S)'
  BY <1>0, SetsAssumption, LevelsChange DEF IInv, Types, Places, Levels, Terminate, Wakes,
     CInv, Chain, Nobody, First, Queued
<1>3. Owners(S)'
  BY <1>0, SetsAssumption, LevelsChange DEF IInv, Types, Places, Owners, Status, Levels, In,
     Won, Terminate, Wakes
<1>4. Status(S)'
  BY <1>0, SetsAssumption, LevelsChange DEF IInv, Types, Places, Owners, Status, Levels,
     Passing, In, Won, Terminate, Wakes, CInv, Chain, Nobody, First, Queued
<1> QED  BY <1>1, <1>2, <1>3, <1>4 DEF IInv

LEMMA NextInvariant ==
    ASSUME NEW S, Sections = {S}, ~MayDieInside \/ CInv(S)
    PROVE  IInv(S) /\ [Next]_vars => IInv(S)'
<1> SUFFICES ASSUME IInv(S), [Next]_vars
             PROVE  IInv(S)'
  OBVIOUS
<1>1. CASE UNCHANGED vars
  BY <1>1 DEF vars, statusVars, waitVars, listVars, IInv, Types, Places, Owners,
              Status, Levels, Passing, In, Won
<1>2. ASSUME Next PROVE IInv(S)'
  <2>1. PICK t \in Threads : \/ LockAgain(t, S) \/ LockFast(t, S) \/ LockFails(t, S)
                            \/ LockStep(t) \/ UnlockStep(t) \/ Terminate(t)
    BY <1>2 DEF Next
  <2>2. CASE LockAgain(t, S) \/ LockFast(t, S) \/ LockFails(t, S)
    BY <2>2, LockAgainStep, LockFastStep, LockFailsStep
  <2>3. CASE LockStep(t)
    BY <2>3, SlowLockTakeStep, SlowLockWaitStep, AcquireStep, RegisterStep
       DEF LockStep
  <2>4. CASE UnlockStep(t)
    BY <2>4, UnlockOnceStep, UnregisterStep, ReleaseStep, SlowUnlockStep
       DEF UnlockStep
  <2>5. CASE Terminate(t) /\ held[t] = <<>>
    BY <2>5, TerminateOutsideStep
  <2>6. CASE Terminate(t) /\ held[t] # <<>>
    <3>1. CInv(S)
      BY <2>6 DEF Terminate
    <3> QED  BY <2>6, <3>1, TerminateInsideStep
  <2> QED  BY <2>1, <2>2, <2>3, <2>4, <2>5, <2>6
<1> QED  BY <1>1, <1>2

-------------------------------------------------------------------------------
(* The chain of waiters, until the flag is lost. *)

LEMMA InitChain ==
    ASSUME NEW S, Sections = {S}
    PROVE  Init => CInv(S)
BY SetsAssumption DEF Init, CInv, Cells, Chain, Nobody, Queued

\* A flag that is lost is never found again.
LEMMA LostForEver ==
    ASSUME NEW S, [Next]_vars, S \in lost
    PROVE  S \in lost'
BY DEF Next, vars, LockAgain, LockFast, LockFails, LockStep, SlowLockTake, SlowLockWait,
   Acquire, Register, UnlockStep, UnlockOnce, Unregister, Release, SlowUnlock, Terminate

\* A step that joins nobody to the chain and takes nobody from it keeps it, if it hands
\* the section at most to the first one and leaves somebody who has it, while one waits.
LEMMA ChainKept ==
    ASSUME NEW S, Sections = {S}, CInv(S), UNCHANGED <<flag, waiter, lastRef, prevRef>>,
           \A u \in Threads : Queued(u)' <=> Queued(u),
           \A u \in Threads : pc'[u] = "acquire" => pc[u] = "acquire" \/ waiter[S] = u,
           (\E u \in Threads : Queued(u)) => \E u \in Threads : Won(u)'
    PROVE  CInv(S)'
<1>1. Cells'
  BY DEF CInv, Cells
<1>2. CASE Nobody(S)
  BY <1>1, <1>2 DEF CInv, Chain, Nobody
<1>3. ASSUME NEW f \in Threads, First(S, f) PROVE First(S, f)'
  <2>1. \E u \in Threads : Won(u)'
    BY <1>3 DEF First
  <2>2. /\ Queued(f)' /\ flag'[S] /\ waiter'[S] = f /\ prevRef'[f] = S
        /\ lastRef'[S] \in Threads /\ Queued(f)
    BY <1>3 DEF First
  <2>3. \A u \in Threads : u = lastRef[S] => Queued(u)'
    BY <1>3 DEF First, Queued
  <2>4. Queued(lastRef[S])'
    BY <1>3 DEF First, Queued
  <2>5. \A u \in Threads : pc'[u] = "acquire" => u = f
    BY <1>3 DEF First
  <2>6. waiter'[f] = NULL => lastRef'[S] = f /\ \A u \in Threads : Queued(u)' => u = f
    BY <1>3 DEF First
  <2> QED  BY <2>1, <2>2, <2>4, <2>5, <2>6 DEF First, Queued
<1> QED  BY <1>1, <1>2, <1>3 DEF CInv, Chain

LEMMA JoinChain ==
    ASSUME NEW S, Sections = {S}, NEW t \in Threads, IInv(S), CInv(S), SlowLockWait(t)
    PROVE  CInv(S)'
<1> DEFINE l == lastRef[S]
<1>1. /\ sec[t] = S /\ pc[t] = "slowlock" /\ ~Queued(t) /\ pc' = [pc EXCEPT ![t] = "blocked"]
      /\ pc \in [Threads -> Locations]
      /\ flag'[S] /\ held' = held
      /\ S \notin Threads /\ NULL # S /\ NULL \notin Threads
  BY SetsAssumption DEF SlowLockWait, SetWaitersFlag, Goto, Queued, IInv, Places, Types
<1>2. /\ waiter' = [waiter EXCEPT ![t] = NULL, ![l] = t]
      /\ prevRef' = [prevRef EXCEPT ![t] = l] /\ lastRef' = [lastRef EXCEPT ![S] = t]
  BY <1>1 DEF SlowLockWait
<1>3. Cells' /\ l # t /\ waiter'[t] = NULL /\ waiter'[l] = t /\ prevRef'[t] = l /\ lastRef'[S] = t
  <2>1. l # t
    BY <1>1 DEF CInv, Chain, Nobody, First
  <2> QED  BY <1>1, <1>2, <2>1 DEF CInv, Cells
<1>4. \A u \in Threads : /\ Queued(u)' <=> (u = t \/ Queued(u))
                         /\ pc'[u] = "acquire" => pc[u] = "acquire"
                         /\ Won(u) => Won(u)'
  BY <1>1 DEF Queued, Won, In, Passing, Levels
<1>5. CASE Nobody(S)
  <2>1. \E u \in Threads : Won(u)
    BY <1>1, <1>5 DEF SlowLockWait, SlowTakes, Nobody, IInv, Status
  <2>2. \A u \in Threads : pc'[u] # "acquire" /\ (Queued(u)' => u = t)
    BY <1>4, <1>5 DEF Nobody, Queued
  <2>3. First(S, t)'
    BY <1>1, <1>3, <1>4, <1>5, <2>1, <2>2 DEF Nobody, First
  <2> QED  BY <1>3, <2>3 DEF CInv, Chain
<1>6. ASSUME NEW f \in Threads, First(S, f) PROVE CInv(S)'
  <2>1. f # t /\ l \in Threads /\ Queued(f)
    BY <1>1, <1>6 DEF First
  <2>2. waiter'[S] = f /\ prevRef'[f] = S /\ waiter'[f] # NULL
    <3>1. waiter'[S] = f /\ prevRef'[f] = S
      BY <1>1, <1>2, <1>6, <2>1 DEF First, CInv, Cells
    <3>2. waiter'[f] # NULL
      BY <1>1, <1>2, <1>3, <1>6, <2>1 DEF First, CInv, Cells
    <3> QED  BY <3>1, <3>2
  <2>3. \E u \in Threads : Won(u)'
    BY <1>4, <1>6 DEF First
  <2>4. \A u \in Threads : pc'[u] = "acquire" => u = f
    BY <1>4, <1>6 DEF First
  <2>5. Queued(f)' /\ Queued(t)'
    BY <1>4, <2>1
  <2>6. First(S, f)'
    BY <1>1, <1>3, <2>2, <2>3, <2>4, <2>5 DEF First, Queued
  <2> QED  BY <1>3, <2>6 DEF CInv, Chain
<1> QED  BY <1>5, <1>6 DEF CInv, Chain

LEMMA LeaveChain ==
    ASSUME NEW S, Sections = {S}, NEW t \in Threads, IInv(S), CInv(S), Acquire(t),
           S \notin lost'
    PROVE  CInv(S)'
<1>1. /\ sec[t] = S /\ Queued(t) /\ pc[t] = "acquire" /\ waiter[t] = NULL
      /\ S \notin Threads /\ NULL # S
  BY SetsAssumption DEF Acquire, Queued, IInv, Places
<1>2. First(S, t)
  BY <1>1 DEF CInv, Chain, Nobody, First
<1>3. prevRef[t] = S /\ lastRef[S] = t /\ \A u \in Threads : Queued(u) => u = t
  BY <1>1, <1>2 DEF First
<1>4. waiter' = [waiter EXCEPT ![S] = NULL] /\ lastRef' = [lastRef EXCEPT ![S] = S]
      /\ flag' = [flag EXCEPT ![S] = FALSE] /\ pc' = [pc EXCEPT ![t] = "register"]
      /\ prevRef' = prevRef
  BY <1>1, <1>3 DEF Acquire, Unlinked, LastAfter, Goto
<1>5. Cells' /\ waiter'[S] = NULL /\ lastRef'[S] = S /\ ~flag'[S]
  BY <1>1, <1>4 DEF CInv, Cells, IInv, Types
<1>6. \A u \in Threads : ~Queued(u)'
  BY <1>3, <1>4 DEF Queued, IInv, Types
<1> QED  BY <1>5, <1>6 DEF CInv, Chain, Nobody

LEMMA LockChain ==
    ASSUME NEW S, Sections = {S}, NEW t \in Threads, IInv(S), CInv(S), S \notin lost',
           LockAgain(t, S) \/ LockFast(t, S) \/ LockFails(t, S) \/ LockStep(t)
    PROVE  CInv(S)'
<1> USE DEF statusVars, waitVars, listVars
<1>0. (\E u \in Threads : Queued(u)) => \E u \in Threads : Won(u)
  BY DEF CInv, Chain, Nobody, First
<1>1. CASE LockAgain(t, S)
  <2>1. Levels(t)' > 0
    BY <1>1, LevelsChange DEF LockAgain, IInv, Types, Levels
  <2>2. Won(t)' /\ \A u \in Threads : pc'[u] = pc[u]
    BY <1>1, <2>1 DEF LockAgain, Won, In
  <2> QED  BY <1>1, <2>2, ChainKept DEF Queued, LockAgain
<1>2. CASE LockFast(t, S)
  <2>1. Won(t)' /\ pc'[t] = "register" /\ pc[t] = "run" /\ \A u \in Threads \ {t} : pc'[u] = pc[u]
    BY <1>2 DEF LockFast, Goto, Won, In, Passing, IInv, Types
  <2> QED  BY <1>2, <2>1, ChainKept DEF Queued, LockFast
<1>3. CASE LockFails(t, S)
  <2>1. pc'[t] = "slowlock" /\ pc[t] = "run" /\ held' = held
        /\ \A u \in Threads \ {t} : pc'[u] = pc[u]
    BY <1>3 DEF LockFails, Goto, IInv, Types
  <2>2. \A u \in Threads : Won(u) => Won(u)'
    BY <2>1 DEF Won, In, Passing, Levels
  <2> QED  BY <1>0, <1>3, <2>1, <2>2, ChainKept DEF Queued, LockFails
<1>4. CASE SlowLockTake(t)
  <2>1. Won(t)' /\ pc'[t] = "register" /\ pc[t] = "slowlock"
        /\ \A u \in Threads \ {t} : pc'[u] = pc[u]
    BY <1>4 DEF SlowLockTake, Goto, Won, In, Passing, IInv, Types
  <2> QED  BY <1>4, <2>1, ChainKept DEF Queued, SlowLockTake
<1>5. CASE Register(t)
  <2>1. Levels(t)' > 0
    BY <1>5, LevelsChange DEF Register, IInv, Types, Levels, Places
  <2>2. Won(t)' /\ pc'[t] = "run" /\ pc[t] = "register"
        /\ \A u \in Threads \ {t} : pc'[u] = pc[u]
    BY <1>5, <2>1 DEF Register, Goto, Won, In, IInv, Types
  <2> QED  BY <1>5, <2>2, ChainKept DEF Queued, Register
<1> QED  BY <1>1, <1>2, <1>3, <1>4, <1>5, JoinChain, LeaveChain DEF LockStep

LEMMA UnlockChain ==
    ASSUME NEW S, Sections = {S}, NEW t \in Threads, IInv(S), CInv(S), UnlockStep(t)
    PROVE  CInv(S)'
<1> USE DEF statusVars, waitVars, listVars
<1>1. CASE UnlockOnce(t)
  <2>1. Levels(t) = count[S] /\ count[S] > 1
    <3>1. held[t] \in Seq(Sections) /\ Levels(t) > 0
      BY <1>1, NoLevels, LenProperties DEF UnlockOnce, IInv, Types, Levels
    <3>2. held \in [Threads -> Seq(Sections)] /\ count[S] \in Nat
      BY DEF IInv, Types
    <3>3. Innermost(t) = S
      BY <3>1, <3>2, InnermostIs
    <3> QED  BY <1>1, <3>1, <3>2, <3>3 DEF UnlockOnce, LastLevel, IInv, Status
  <2>2. Levels(t)' > 0
    <3>1. held \in [Threads -> Seq(Sections)] /\ Levels(t) > 0
      BY <2>1 DEF IInv, Types
    <3>2. held'[t] = SubSeq(held[t], 1, Len(held[t]) - 1) /\ held[t] \in Seq(Sections)
      BY <1>1 DEF UnlockOnce, IInv, Types
    <3>3. Levels(t) \in Nat /\ Levels(t) > 1
      BY <2>1, <3>2, LenProperties DEF Levels, IInv, Types
    <3>4. Len(held'[t]) = Len(held[t]) - 1
      BY <3>2, <3>3, LevelsChange DEF Levels
    <3> QED  BY <3>3, <3>4 DEF Levels
  <2>3. Won(t)' /\ pc' = pc
    BY <1>1, <2>2 DEF UnlockOnce, Won, In
  <2> QED  BY <1>1, <2>3, ChainKept DEF Queued, UnlockOnce
<1>2. CASE Unregister(t)
  <2>1. Won(t)' /\ pc'[t] = "cas" /\ pc[t] = "run"
        /\ \A u \in Threads \ {t} : pc'[u] = pc[u]
    BY <1>2 DEF Unregister, Goto, Won, In, Passing, IInv, Types
  <2> QED  BY <1>2, <2>1, ChainKept DEF Queued, Unregister
<1>3. CASE Release(t)
  <2>1. sec[t] = S /\ pc[t] = "cas" /\ pc'[t] \in {"run", "slowunlock"}
        /\ \A u \in Threads \ {t} : pc'[u] = pc[u]
    BY <1>3 DEF Release, Goto, IInv, Places, Types
  <2>2. (\E u \in Threads : Queued(u)) => Won(t)'
    <3>1. CASE CasUnlock(S)
      BY <3>1 DEF CasUnlock, CInv, Chain, Nobody, First
    <3>2. CASE ~CasUnlock(S)
      BY <1>3, <2>1, <3>2 DEF Release, Goto, Won, In, Passing, IInv, Types
    <3> QED  BY <3>1, <3>2
  <2>3. \A u \in Threads : /\ Queued(u)' <=> Queued(u)
                           /\ pc'[u] = "acquire" => pc[u] = "acquire"
    BY <2>1 DEF Queued
  <2> QED  BY <1>3, <2>2, <2>3, ChainKept DEF Release
<1>4. CASE SlowUnlock(t)
  <2>1. sec[t] = S /\ count[S] = 1 /\ Won(t) /\ pc[t] = "slowunlock" /\ pc'[t] = "run"
    BY <1>4 DEF SlowUnlock, IInv, Types, Places, Status, Passing, In, Won
  <2>2. \A u \in Threads : /\ Queued(u)' <=> Queued(u)
                           /\ pc'[u] = "acquire" => pc[u] = "acquire" \/ waiter[S] = u
    BY <1>4, <2>1 DEF SlowUnlock, Wakes, Queued, IInv, Types
  <2>3. ASSUME NEW f \in Threads, First(S, f) PROVE Won(f)'
    <3>1. f # t /\ pc[f] = "blocked"
      BY <2>1, <2>3 DEF First, Queued, IInv, Status, Won
    <3>2. pc'[f] = "acquire"
      BY <1>4, <2>1, <2>3, <3>1 DEF SlowUnlock, Wakes, First, IInv, Types
    <3> QED  BY <3>2 DEF Won
  <2>4. (\E u \in Threads : Queued(u)) => \E u \in Threads : Won(u)'
    BY <2>3 DEF CInv, Chain, Nobody
  <2> QED  BY <1>4, <2>2, <2>4, ChainKept DEF SlowUnlock
<1> QED  BY <1>1, <1>2, <1>3, <1>4 DEF UnlockStep

LEMMA TerminateChain ==
    ASSUME NEW S, Sections = {S}, NEW t \in Threads, IInv(S), CInv(S), Terminate(t)
    PROVE  CInv(S)'
<1> USE DEF statusVars, waitVars, listVars
<1>0. pc[t] = "run" /\ pc'[t] = "dead"
  BY DEF Terminate, IInv, Types
<1>1. CASE held[t] = <<>>
  <2>1. Freed(t) = {} /\ ~Won(t)
    <3>1. Levels(t) = 0
      BY <1>1, EmptySeq DEF Levels
    <3>2. locked[t] = NULL
      BY <3>1 DEF IInv, Owners
    <3> QED  BY <1>0, <3>1, <3>2, EmptyList DEF Freed, Won, In, Passing
  <2>2. \A u \in Threads \ {t} : pc'[u] = pc[u] /\ held'[u] = held[u]
    BY <2>1 DEF Terminate, IInv, Types
  <2>3. \A u \in Threads : /\ Won(u) => Won(u)'
                           /\ (Queued(u)' <=> Queued(u))
                           /\ pc'[u] = "acquire" => pc[u] = "acquire"
    BY <1>0, <2>1, <2>2 DEF Won, In, Passing, Levels, Queued
  <2>4. (\E u \in Threads : Queued(u)) => \E u \in Threads : Won(u)
    BY DEF CInv, Chain, Nobody, First
  <2> QED  BY <2>3, <2>4, ChainKept DEF Terminate
<1>2. CASE held[t] # <<>>
  <2>1. Freed(t) = {S} /\ Won(t)
    <3>1. held[t] \in Seq(Sections)
      BY DEF IInv, Types
    <3>2. Levels(t) > 0
      BY <1>2, <3>1, NoLevels, LenProperties DEF Levels
    <3> QED  BY <3>2, SingleList DEF Freed, IInv, Owners, Won, In
  <2>2. \A u \in Threads : /\ Queued(u)' <=> Queued(u)
                           /\ pc'[u] = "acquire" => pc[u] = "acquire" \/ waiter[S] = u
    BY <1>0, <2>1 DEF Terminate, Wakes, Queued, IInv, Types
  <2>3. ASSUME NEW f \in Threads, First(S, f) PROVE Won(f)'
    <3>1. f # t /\ pc[f] = "blocked"
      BY <1>0, <2>1, <2>3 DEF First, Queued, IInv, Status, Won
    <3>2. pc'[f] = "acquire"
      BY <2>1, <2>3, <3>1 DEF Terminate, Wakes, First, IInv, Types
    <3> QED  BY <3>2 DEF Won
  <2>4. (\E u \in Threads : Queued(u)) => \E u \in Threads : Won(u)'
    BY <2>3 DEF CInv, Chain, Nobody
  <2> QED  BY <2>2, <2>4, ChainKept DEF Terminate
<1> QED  BY <1>1, <1>2

LEMMA NextChain ==
    ASSUME NEW S, Sections = {S}, IInv(S), CInv(S), [Next]_vars, S \notin lost'
    PROVE  CInv(S)'
<1>1. CASE UNCHANGED vars
  BY <1>1 DEF vars, statusVars, waitVars, listVars, CInv, Cells, Chain, Nobody, First,
              Queued, Won, In, Passing, Levels
<1>2. CASE Next
  BY <1>2, LockChain, UnlockChain, TerminateChain DEF Next
<1> QED  BY <1>1, <1>2

-------------------------------------------------------------------------------
(* The theorems. *)

\* Until its flag is lost, wherever threads die and whoever contends: the section has
\* one winner at most, its status tells what that one has, and its chain of waiters,
\* with the flag, starts with the only thread that may be handed it.
THEOREM ChainInvariance ==
    ASSUME NEW CONSTANT S, Sections = {S}
    PROVE  Spec => [](S \notin lost => IInv(S) /\ CInv(S))
<1> DEFINE J == S \notin lost => IInv(S) /\ CInv(S)
<1>1. Init => J
  BY InitInvariant, InitChain
<1>2. J /\ [Next]_vars => J'
  <2>1. SUFFICES ASSUME J, [Next]_vars, S \notin lost'
                 PROVE  IInv(S)' /\ CInv(S)'
    OBVIOUS
  <2>2. IInv(S) /\ CInv(S)
    BY <2>1, LostForEver
  <2> QED  BY <2>1, <2>2, NextInvariant, NextChain
<1> QED  BY <1>1, <1>2, PTL DEF Spec

\* At most one thread has the section or is being given it, and the status of the
\* section tells what it has: whatever the contention if threads die outside it only,
\* and until the flag is lost if they die inside.
THEOREM Invariance ==
    ASSUME NEW CONSTANT S, Sections = {S}
    PROVE  Spec => [](Intact(S) => IInv(S))
<1>1. CASE ~MayDieInside
  <2>1. Init => IInv(S)
    BY InitInvariant
  <2>2. IInv(S) /\ [Next]_vars => IInv(S)'
    BY <1>1, NextInvariant
  <2> QED  BY <2>1, <2>2, PTL DEF Spec
<1>2. CASE MayDieInside
  <2>1. (S \notin lost => IInv(S) /\ CInv(S)) => (Intact(S) => IInv(S))
    BY <1>2 DEF Intact
  <2> QED  BY <2>1, ChainInvariance, PTL
<1> QED  BY <1>1, <1>2

\* Wherever a thread is in a call, the section of the call is the section.
Placed(S) ==
    /\ sec \in [Threads -> Sections \cup {NULL}] /\ pc \in [Threads -> Locations]
    /\ held \in [Threads -> Seq(Sections)]
    /\ \A t \in Threads : pc[t] \notin {"run", "dead"} => sec[t] = S

LEMMA PlacesKnown ==
    ASSUME NEW CONSTANT S, Sections = {S}
    PROVE  Spec => []Placed(S)
<1> USE DEF statusVars, waitVars, listVars
<1>1. Init => Placed(S)
  BY DEF Init, Placed, Locations
<1>2. ASSUME Placed(S), [Next]_vars PROVE Placed(S)'
  <2>1. CASE UNCHANGED vars
    BY <1>2, <2>1 DEF vars, Placed
  <2>2. ASSUME NEW t \in Threads,
               LockAgain(t, S) \/ LockFast(t, S) \/ LockFails(t, S) \/ LockStep(t)
        PROVE  Placed(S)'
    <3>1. held' \in [Threads -> Seq(Sections)]
      <4>1. \A h \in Seq(Sections) : Append(h, S) \in Seq(Sections)
        BY LevelsChange
      <4>2. LockAgain(t, S) \/ Register(t) => held' = [held EXCEPT ![t] = Append(held[t], S)]
        BY <1>2 DEF LockAgain, Register, Placed
      <4>3. ~(LockAgain(t, S) \/ Register(t)) => held' = held
        BY <2>2 DEF LockFast, LockFails, LockStep, SlowLockTake, SlowLockWait, Acquire
      <4> QED  BY <1>2, <4>1, <4>2, <4>3 DEF Placed
    <3>2. /\ sec' = sec \/ sec' = [sec EXCEPT ![t] = S]
          /\ \E l \in Locations : pc' = pc \/ pc' = [pc EXCEPT ![t] = l]
          /\ pc'[t] \notin {"run", "dead"} => sec'[t] = S
      BY <1>2, <2>2 DEF Placed, Locations, Goto, LockAgain, LockFast, LockFails,
         LockStep, SlowLockTake, SlowLockWait, Acquire, Register
    <3> QED  BY <1>2, <3>1, <3>2 DEF Placed
  <2>3. ASSUME NEW t \in Threads, UnlockOnce(t) \/ Unregister(t) PROVE Placed(S)'
    <3>1. Len(held[t]) > 0 /\ held[t] \in Seq(Sections)
      BY <1>2, <2>3, EmptySeq, LenProperties DEF Placed, UnlockOnce, Unregister
    <3>2. Innermost(t) = S
      BY <1>2, <3>1, InnermostIs DEF Placed, Levels
    <3>3. held' \in [Threads -> Seq(Sections)]
      <4>1. SubSeq(held[t], 1, Len(held[t]) - 1) \in Seq(Sections)
        BY <3>1, LevelsChange
      <4> QED  BY <1>2, <2>3, <4>1 DEF Placed, UnlockOnce, Unregister
    <3> QED  BY <1>2, <2>3, <3>2, <3>3 DEF Placed, Locations, Goto, UnlockOnce, Unregister
  <2>4. ASSUME NEW t \in Threads, Release(t) \/ SlowUnlock(t) PROVE Placed(S)'
    BY <1>2, <2>4 DEF Placed, Locations, Goto, Release, SlowUnlock, Wakes
  <2>5. ASSUME NEW t \in Threads, Terminate(t) PROVE Placed(S)'
    BY <1>2, <2>5 DEF Placed, Locations, Terminate, Wakes
  <2> QED  BY <1>2, <2>1, <2>2, <2>3, <2>4, <2>5 DEF Next, UnlockStep
<1> QED  BY <1>1, <1>2, PTL DEF Spec

\* The winners of the invariant are the threads inside.
LEMMA InsideIsIn ==
    ASSUME NEW S, Sections = {S}, IInv(S), NEW t \in Threads
    PROVE  /\ Inside(t, S) <=> In(t)
           /\ Pending(t, S) <=> Passing(t)
<1>1. Depth(t, S) = Levels(t)
  BY DepthIsLevels DEF IInv, Types
<1>2. Pending(t, S) <=> Passing(t)
  BY DEF Pending, Passing, IInv, Places
<1> QED  BY <1>1, <1>2 DEF Inside, Holds, In

\* Two threads are never inside a section, for any number of threads.
THEOREM Exclusion ==
    ASSUME NEW CONSTANT S, Sections = {S}
    PROVE  Spec => []MutualExclusion
<1>1. (Intact(S) => IInv(S)) => MutualExclusion
  BY InsideIsIn DEF MutualExclusion, IInv, Status, Won
<1> QED  BY <1>1, Invariance, PTL

\* The status of a section counts the levels its owner has to give back.
THEOREM LevelsCounted ==
    ASSUME NEW CONSTANT S, Sections = {S}
    PROVE  Spec => []StatusCountsLevels
<1>1. ASSUME Intact(S) => IInv(S) PROVE StatusCountsLevels
  <2>1. SUFFICES ASSUME Intact(S)
                 PROVE  /\ (\A t \in Threads : ~Inside(t, S)) => count[S] = 0
                        /\ \A t \in Threads : Inside(t, S) =>
                              count[S] = Depth(t, S) + (IF Pending(t, S) THEN 1 ELSE 0)
    BY DEF StatusCountsLevels
  <2>2. IInv(S)
    BY <1>1, <2>1
  <2>3. ASSUME NEW t \in Threads, Inside(t, S)
        PROVE  count[S] = Depth(t, S) + (IF Pending(t, S) THEN 1 ELSE 0)
    <3>1. Depth(t, S) = Levels(t) /\ Levels(t) \in Nat /\ In(t)
      BY <2>2, <2>3, DepthIsLevels, InsideIsIn, LevelsChange DEF IInv, Types, Levels
    <3>2. Passing(t) => Levels(t) = 0 /\ count[S] = 1
      BY <2>2 DEF IInv, Places, Status, Passing
    <3>3. ~Passing(t) => count[S] = Levels(t)
      BY <2>2, <3>1 DEF IInv, Status, In
    <3> QED  BY <2>2, <3>1, <3>2, <3>3, InsideIsIn
  <2>4. ASSUME \A t \in Threads : ~Inside(t, S) PROVE count[S] = 0
    BY <2>2, <2>4, InsideIsIn DEF IInv, Status, Won
  <2> QED  BY <2>3, <2>4
<1> QED  BY <1>1, Invariance, PTL

\* A thread that was handed the section finds it free: the assertion of the
\* acquisition's destructor never fails.
THEOREM HandOverIsFree ==
    ASSUME NEW CONSTANT S, Sections = {S}
    PROVE  Spec => []FreeWhenAcquired
<1>1. ASSUME Intact(S) => IInv(S), Placed(S), NEW t \in Threads,
             pc[t] = "acquire", Intact(sec[t])
      PROVE  count[sec[t]] = 0
  <2>1. sec[t] = S /\ IInv(S)
    BY <1>1 DEF Placed
  <2> QED  BY <1>1, <2>1 DEF IInv, Status
<1>2. (Intact(S) => IInv(S)) /\ Placed(S) => FreeWhenAcquired
  BY <1>1 DEF FreeWhenAcquired
<1> QED  BY <1>2, Invariance, PlacesKnown, PTL

\* WAITERS_FLAG is set exactly while there are waiters, until it is lost.
THEOREM FlagIsTrue ==
    ASSUME NEW CONSTANT S, Sections = {S}
    PROVE  Spec => []WaitersFlagTellsTheTruth
<1>1. (S \notin lost => IInv(S) /\ CInv(S)) => WaitersFlagTellsTheTruth
  BY SetsAssumption DEF WaitersFlagTellsTheTruth, CInv, Chain, Nobody, First
<1> QED  BY <1>1, ChainInvariance, PTL

\* A thread that is blocked waits for a section that another one has, or is given,
\* until the flag is lost.
THEOREM BlockedAreOwed ==
    ASSUME NEW CONSTANT S, Sections = {S}
    PROVE  Spec => []BlockedIsOwed
<1>1. ASSUME S \notin lost => IInv(S) /\ CInv(S), Placed(S) PROVE BlockedIsOwed
  <2>1. SUFFICES ASSUME NEW t \in Threads, pc[t] = "blocked", sec[t] \notin lost
                 PROVE  \E u \in Threads : \/ Inside(u, sec[t])
                                           \/ pc[u] = "acquire" /\ sec[u] = sec[t]
    BY DEF BlockedIsOwed
  <2>2. sec[t] = S /\ IInv(S) /\ CInv(S)
    BY <1>1, <2>1 DEF Placed
  <2>3. PICK u \in Threads : Won(u)
    BY <2>1, <2>2 DEF CInv, Chain, Nobody, First, Queued
  <2> QED  BY <2>2, <2>3, InsideIsIn DEF Won, IInv, Places
<1> QED  BY <1>1, ChainInvariance, PlacesKnown, PTL

\* Every section on the list of a thread is its own: the assertion of removeThread.
THEOREM ReleasesItsOwn ==
    ASSUME NEW CONSTANT S, Sections = {S}
    PROVE  Spec => []DyingReleasesItsOwn
<1>1. ASSUME IInv(S), NEW t \in Threads, NEW s \in LockedList(t)
      PROVE  OwnedBy(s, t)
  <2>1. held[t] \in Seq(Sections) /\ Levels(t) \in Nat
    BY <1>1, LenProperties DEF IInv, Types, Levels
  <2>2. Levels(t) > 0 /\ s = S
    BY <1>1, <2>1, EmptyList DEF IInv, Owners, LockedList
  <2> QED  BY <1>1, <2>1, <2>2 DEF IInv, Owners, Status, OwnedBy
<1>2. (Intact(S) => IInv(S)) => DyingReleasesItsOwn
  BY <1>1 DEF DyingReleasesItsOwn, LockedList
<1> QED  BY <1>2, Invariance, PTL

\* A section for which a thread waits goes to that thread, until the flag is lost.
THEOREM NoBarging ==
    ASSUME NEW CONSTANT S, Sections = {S}
    PROVE  Spec => HandedToTheWaiter
<1>1. ASSUME S \notin lost => IInv(S) /\ CInv(S), Placed(S), Placed(S)', [Next]_vars,
             NEW t \in Threads,
             pc[t] # "register", pc'[t] = "register", sec'[t] \notin lost
      PROVE  waiter[sec'[t]] \in {NULL, t}
  <2>0. sec'[t] = S /\ IInv(S) /\ CInv(S)
    BY <1>1 DEF Placed
  <2>1. PICK u \in Threads : \/ LockAgain(u, S) \/ LockFast(u, S) \/ LockFails(u, S)
                            \/ LockStep(u) \/ UnlockStep(u) \/ Terminate(u)
    BY <1>1 DEF Next, vars
  <2>2. \/ LockFast(t, S) \/ SlowLockTake(t) \/ Acquire(t)
    BY <1>1, <2>0, <2>1 DEF IInv, Types, LockAgain, LockFast, LockFails, LockStep,
       SlowLockTake, SlowLockWait, Acquire, Register, UnlockStep, UnlockOnce, Unregister,
       Release, SlowUnlock, Terminate, Goto
  <2>3. CASE LockFast(t, S) \/ SlowLockTake(t)
    BY <1>1, <2>0, <2>3 DEF LockFast, CasLock, SlowLockTake, SlowTakes, IInv, Places, CInv,
       Chain, Nobody, First
  <2>4. CASE Acquire(t)
    BY <2>0, <2>4 DEF Acquire, CInv, Chain, Nobody, First, Queued
  <2> QED  BY <2>2, <2>3, <2>4
<1>2. /\ S \notin lost => IInv(S) /\ CInv(S)
      /\ Placed(S) /\ Placed(S)' /\ [Next]_vars
      => [\A t \in Threads :
             /\ pc[t] # "register" /\ pc'[t] = "register"
             /\ sec'[t] \notin lost
             => waiter[sec'[t]] \in {NULL, t}]_vars
  BY <1>1
<1> QED  BY <1>2, ChainInvariance, PlacesKnown, PTL DEF Spec, HandedToTheWaiter
===============================================================================
