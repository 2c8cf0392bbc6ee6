--------------------------- MODULE CriticalSection ---------------------------
(***************************************************************************)
(* The recursive critical section: the user-level fast path with a         *)
(* compare-and-swap (kernel/archs/win32/criticalsection.cpp, the same on   *)
(* ARM), the system calls behind it (kernel/threading/criticalsection.cpp) *)
(* and the release of the sections a dying thread still holds              *)
(* (Scheduler::removeThread).                                              *)
(*                                                                         *)
(* A step is what one thread does without another one being able to run:   *)
(* a compare-and-swap, a list operation on lists of its own, or a system   *)
(* call, which runs with context switches disabled until it returns or     *)
(* blocks.  The intrusive lists are kept pointer by pointer, because the   *)
(* code unlinks an element without fixing the back reference of its        *)
(* successor: a cell is the list head in a section (thread) or the next    *)
(* field of a waiter (section), and a back reference names a cell.  The    *)
(* waiter of a thread lives in its stack; after the wait its memory is     *)
(* taken to keep its last contents, one of the outcomes the build has.     *)
(***************************************************************************)
EXTENDS Naturals, Sequences, FiniteSets

CONSTANTS Threads, Sections,
          NULL,
          MaxDepth,     \* bound: sections a thread holds at once, with repetition
          MayDieInside  \* whether a thread may die holding a section: not from a
                        \*   synchronized block, which unlocks while an exception
                        \*   unwinds, but from the bare locks of math/dtoa.cpp

ASSUME SetsAssumption == /\ Threads \cap Sections = {}
                         /\ NULL \notin Threads \cup Sections
ASSUME BoundsAssumption == MaxDepth \in Nat \ {0} /\ MayDieInside \in BOOLEAN

VARIABLES
    count, flag,      \* status without WAITERS_FLAG, and WAITERS_FLAG
    owner,            \* CriticalSection::thread
    waiter,           \* cells: waiters of a section, next of a thread's waiter
    lastRef,          \* lastWaiterRef: the cell a new waiter is written to
    prevRef,          \* prevRef of a thread's waiter: the cell that points to it
    locked,           \* cells: firstLocked of a thread, nextLockedForThread of
                      \*   a section
    lockedRef,        \* prevLockedForThreadRef
    pc, sec,          \* where each thread is, and the section of its call
    held,             \* the nested sections a thread is in, innermost last
    lost              \* history: the sections a woken thread took while another
                      \*   one waited behind it, whose flag it cleared

statusVars == <<count, flag, owner>>
waitVars == <<waiter, lastRef, prevRef>>
listVars == <<locked, lockedRef>>
vars == <<statusVars, waitVars, listVars, pc, sec, held, lost>>

Locations == {"run", "slowlock", "blocked", "acquire", "register",
              "cas", "slowunlock", "dead"}

Init ==
    /\ count = [s \in Sections |-> 0]
    /\ flag = [s \in Sections |-> FALSE]
    /\ owner = [s \in Sections |-> NULL]
    /\ waiter = [c \in Sections \cup Threads |-> NULL]
    /\ lastRef = [s \in Sections |-> s]
    /\ prevRef = [t \in Threads |-> NULL]
    /\ locked = [c \in Sections \cup Threads |-> NULL]
    /\ lockedRef = [s \in Sections |-> NULL]
    /\ pc = [t \in Threads |-> "run"]
    /\ sec = [t \in Threads |-> NULL]
    /\ held = [t \in Threads |-> <<>>]
    /\ lost = {}

Goto(t, l) == pc' = [pc EXCEPT ![t] = l]
Innermost(t) == held[t][Len(held[t])]
OwnedBy(s, t) == (count[s] # 0 \/ flag[s]) /\ owner[s] = t

-------------------------------------------------------------------------------
(* CriticalSection::lock *)

\* The section is this thread's already: count once more.
LockAgain(t, s) ==
    /\ pc[t] = "run"
    /\ OwnedBy(s, t)
    /\ Len(held[t]) < MaxDepth
    /\ count' = [count EXCEPT ![s] = @ + 1]
    /\ held' = [held EXCEPT ![t] = Append(@, s)]
    /\ UNCHANGED <<flag, owner, waitVars, listVars, pc, sec, lost>>

\* compare-and-swap 0 -> 1, or else the system call.
CasLock_IgnoresFlag(s) == count[s] = 0     \* fault: takes a section handed over
CasLock(s) == count[s] = 0 /\ ~flag[s]

LockFast(t, s) ==
    /\ pc[t] = "run" /\ ~OwnedBy(s, t)
    /\ Len(held[t]) < MaxDepth
    /\ CasLock(s)
    /\ count' = [count EXCEPT ![s] = 1]
    /\ sec' = [sec EXCEPT ![t] = s]
    /\ Goto(t, "register")
    /\ UNCHANGED <<flag, owner, waitVars, listVars, held, lost>>

LockFails(t, s) ==
    /\ pc[t] = "run" /\ ~OwnedBy(s, t)
    /\ Len(held[t]) < MaxDepth
    /\ ~CasLock(s)
    /\ sec' = [sec EXCEPT ![t] = s]
    /\ Goto(t, "slowlock")
    /\ UNCHANGED <<statusVars, waitVars, listVars, held, lost>>

\* Kernel lock: the section may have become free meanwhile, or the thread joins
\* the waiters and leaves the run queue.
SlowTakes(t, s) == ~flag[s] /\ (count[s] = 0 \/ owner[s] = t)

SlowLockTake(t) ==
    LET s == sec[t] IN
    /\ pc[t] = "slowlock"
    /\ SlowTakes(t, s)
    /\ count' = [count EXCEPT ![s] = @ + 1]
    /\ Goto(t, "register")
    /\ UNCHANGED <<flag, owner, waitVars, listVars, sec, held, lost>>

SetWaitersFlag_Not(s) == flag              \* fault: the flag is not set
SetWaitersFlag(s) == [flag EXCEPT ![s] = TRUE]

SlowLockWait(t) ==
    LET s == sec[t] IN
    /\ pc[t] = "slowlock"
    /\ ~SlowTakes(t, s)
    /\ waiter' = [waiter EXCEPT ![t] = NULL, ![lastRef[s]] = t]
    /\ prevRef' = [prevRef EXCEPT ![t] = lastRef[s]]
    /\ lastRef' = [lastRef EXCEPT ![s] = t]
    /\ flag' = SetWaitersFlag(s)
    /\ Goto(t, "blocked")
    /\ UNCHANGED <<count, owner, listVars, sec, held, lost>>

\* Woken: the acquisition object leaves the waiters' list and takes the section.
\* Its doAbort clears the flag when the list is empty; then status becomes 1,
\* flag or not.
Unlinked(t) == [waiter EXCEPT ![prevRef[t]] = waiter[t]]

LastAfter(t, s) == IF lastRef[s] = t THEN prevRef[t] ELSE lastRef[s]

Acquire(t) ==
    LET s == sec[t] IN
    /\ pc[t] = "acquire"
    /\ waiter' = Unlinked(t)
    /\ lastRef' = [lastRef EXCEPT ![s] = LastAfter(t, s)]
    /\ count' = [count EXCEPT ![s] = 1]
    /\ flag' = [flag EXCEPT ![s] = FALSE]
    /\ lost' = IF waiter[t] = NULL THEN lost ELSE lost \cup {s}
    /\ Goto(t, "register")
    /\ UNCHANGED <<owner, prevRef, listVars, sec, held>>

\* registerThreadLock: push the section on the thread's list; lock() returns.
Register(t) ==
    LET s == sec[t] IN
    /\ pc[t] = "register"
    /\ owner' = [owner EXCEPT ![s] = t]
    /\ lockedRef' = [r \in Sections |-> IF r = s THEN t
                                        ELSE IF r = locked[t] THEN s
                                        ELSE lockedRef[r]]
    /\ locked' = [locked EXCEPT ![s] = locked[t], ![t] = s]
    /\ held' = [held EXCEPT ![t] = Append(@, s)]
    /\ Goto(t, "run")
    /\ UNCHANGED <<count, flag, waitVars, sec, lost>>

-------------------------------------------------------------------------------
(* CriticalSection::unlock, of the innermost section: every use in the code is *)
(* a synchronized block or nested like one.                                    *)

LastLevel(s) == count[s] <= 1

UnlockOnce(t) ==
    LET s == Innermost(t) IN
    /\ pc[t] = "run" /\ held[t] # <<>>
    /\ ~LastLevel(s)
    /\ count' = [count EXCEPT ![s] = @ - 1]
    /\ held' = [held EXCEPT ![t] = SubSeq(@, 1, Len(@) - 1)]
    /\ UNCHANGED <<flag, owner, waitVars, listVars, pc, sec, lost>>

\* unregisterThreadLock: only the cell before the section is fixed.
Unlocked_Not(s) == locked                  \* fault: stays in the thread's list
Unlocked(s) == [locked EXCEPT ![lockedRef[s]] = locked[s]]

Unregister(t) ==
    LET s == Innermost(t) IN
    /\ pc[t] = "run" /\ held[t] # <<>>
    /\ LastLevel(s)
    /\ locked' = Unlocked(s)
    /\ owner' = [owner EXCEPT ![s] = NULL]
    /\ held' = [held EXCEPT ![t] = SubSeq(@, 1, Len(@) - 1)]
    /\ sec' = [sec EXCEPT ![t] = s]
    /\ Goto(t, "cas")
    /\ UNCHANGED <<count, flag, waitVars, lockedRef, lost>>

\* compare-and-swap 1 -> 0, or else the system call.
CasUnlock_IgnoresFlag(s) == count[s] = 1   \* fault: the waiters are forgotten
CasUnlock(s) == count[s] = 1 /\ ~flag[s]

Release(t) ==
    LET s == sec[t] IN
    /\ pc[t] = "cas"
    /\ IF CasUnlock(s)
       THEN count' = [count EXCEPT ![s] = 0] /\ Goto(t, "run")
       ELSE Goto(t, "slowunlock") /\ UNCHANGED count
    /\ UNCHANGED <<flag, owner, waitVars, listVars, sec, held, lost>>

\* The thread a waiters' list names first is made runnable, if it is not.
Wakes(s, t) == waiter[s] = t /\ pc[t] = "blocked"

\* Kernel unlock: the last level of a section with waiters goes to the first.
GivenBack(s) == IF count[s] > 1 THEN count[s] - 1 ELSE 0

SlowUnlock(t) ==
    LET s == sec[t]
        handedOver == flag[s] /\ count[s] <= 1
    IN
    /\ pc[t] = "slowunlock"
    /\ count' = [count EXCEPT ![s] = GivenBack(s)]
    /\ pc' = [u \in Threads |-> CASE u = t -> "run"
                                  [] u # t /\ handedOver /\ Wakes(s, u) -> "acquire"
                                  [] OTHER -> pc[u]]
    /\ UNCHANGED <<flag, owner, waitVars, listVars, sec, held, lost>>

-------------------------------------------------------------------------------
(* Scheduler::removeThread, as far as it concerns critical sections: the loop *)
(* from firstLocked on.                                                       *)

\* The sections the list of a thread leads to: the least set that holds the first
\* one and, with a section, the next one.
LockedList(t) ==
    {s \in Sections : \A C \in SUBSET Sections :
        (/\ locked[t] \in C \cup {NULL}
         /\ \A r \in C : locked[r] \in C \cup {NULL}) => s \in C}

Freed_None(t) == {}                        \* fault: nothing is released
Freed(t) == LockedList(t)

Terminate(t) ==
    /\ pc[t] = "run"
    /\ held[t] = <<>> \/ MayDieInside
    /\ owner' = [s \in Sections |-> IF s \in Freed(t) THEN NULL ELSE owner[s]]
    /\ count' = [s \in Sections |-> IF s \in Freed(t) THEN 0 ELSE count[s]]
    /\ pc' = [u \in Threads |->
                 CASE u = t -> "dead"
                   [] u # t /\ \E s \in Freed(t) : Wakes(s, u) -> "acquire"
                   [] OTHER -> pc[u]]
    /\ locked' = [locked EXCEPT ![t] = NULL]
    /\ held' = [held EXCEPT ![t] = <<>>]
    /\ UNCHANGED <<flag, waitVars, lockedRef, sec, lost>>

-------------------------------------------------------------------------------
LockStep(t) == SlowLockTake(t) \/ SlowLockWait(t) \/ Acquire(t) \/ Register(t)
UnlockStep(t) == UnlockOnce(t) \/ Unregister(t) \/ Release(t) \/ SlowUnlock(t)

Next ==
    \E t \in Threads :
       \/ \E s \in Sections : LockAgain(t, s) \/ LockFast(t, s) \/ LockFails(t, s)
       \/ LockStep(t)
       \/ UnlockStep(t)
       \/ Terminate(t)

Spec == Init /\ [][Next]_vars

\* A ready thread gets the processor again and again, so calls go on; and a
\* thread leaves every synchronized block it enters, or dies.  No thread ever has
\* to lock a section.
Fairness ==
    \A t \in Threads :
       /\ WF_vars(LockStep(t)) /\ WF_vars(Release(t)) /\ WF_vars(SlowUnlock(t))
       /\ SF_vars(UnlockOnce(t)) /\ SF_vars(Unregister(t))

FairSpec == Spec /\ Fairness

-------------------------------------------------------------------------------
(* Properties. *)

\* The values the state can hold.
TypeOK ==
    /\ count \in [Sections -> Nat]
    /\ flag \in [Sections -> BOOLEAN]
    /\ owner \in [Sections -> Threads \cup {NULL}]
    /\ waiter \in [Sections \cup Threads -> Threads \cup {NULL}]
    /\ lastRef \in [Sections -> Sections \cup Threads]
    /\ prevRef \in [Threads -> Sections \cup Threads \cup {NULL}]
    /\ locked \in [Sections \cup Threads -> Sections \cup {NULL}]
    /\ lockedRef \in [Sections -> Sections \cup Threads \cup {NULL}]
    /\ pc \in [Threads -> Locations]
    /\ sec \in [Threads -> Sections \cup {NULL}]
    /\ held \in [Threads -> Seq(Sections)]
    /\ lost \subseteq Sections

Depth(t, s) == Cardinality({i \in DOMAIN held[t] : held[t][i] = s})
Holds(t, s) == Depth(t, s) > 0

\* Thread t has section s, or is about to (it has won it), or is giving it back.
Pending(t, s) == sec[t] = s /\ pc[t] \in {"register", "cas", "slowunlock"}
Inside(t, s) == Holds(t, s) \/ Pending(t, s)

\* The flag of a section is lost when a woken thread takes it while another waits
\* behind: status becomes 1 (criticalsection.cpp:60).  From then on its waiters are
\* forgotten; and once threads die inside, it is worse.
Intact(s) == MayDieInside => s \notin lost

\* Two threads are never inside the same section: taking it (fast path, system
\* call, hand-over to a waiter, release by a dying thread) is exclusive however
\* the steps interleave; but for threads that die inside after the flag was lost.
MutualExclusion ==
    \A s \in Sections, t, u \in Threads :
       Intact(s) /\ Inside(t, s) /\ Inside(u, s) => t = u

\* "status is 0 when free, 1 when acquired, n when acquired multiple times by the
\* same thread" (criticalsection.h:35): the count is the number of levels its
\* owner still has to give back, at any point of any call.
StatusCountsLevels ==
    \A s \in Sections : Intact(s) =>
       /\ (\A t \in Threads : ~Inside(t, s)) => count[s] = 0
       /\ \A t \in Threads :
             Inside(t, s) => count[s] = Depth(t, s) + (IF Pending(t, s) THEN 1 ELSE 0)

\* "status is ored with WAITERS_FLAG when there are waiters" (criticalsection.h:36):
\* the flag is set exactly while the list of waiters is not empty, whoever joins,
\* dies or is handed the section, until the one step that loses it.
WaitersFlagTellsTheTruth ==
    \A s \in Sections : s \notin lost => (flag[s] <=> waiter[s] # NULL)

\* A blocked thread waits for a section somebody has, or that has just been handed
\* over, so somebody still has to give it back; until the flag is lost.
BlockedIsOwed ==
    \A t \in Threads : pc[t] = "blocked" /\ sec[t] \notin lost =>
       \E u \in Threads : \/ Inside(u, sec[t])
                          \/ pc[u] = "acquire" /\ sec[u] = sec[t]

\* "we get stuck here until critical section is released"
\* (criticalsection.cpp:86): the same, at all times.
BlockedOnlyWhileHeld ==
    \A t \in Threads : pc[t] = "blocked" =>
       \E u \in Threads : \/ Inside(u, sec[t])
                          \/ pc[u] = "acquire" /\ sec[u] = sec[t]

\* The assertion of a dying thread (scheduler.cpp:213): every section on its list
\* is still its own, so it releases nobody else's.
DyingReleasesItsOwn ==
    \A t \in Threads : pc[t] = "run" =>
       \A s \in LockedList(t) : Intact(s) => OwnedBy(s, t)

\* The assertion of a thread that takes the section at the end of its wait
\* (criticalsection.cpp:59): nobody has it.
FreeWhenAcquired ==
    \A t \in Threads : pc[t] = "acquire" /\ Intact(sec[t]) => count[sec[t]] = 0

\* No barging: a section for which a thread waits goes to that thread, never to
\* one that comes later and finds the status momentarily without a count.
HandedToTheWaiter ==
    [][\A t \in Threads :
          /\ pc[t] # "register" /\ pc'[t] = "register"
          /\ sec'[t] \notin lost
          => waiter[sec'[t]] \in {NULL, t}]_vars

\* A thread that asks for a section gets it, unless the flag of the section is lost.
LockReturns ==
    \A t \in Threads : pc[t] \in {"slowlock", "blocked", "acquire"} ~>
                           pc[t] = "run" \/ sec[t] \in lost
==============================================================================
