------------------------------- MODULE Events -------------------------------
(***************************************************************************)
(* What wait() and the objects one waits for promise, whatever the kernel  *)
(* does inside: a thread waits for any of several objects; setting one     *)
(* releases one of the threads that wait for it, or all of them; an object *)
(* that resets itself is set for those only, or for one that asks later.   *)
(***************************************************************************)
CONSTANTS Threads, Objects,
          AutoReset,     \* objects that are reset by whom they release
          WakeupAll      \* objects that release all who wait for them

VARIABLES
    isSet,     \* objects that are set
    waits      \* what each thread waits for

vars == <<isSet, waits>>

Init == /\ isSet \in SUBSET Objects
        /\ waits = [t \in Threads |-> {}]

Spent(o) == IF o \in AutoReset THEN isSet \ {o} ELSE isSet \cup {o}

\* A thread that does not wait yet finds an object set.
Find(t, o) == /\ o \in isSet /\ waits[t] = {}
              /\ isSet' = Spent(o)
              /\ UNCHANGED waits

\* It starts to wait only when none is.
Block(t, os) == /\ waits[t] = {} /\ os \cap isSet = {}
                /\ waits' = [waits EXCEPT ![t] = os]
                /\ UNCHANGED isSet

TimeOut(t) == /\ waits' = [waits EXCEPT ![t] = {}]
              /\ UNCHANGED isSet

Waiters(o) == {t \in Threads : o \in waits[t]}

Release(o, R) == /\ IF o \in WakeupAll THEN R = Waiters(o)
                                       ELSE \E t \in Waiters(o) : R = {t}
                 /\ waits' = [t \in Threads |-> IF t \in R THEN {} ELSE waits[t]]
                 /\ isSet' = Spent(o)

Set(o) == IF Waiters(o) = {}
          THEN isSet' = isSet \cup {o} /\ UNCHANGED waits
          ELSE \E R \in SUBSET Waiters(o) : Release(o, R)

Reset(o) == isSet' = isSet \ {o} /\ UNCHANGED waits

Next == \/ \E o \in Objects : Set(o) \/ Reset(o)
        \/ \E t \in Threads : \/ TimeOut(t)
                              \/ \E o \in Objects : Find(t, o)
                              \/ \E os \in SUBSET Objects : Block(t, os)

Spec == Init /\ [][Next]_vars
=============================================================================
