----------------------------- MODULE WaitObjects -----------------------------
(***************************************************************************)
(* Waiting for objects (kernel/threading/waitableobject.cpp and wait() of  *)
(* scheduler.cpp): the flag of each object, the chain of the items that    *)
(* wait for it, reference by reference, and the steps of wait(): a look at *)
(* the flags with interrupts enabled, a second one with interrupts         *)
(* disabled, the items appended; and what wakes the thread: an object that *)
(* is set, or the end of its time.                                         *)
(*                                                                         *)
(* The objects are events, threads and groups whose end is waited for:     *)
(* they have one flag.  Message queues have two, see MessageQueue.         *)
(***************************************************************************)
EXTENDS Naturals, FiniteSets

CONSTANTS Threads, Objects, NULL,
          AutoReset, WakeupAll,  \* the events made with these options; a thread or a
                                 \*   group is set once and for all who wait
          MaxWaiters             \* bound: threads blocked for the same object

ASSUME SetsAssumption == IsFiniteSet(Threads) /\ IsFiniteSet(Objects)
ASSUME PlacesAssumption == /\ NULL \notin Objects \cup (Threads \X Objects)
                           /\ Objects \cap (Threads \X Objects) = {}
ASSUME KindsAssumption == AutoReset \subseteq Objects /\ WakeupAll \subseteq Objects
ASSUME BoundAssumption == MaxWaiters \in Nat \ {0}

VARIABLES
    flags,     \* objects whose flag is set
    chain,     \* the chains of items: first and last reference of each object,
               \*   next item and reference to each item
    pc,        \* where a thread is: "out" of wait(), "checking" the flags, having
               \*   "seen" one of an event that it resets, "blocked"
    list,      \* the objects of the list a thread waits with
    todo,      \* those it has still to check; the one it has seen set
    limit,     \* whether it waits for no time at all, for some time, or for ever
    releases,  \* history: how often an object has released threads since it was last set
    late       \* history: threads that have seen an event set which has released another
               \*   since, before they came to reset it

calls == <<pc, list, todo, limit>>
history == <<releases, late>>
vars == <<flags, chain, calls, history>>

\* A thread has one item for each object of its list.
Items == Threads \X Objects
Links == Items \cup {NULL}
Places == Objects \cup Items      \* the variable "waiters" of an object, or the
                                  \*   "nextInObjChain" of an item
Limits == {"none", "some", "ever"}

-------------------------------------------------------------------------------
(* The chains. *)

\* appendWaiter, for each item of the list.
Appended(C, t, os) ==
    LET new == {t} \X os
    IN  [first |-> [o \in Objects |-> IF o \in os /\ C.last[o] = o THEN <<t, o>> ELSE C.first[o]],
         last |-> [o \in Objects |-> IF o \in os THEN <<t, o>> ELSE C.last[o]],
         next |-> [i \in Items |->
                     IF i \in new THEN NULL
                     ELSE IF i[2] \in os /\ C.last[i[2]] = i THEN <<t, i[2]>>
                     ELSE C.next[i]],
         prev |-> [i \in Items |-> IF i \in new THEN C.last[i[2]] ELSE C.prev[i]]]

\* The last reference when an item goes: the one before, if it was the last.
LastAfter_Same(C, i) == C.last[i[2]]           \* fault: it goes on naming the item
LastAfter(C, i) == IF C.last[i[2]] = i THEN C.prev[i] ELSE C.last[i[2]]

\* removeWaiter, for each item of the list.  The reference of the item that follows is
\* left alone.
Removed(C, t, os) ==
    LET gone == {i \in {t} \X os : C.prev[i] # NULL}
    IN  [first |-> [o \in Objects |->
                      IF <<t, o>> \in gone /\ C.prev[<<t, o>>] = o THEN C.next[<<t, o>>]
                                                                    ELSE C.first[o]],
         last |-> [o \in Objects |-> IF <<t, o>> \in gone THEN LastAfter(C, <<t, o>>)
                                                          ELSE C.last[o]],
         next |-> [i \in Items |->
                     IF i \in gone THEN NULL
                     ELSE IF <<t, i[2]>> \in gone /\ C.prev[<<t, i[2]>>] = i
                     THEN C.next[<<t, i[2]>>]
                     ELSE C.next[i]],
         prev |-> [i \in Items |-> IF i \in gone THEN NULL ELSE C.prev[i]]]

\* setWaitFlagAndWakeupOne and setWaitFlagAndWakeupAll: the loop over the items of the
\* object, which wakes the thread of each, or of the first only, and takes its
\* items from every chain.  The item that follows is read before.
Walk(o) ==
    LET step[n \in 0 .. Cardinality(Items)] ==
            IF n = 0 THEN [chain |-> chain, item |-> chain.first[o], woken |-> {}]
            ELSE LET s == step[n - 1]
                 IN  IF s.item = NULL THEN s
                     ELSE [chain |-> Removed(s.chain, s.item[1], list[s.item[1]]),
                           item |-> IF o \in WakeupAll THEN s.chain.next[s.item] ELSE NULL,
                           woken |-> s.woken \cup {s.item[1]}]
    IN  step[Cardinality(Items)]

-------------------------------------------------------------------------------
Init ==
    /\ flags \in SUBSET Objects
    /\ chain = [first |-> [o \in Objects |-> NULL], last |-> [o \in Objects |-> o],
                next |-> [i \in Items |-> NULL], prev |-> [i \in Items |-> NULL]]
    /\ pc = [t \in Threads |-> "out"]
    /\ list = [t \in Threads |-> {}] /\ todo = [t \in Threads |-> {}]
    /\ limit = [t \in Threads |-> "none"]
    /\ releases = [o \in Objects |-> 0] /\ late = {}

\* The threads leave wait(): their items are given up.
Leave(T) ==
    /\ pc' = [t \in Threads |-> IF t \in T THEN "out" ELSE pc[t]]
    /\ list' = [t \in Threads |-> IF t \in T THEN {} ELSE list[t]]
    /\ todo' = [t \in Threads |-> IF t \in T THEN {} ELSE todo[t]]
    /\ limit' = [t \in Threads |-> IF t \in T THEN "none" ELSE limit[t]]

Blocked(o) == {t \in Threads : pc[t] = "blocked" /\ o \in list[t]}
Seen(o) == {t \in Threads : pc[t] = "seen" /\ o \in todo[t]}

\* The threads T are released by an object: one set, one release, but for those that are
\* late.
Released(T, o) ==
    /\ releases' = [releases EXCEPT ![o] = IF T \subseteq late THEN @ ELSE @ + 1]
    /\ late' = (late \cup Seen(o)) \ T

\* wait(list, msec)
WaitCall(t, os, lim) ==
    /\ pc[t] = "out"
    /\ pc' = [pc EXCEPT ![t] = "checking"]
    /\ list' = [list EXCEPT ![t] = os]
    /\ todo' = [todo EXCEPT ![t] = os]
    /\ limit' = [limit EXCEPT ![t] = lim]
    /\ UNCHANGED <<flags, chain, history>>

\* checkItemFlags, one item: the items come in the order of the list.
FindsUnset(t) ==
    /\ pc[t] = "checking"
    /\ \E o \in todo[t] \ flags : todo' = [todo EXCEPT ![t] = @ \ {o}]
    /\ UNCHANGED <<flags, chain, pc, list, limit, history>>

FindsSet(t) ==
    /\ pc[t] = "checking"
    /\ \E o \in todo[t] \cap flags :
          IF o \in AutoReset
          THEN /\ pc' = [pc EXCEPT ![t] = "seen"]
               /\ todo' = [todo EXCEPT ![t] = {o}]
               /\ UNCHANGED <<list, limit>>
          ELSE Leave({t})
    /\ UNCHANGED <<flags, chain, history>>

\* WaitableEvent::isWaitFlagSet: the flag it has seen set is unset.
Unset(t) ==
    /\ pc[t] = "seen"
    /\ flags' = flags \ todo[t]
    /\ Leave({t}) /\ \E o \in todo[t] : Released({t}, o)
    /\ UNCHANGED chain

\* No flag was set.  wait() returns, or looks again with interrupts disabled and, when
\* it finds none, blocks.
Recheck_Not(t) == {}                           \* fault: it does not look again
Recheck(t) == list[t] \cap flags

NoneFound(t) ==
    /\ pc[t] = "checking" /\ todo[t] = {}
    /\ \/ /\ limit[t] = "none"
          /\ Leave({t}) /\ UNCHANGED <<flags, chain, history>>
       \/ /\ limit[t] # "none"
          /\ \E o \in Recheck(t) : /\ flags' = flags \ ({o} \cap AutoReset)
                                  /\ Released({t}, o)
          /\ Leave({t}) /\ UNCHANGED chain
       \/ /\ limit[t] # "none"
          /\ Recheck(t) = {}
          /\ \A o \in list[t] : Cardinality(Blocked(o)) < MaxWaiters
          /\ chain' = Appended(chain, t, list[t])
          /\ pc' = [pc EXCEPT ![t] = "blocked"]
          /\ UNCHANGED <<flags, list, todo, limit, history>>

\* _sleepTimerHandler and WaitOperation::timeout
TimeOut(t) ==
    /\ pc[t] = "blocked" /\ limit[t] = "some"
    /\ chain' = Removed(chain, t, list[t])
    /\ Leave({t})
    /\ UNCHANGED <<flags, history>>

\* WaitableEvent::set, or the end of a thread or of the last thread of a group.
Spent_Never(o, woken) == {}                    \* fault: it stays set for the next to come
Spent(o, woken) == IF woken = {} THEN {} ELSE {o} \cap AutoReset

Set(o) ==
    LET w == Walk(o)
    IN  /\ flags' = (flags \cup {o}) \ Spent(o, w.woken)
        /\ chain' = w.chain
        /\ Leave(w.woken)
        /\ releases' = [releases EXCEPT ![o] = IF w.woken = {} THEN 0 ELSE 1]
        /\ late' = IF w.woken = {} THEN late ELSE late \cup Seen(o)

\* WaitableEvent::reset
Reset(o) ==
    /\ o \in flags
    /\ flags' = flags \ {o}
    /\ UNCHANGED <<chain, calls, history>>

Next ==
    \/ \E t \in Threads :
          \/ \E os \in (SUBSET Objects) \ {{}}, lim \in Limits : WaitCall(t, os, lim)
          \/ FindsUnset(t) \/ FindsSet(t) \/ Unset(t) \/ NoneFound(t) \/ TimeOut(t)
    \/ \E o \in Objects : Set(o) \/ Reset(o)

Spec == Init /\ [][Next]_vars

-------------------------------------------------------------------------------
(* Properties. *)

\* The items of a chain, from its first.
Chained(o) ==
    {i \in Items :
       \A S \in SUBSET Items :
          (/\ chain.first[o] \in S \cup {NULL}
           /\ \A j \in S : chain.next[j] \in S \cup {NULL}) => i \in S}

\* A chain leads to the items of exactly the threads that are blocked for the object,
\* and its last reference is where the next item belongs.
ChainHoldsTheBlocked ==
    \A o \in Objects :
       /\ Chained(o) = {<<t, o>> : t \in Blocked(o)}
       /\ chain.last[o] = IF chain.first[o] = NULL THEN o ELSE chain.last[o]
       /\ chain.last[o] \in Items => chain.last[o] \in Chained(o) /\ chain.next[chain.last[o]] = NULL

\* One set of an event that resets itself releases threads once, whether they come before
\* or after it, look at it together or wait for others besides: but for a thread that has
\* seen it set, and not reset it yet, when another is released.
OneReleasePerSet == \A o \in AutoReset : releases[o] <= 1

\* What the threads see is what Events promises.
Abstract == INSTANCE Events WITH
    isSet <- flags,
    waits <- [t \in Threads |-> IF pc[t] = "blocked" THEN list[t] ELSE {}]

ImplementsEvents == Abstract!Spec
=============================================================================
