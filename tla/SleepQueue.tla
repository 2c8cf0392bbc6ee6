----------------------------- MODULE SleepQueue -----------------------------
(***************************************************************************)
(* Sleeping and timing out (kernel/threading/scheduler.cpp, from "sleeping *)
(* mechanism"): the list of sleepers, sorted by the tick each wants to be  *)
(* woken at, reference by reference; the one-shot timer armed for the      *)
(* first of them; its handler; the tick counter that wraps around.         *)
(*                                                                         *)
(* A sleeper is a SleepOperation on the stack of a thread that waits:      *)
(* one of each thread.  A wait that gives no time is not in the list, and  *)
(* its thread is not "asleep" here.                                        *)
(***************************************************************************)
EXTENDS Integers, FiniteSets

CONSTANTS Threads,
          NULL, HEAD,     \* no operation; the place of the variable "sleepers"
          Wrap,           \* 2^32: the counter of ticks is unsigned long
          MaxSleep,       \* bound: the longest time a thread asks for
          MaxLate,        \* bound: how late the handler may run
          Early,          \* by how much the timer may strike too early
          Company         \* bound: whether others may be in the list together with
                          \*   an operation that may end before its time

ASSUME ThreadsAssumption == /\ IsFiniteSet(Threads)
                            /\ NULL \notin Threads /\ HEAD \notin Threads
                            /\ NULL # HEAD /\ NULL \notin Int
ASSUME TimesAssumption == /\ MaxSleep \in Nat \ {0} /\ MaxLate \in Nat /\ Early \in Nat
                          /\ Wrap \in Nat
                          /\ 2 * (MaxSleep + MaxLate) < Wrap
ASSUME CompanyAssumption == Company \in BOOLEAN

VARIABLES
    queue,      \* the variable "sleepers" and the fields of the operations
    asleep,     \* threads that wait with a time: on the waiting ring
    objects,    \* those of them that wait for an object, too
    left,       \* the ticks until each thread asleep is due, as it was asked for
    tick,       \* getTickCount()
    alarm,      \* ticks until the timer strikes; NULL: not armed
    pending     \* its interrupt is triggered

threadVars == <<queue, asleep, objects, left>>
timerVars == <<alarm, pending>>
vars == <<threadVars, tick, timerVars>>

Places == Threads \cup {HEAD}
Refs == Places \cup {NULL}
Ops == Threads \cup {NULL}

-------------------------------------------------------------------------------
(* The list.  A reference is a place: the head, or the "next" of an operation. *)

At(q, p) == IF p = HEAD THEN q.head ELSE q.next[p]

Write(q, p, op) == IF p = HEAD THEN [q EXCEPT !.head = op]
                               ELSE [q EXCEPT !.next[p] = op]

\* (signed long)(a - b)
Difference_Unsigned(a, b) == (a - b) % Wrap    \* fault: without the cast
Difference(a, b) ==
    LET d == (a - b) % Wrap
    IN  IF 2 * d >= Wrap THEN d - Wrap ELSE d

\* The places a walk from the head comes to, going on at those where Goes holds.
Walked(q, Goes) ==
    LET closed == {S \in SUBSET Places :
                     /\ HEAD \in S
                     /\ \A p \in S \cap Goes : At(q, p) # NULL => At(q, p) \in S}
    IN  {p \in Places : \A S \in closed : p \in S}

\* The places whose operation is to be woken before the target.
Before(q, target) ==
    {p \in Places : /\ At(q, p) # NULL
                    /\ Difference(target, q.target[At(q, p)]) > 0}

InsertAt(q, target) ==
    LET before == Before(q, target)
    IN  CHOOSE p \in Walked(q, before) : p \notin before

\* SleepOperation(msec).  The reference of the operation that follows is left alone.
Inserted(q, t, target) ==
    LET p == InsertAt(q, target)
    IN  Write([q EXCEPT !.target[t] = target, !.ref[t] = p, !.next[t] = At(q, p)], p, t)

\* doAbort
Aborted(q, t) ==
    IF q.ref[t] = NULL THEN q
    ELSE LET w == Write(q, q.ref[t], q.next[t])
         IN  [w EXCEPT !.ref = [r \in Threads |->
                                  IF r = t THEN NULL
                                  ELSE IF r = q.next[t] THEN q.ref[t]
                                  ELSE q.ref[r]]]

\* The places whose operation the handler wakes.
Due_Exact(q, now) ==                           \* fault: those a little early have to wait
    {p \in Places : At(q, p) # NULL /\ Difference(q.target[At(q, p)], now) <= 0}
Due(q, now) ==
    {p \in Places : At(q, p) # NULL /\ Difference(q.target[At(q, p)], now) <= 2}

\* The operations the handler takes from the front, and the list after it.
Popped(q, now) ==
    LET due == Due(q, now)
    IN  {At(q, p) : p \in Walked(q, due) \cap due}

AfterPop(q, now) ==
    LET due == Due(q, now)
        popped == Popped(q, now)
        rest == CHOOSE p \in Walked(q, due) : p \notin due
    IN  [q EXCEPT !.head = At(q, rest),
                  !.ref = [t \in Threads |-> IF t \in popped THEN NULL ELSE q.ref[t]]]

\* Once its thread goes on, an operation is no more: its fields have no value.
Gone(q, T) ==
    [q EXCEPT !.next = [t \in Threads |-> IF t \in T THEN NULL ELSE q.next[t]],
              !.target = [t \in Threads |-> IF t \in T THEN 0 ELSE q.target[t]]]

-------------------------------------------------------------------------------
Init ==
    /\ queue = [head |-> NULL, next |-> [t \in Threads |-> NULL],
                ref |-> [t \in Threads |-> NULL], target |-> [t \in Threads |-> 0]]
    /\ asleep = {} /\ objects = {} /\ left = [t \in Threads |-> 0]
    /\ tick \in 0 .. Wrap - 1
    /\ alarm = NULL /\ pending = FALSE

\* sleep(msec), and wait() with a time.
Rearmed_IfEmpty(p, msec) == IF queue.head = NULL THEN msec ELSE alarm  \* fault: never earlier
Rearmed(p, msec) == IF p = HEAD THEN msec ELSE alarm

Sleep(t, msec) ==
    /\ t \notin asleep
    /\ objects = {} \/ Company
    /\ LET target == (tick + msec) % Wrap
       IN  /\ queue' = Inserted(queue, t, target)
           /\ alarm' = Rearmed(InsertAt(queue, target), msec)
    /\ asleep' = asleep \cup {t}
    /\ \/ UNCHANGED objects
       \/ (asleep = {} \/ Company) /\ objects' = objects \cup {t}
    /\ left' = [left EXCEPT ![t] = msec]
    /\ UNCHANGED <<tick, pending>>

\* The object a thread waits for is set before its time is over: WaitOperation::wakeup.
Abort(t) ==
    /\ t \in objects
    /\ queue' = Gone(Aborted(queue, t), {t})
    /\ asleep' = asleep \ {t}
    /\ objects' = objects \ {t}
    /\ left' = [left EXCEPT ![t] = 0]
    /\ UNCHANGED <<tick, timerVars>>

\* Time passes, but nobody is kept waiting for longer than the bound.
Tick ==
    /\ \A t \in asleep : left[t] > -MaxLate
    /\ tick' = (tick + 1) % Wrap
    /\ left' = [t \in Threads |-> IF t \in asleep THEN left[t] - 1 ELSE left[t]]
    /\ alarm' = IF alarm \in 1 .. MaxSleep THEN alarm - 1 ELSE alarm
    /\ UNCHANGED <<queue, asleep, objects, pending>>

TimerStrikes ==
    /\ alarm # NULL /\ alarm <= Early
    /\ alarm' = NULL
    /\ pending' = TRUE
    /\ UNCHANGED <<threadVars, tick>>

\* _sleepTimerHandler, after which the dispatcher clears the interrupt.
Retriggered_Not(q) == alarm                    \* fault: the next sleeper is forgotten
Retriggered(q) ==
    IF q.head = NULL THEN alarm ELSE (q.target[q.head] - tick) % Wrap

HandlerRuns ==
    /\ pending
    /\ LET popped == Popped(queue, tick)
           rest == AfterPop(queue, tick)
       IN  /\ queue' = Gone(rest, popped)
           /\ asleep' = asleep \ popped
           /\ objects' = objects \ popped
           /\ left' = [t \in Threads |-> IF t \in popped THEN 0 ELSE left[t]]
           /\ alarm' = Retriggered(rest)
    /\ pending' = FALSE
    /\ UNCHANGED tick

Next ==
    \/ \E t \in Threads : Abort(t) \/ \E msec \in 1 .. MaxSleep : Sleep(t, msec)
    \/ Tick \/ TimerStrikes \/ HandlerRuns

Spec == Init /\ [][Next]_vars

\* Time passes, the timer strikes, the dispatcher serves it.  Said of the variable
\* that only Tick, and only HandlerRuns, writes that way: TLC has less to evaluate.
TimePasses == (\A t \in asleep : left[t] > -MaxLate) /\ tick' = (tick + 1) % Wrap
Served == pending /\ pending' = FALSE

Fairness == SF_tick(TimePasses) /\ WF_vars(TimerStrikes) /\ WF_pending(Served)

FairSpec == Spec /\ Fairness

-------------------------------------------------------------------------------
(* Properties. *)

\* The operations in the list.
Listed == {At(queue, p) : p \in Walked(queue, Places)} \ {NULL}

\* The list holds the operations of exactly the threads that are asleep: nobody is
\* left out of it for good, and no operation stays in it that is over (it is on the
\* stack of a call that has returned).  Along the list the sleepers come in the order
\* they are due, over the wrap-around of the counter.
ListIsSorted ==
    /\ Listed = asleep
    /\ \A t \in Listed : queue.next[t] # NULL => left[t] <= left[queue.next[t]]

\* As long as somebody is in the list the timer is armed to strike no later than the
\* first is due (or at once, if that is over), or its interrupt is on its way.
TimerCovers ==
    \/ queue.head = NULL
    \/ pending
    \/ alarm # NULL /\ (alarm = 0 \/ alarm <= left[queue.head])

\* The handler wakes nobody more than two ticks early (its tolerance), and after it
\* nobody is asleep whose time is over or within the tolerance: the first of the list
\* is no reason to let the others oversleep.
WokenOnTime ==
    [][pending /\ ~pending' => /\ \A t \in asleep \ asleep' : left[t] <= 2
                              /\ \A t \in asleep' : left[t] > 2]_vars

\* Whoever sleeps is woken, however early or late the timer strikes.  The threads
\* are alike: one of them stands for all.
SleepersWake ==
    LET t == CHOOSE s \in Threads : TRUE IN t \in asleep ~> t \notin asleep
=============================================================================
