------------------------------ MODULE Scheduler ------------------------------
(***************************************************************************)
(* The thread scheduler (kernel/threading/scheduler.cpp) on the simulated  *)
(* processor: the rings of runnable and of waiting threads, pointer by     *)
(* pointer, the scheduler timer with its time slices, the lock on context  *)
(* switches, and the dispatcher (kernel/archs/win32/threading.cpp) that    *)
(* serves one interrupt and then switches threads.                         *)
(*                                                                         *)
(* A step of a thread is a region it runs with interrupts disabled; the    *)
(* call of reschedule() that ends most of them is a step of its own,       *)
(* because an interrupt can come in between.  reschedule() returns after   *)
(* the switch, as the system call does.  A step of the dispatcher is one   *)
(* turn of its loop, during which no thread runs.                          *)
(***************************************************************************)
EXTENDS Naturals, FiniteSets

CONSTANTS Threads,
          Priority,     \* the priority a thread is created with
          NULL

ASSUME ThreadsAssumption == NULL \notin Threads /\ IsFiniteSet(Threads)
ASSUME PriorityAssumption == Priority \in [Threads -> 0 .. 5]

VARIABLES
    links,            \* next and prev of the threads, root of each ring
    running,          \* threads with FLAG_RUNNING
    started, dead,    \* threads with FLAG_HAS_RUN; those that were removed
    operation,        \* what a waiting thread waits for: a "section" or a "sleep"
                      \*   (a time, an object, or both)
    threadCount,      \* _threadCount
    current,          \* _currentThread
    needsReschedule,  \* _needsReschedule
    switchDisabled,   \* _threadSwitchDisabled
    owing,            \* threads that have changed a ring and not yet called
                      \*   reschedule()
    armed, fired,     \* the scheduler timer: waiting to strike; its interrupt
    awake,            \* the dispatcher is not waiting for a notification
    strayed           \* history: a tick was served between the moment a thread left
                      \*   its ring and the switch to another

threadVars == <<links, running, started, dead, operation, threadCount>>
cpuVars == <<current, needsReschedule, switchDisabled>>
timerVars == <<armed, fired>>
vars == <<threadVars, cpuVars, timerVars, owing, awake, strayed>>

\* SysThread::getPriority(): any priority but zero is the same.
Queue(t) == IF Priority[t] # 0 THEN 1 ELSE 0
Waiting == 2
Rings == {0, 1, Waiting}

-------------------------------------------------------------------------------
(* The rings. *)

\* A thread leaves the ring of a root.  Its own links are written when it joins
\* another ring.
Unlink_KeepsRoot(L, t, q) ==               \* fault: the root goes on naming it
    IF L.next[t] = NULL THEN L
    ELSE IF L.next[t] = t THEN [L EXCEPT !.root[q] = NULL]
    ELSE [L EXCEPT !.next[L.prev[t]] = L.next[t], !.prev[L.next[t]] = L.prev[t]]

Unlink(L, t, q) ==
    IF L.next[t] = NULL THEN L
    ELSE IF L.next[t] = t THEN [L EXCEPT !.root[q] = NULL]
    ELSE [L EXCEPT !.root[q] = IF @ = t THEN L.next[t] ELSE @,
                   !.next[L.prev[t]] = L.next[t],
                   !.prev[L.next[t]] = L.prev[t]]

AppendTo(L, t, q) ==
    LET r == L.root[q] IN
    IF r = NULL
    THEN [L EXCEPT !.next[t] = t, !.prev[t] = t, !.root[q] = t]
    ELSE [L EXCEPT !.next[t] = r, !.prev[t] = L.prev[r],
                   !.next[L.prev[r]] = t, !.prev[r] = t]

\* A thread alone on its ring gets the new one put before it, as the root.
PutOnFront(L, t, q) ==
    LET r == L.root[q] IN
    [L EXCEPT !.next[t] = r, !.prev[t] = r, !.next[r] = t, !.prev[r] = t,
              !.root[q] = t]

Alone(L, q) == L.root[q] # NULL /\ L.next[L.root[q]] = L.root[q]

Enqueue_AtEnd(L, t, q) == AppendTo(L, t, q)  \* fault: no special case
Enqueue(L, t, q) == IF Alone(L, q) THEN PutOnFront(L, t, q) ELSE AppendTo(L, t, q)

\* setThreadRunningRaw of a thread that is not running.
MadeRunning(L, t) == Enqueue(Unlink(L, t, Waiting), t, Queue(t))

\* Threads that setThreadRunning can be called for: waiting, or not yet started.
Idle == Threads \ (running \cup dead)

\* A thread counts from its first run on.
Counted(u) == IF u \in started THEN threadCount ELSE threadCount + 1

\* setThreadRunningRaw: the rings, the flags and the count.
RunRaw(L, u) ==
    /\ links' = MadeRunning(L, u)
    /\ running' = running \cup {u}
    /\ operation' = [operation EXCEPT ![u] = NULL]
    /\ started' = started \cup {u}
    /\ threadCount' = Counted(u)

-------------------------------------------------------------------------------
\* The boot code starts the first thread.
Init ==
    \E b \in Threads :
       /\ links = [next |-> [t \in Threads |-> IF t = b THEN b ELSE NULL],
                   prev |-> [t \in Threads |-> IF t = b THEN b ELSE NULL],
                   root |-> [q \in Rings |-> IF q = Queue(b) THEN b ELSE NULL]]
       /\ running = {b} /\ started = {b} /\ dead = {} /\ threadCount = 1
       /\ operation = [t \in Threads |-> NULL]
       /\ current = NULL
       /\ needsReschedule = TRUE
       /\ switchDisabled = FALSE
       /\ owing = {}
       /\ armed = FALSE /\ fired = FALSE
       /\ awake = TRUE /\ strayed = FALSE

-------------------------------------------------------------------------------
(* Steps of the current thread. *)

\* The thread is in its own code: not inside reschedule().
Runs(t) == /\ current = t /\ t \in running
           /\ t \notin owing
           /\ needsReschedule => switchDisabled

\* setThreadRunning, from start() or from a system call that wakes a thread.
MakeRun(t, u) ==
    /\ Runs(t)
    /\ u \in Idle
    /\ RunRaw(links, u)
    /\ owing' = owing \cup {t}
    /\ UNCHANGED <<dead, cpuVars, timerVars, awake, strayed>>

\* setThreadWaiting, of the calling thread.  Only a thread that waits for a section
\* does it while switches are disabled.
Wait(t) ==
    /\ Runs(t)
    /\ links' = AppendTo(Unlink(links, t, Queue(t)), t, Waiting)
    /\ running' = running \ {t}
    /\ operation' = [operation EXCEPT
                        ![t] = IF switchDisabled THEN "section" ELSE "sleep"]
    /\ owing' = owing \cup {t}
    /\ UNCHANGED <<started, dead, threadCount, cpuVars, timerVars, awake, strayed>>

\* sleep(0): the next thread of the ring becomes the root.
Yield(t) ==
    /\ Runs(t)
    /\ links' = IF links.root[Queue(t)] = t
                THEN [links EXCEPT !.root[Queue(t)] = links.next[t]]
                ELSE links
    /\ owing' = owing \cup {t}
    /\ UNCHANGED <<running, started, dead, operation, threadCount, cpuVars, timerVars, awake, strayed>>

\* removeThread: the rings forget the thread; one that waited for its end, or for
\* a section it held, is made runnable.
Removed(L, t) ==
    [Unlink(L, t, Queue(t)) EXCEPT !.next[t] = NULL, !.prev[t] = NULL]

Remove(t) ==
    /\ Runs(t)
    /\ ~switchDisabled
    /\ dead' = dead \cup {t}
    /\ threadCount' = threadCount - 1
    /\ \/ links' = Removed(links, t) /\ running' = running \ {t}
          /\ UNCHANGED operation
       \/ \E u \in Idle \cap started :
             /\ links' = MadeRunning(Removed(links, t), u)
             /\ running' = (running \ {t}) \cup {u}
             /\ operation' = [operation EXCEPT ![u] = NULL]
    /\ owing' = owing \cup {t}
    /\ UNCHANGED <<started, cpuVars, timerVars, awake, strayed>>

\* reschedule(): the dispatcher is notified unless switches are disabled.
Notified == awake \/ ~switchDisabled

Reschedule(t) ==
    /\ current = t /\ t \in owing
    /\ owing' = owing \ {t}
    /\ needsReschedule' = TRUE
    /\ awake' = Notified
    /\ UNCHANGED <<threadVars, current, switchDisabled, timerVars, strayed>>

DisableContextSwitch(t) ==
    /\ Runs(t) /\ ~switchDisabled
    /\ switchDisabled' = TRUE
    /\ UNCHANGED <<threadVars, current, needsReschedule, timerVars, owing, awake, strayed>>

\* Also by a thread that has just put itself on the waiting ring.
CatchUp == awake \/ needsReschedule

EnableContextSwitch(t) ==
    /\ current = t /\ t \notin owing
    /\ switchDisabled
    /\ switchDisabled' = FALSE
    /\ awake' = CatchUp
    /\ UNCHANGED <<threadVars, current, needsReschedule, timerVars, owing, strayed>>

-------------------------------------------------------------------------------
(* The timer and the dispatcher. *)

TimerStrikes ==
    /\ armed
    /\ armed' = FALSE /\ fired' = TRUE
    /\ awake' = TRUE
    /\ UNCHANGED <<threadVars, cpuVars, owing, strayed>>

\* _getThreadToRun
ThreadToRun_LowFirst(L) ==                 \* fault: the lower ring first
    IF L.root[0] # NULL THEN L.root[0] ELSE L.root[1]
ThreadToRun(L) == IF L.root[1] # NULL THEN L.root[1] ELSE L.root[0]

\* The timer after a switch: paused with at most one thread to run, restarted for
\* a new one.
Rearmed_Never(L, r) == armed               \* fault: never restarted
Rearmed(L, r) == IF r = NULL \/ L.next[r] = r THEN FALSE
                 ELSE r # current \/ armed

\* The end of a turn of the dispatcher, which may switch threads.
MaySwitch == ~switchDisabled

SwitchIf(wanted, L) ==
    IF wanted /\ MaySwitch
    THEN /\ current' = ThreadToRun(L)
         /\ armed' = Rearmed(L, ThreadToRun(L))
         /\ needsReschedule' = FALSE
    ELSE /\ needsReschedule' = wanted
         /\ UNCHANGED <<current, armed>>

\* While a switch is wanted and disabled, the dispatcher lets the thread go on.
Deferred == needsReschedule /\ switchDisabled

\* _schedulerTimerHandler: the ring of the current thread goes on to the next one.
\* Nothing keeps the tick from coming when the thread is on that ring no more: then
\* the root becomes a thread that waits, or NULL.
Rotated(L) == IF current = NULL THEN L
              ELSE [L EXCEPT !.root[Queue(current)] = L.next[current]]

ServeTick ==
    /\ awake /\ fired /\ ~Deferred
    /\ fired' = FALSE
    /\ strayed' = (strayed \/ (current # NULL /\ current \notin running))
    /\ links' = Rotated(links)
    /\ SwitchIf(needsReschedule \/ current # NULL, Rotated(links))
    /\ UNCHANGED <<running, started, dead, operation, threadCount, switchDisabled,
                   owing, awake>>

\* Any other interrupt, whose handler makes a waiting thread runnable: its time is
\* over or its object is set.  Sections are only given by threads.
ServeWakeup(u) ==
    /\ u \in Idle \cap started /\ operation[u] = "sleep"
    /\ ~Deferred
    /\ RunRaw(links, u)
    /\ awake' = TRUE
    /\ SwitchIf(TRUE, MadeRunning(links, u))
    /\ UNCHANGED <<dead, switchDisabled, fired, owing, strayed>>

\* A switch without an interrupt, or with one that came after the look for one.
Dispatch ==
    /\ awake /\ needsReschedule /\ ~switchDisabled
    /\ SwitchIf(TRUE, links)
    /\ UNCHANGED <<threadVars, switchDisabled, fired, owing, awake, strayed>>

\* Nothing to do: the dispatcher waits for a notification.
DispatcherWaits ==
    /\ awake /\ ~fired /\ ~needsReschedule
    /\ awake' = FALSE
    /\ UNCHANGED <<threadVars, cpuVars, timerVars, owing, strayed>>

-------------------------------------------------------------------------------
ThreadStep(t) ==
    \/ \E u \in Threads : MakeRun(t, u)
    \/ Wait(t) \/ Yield(t) \/ Remove(t) \/ Reschedule(t)
    \/ DisableContextSwitch(t) \/ EnableContextSwitch(t)

DispatcherStep == ServeTick \/ Dispatch \/ DispatcherWaits

Next ==
    \/ \E t \in Threads : ThreadStep(t) \/ ServeWakeup(t)
    \/ TimerStrikes
    \/ DispatcherStep

Spec == Init /\ [][Next]_vars

\* The dispatcher has a processor of its own and the highest priority, and looks for
\* interrupts at every turn, so a tick is served however many turns end without it;
\* the timer strikes once its time is over, whatever happens meanwhile; the thread
\* that runs leaves the regions where switches are disabled and the calls it is in.
Fairness ==
    /\ WF_vars(DispatcherStep) /\ SF_vars(ServeTick)
    /\ SF_vars(TimerStrikes)
    /\ WF_vars(\E t \in Threads : Reschedule(t))
    /\ SF_vars(\E t \in Threads : EnableContextSwitch(t))

FairSpec == Spec /\ Fairness

-------------------------------------------------------------------------------
(* Properties. *)

\* The threads that belong on a ring, by their flags.
Members(q) == IF q = Waiting THEN started \ (running \cup dead)
              ELSE {t \in running : Queue(t) = q}

\* A ring of exactly the threads S: next and prev are inverse, and a walk from the
\* root visits them all.
IsRing(L, q, S) ==
    IF S = {} THEN L.root[q] = NULL
    ELSE /\ L.root[q] \in S
         /\ \A t \in S : /\ L.next[t] \in S /\ L.prev[t] \in S
                         /\ L.prev[L.next[t]] = t /\ L.next[L.prev[t]] = t
         /\ \A C \in SUBSET S : C # {} /\ (\A t \in C : L.next[t] \in C) => C = S

\* Flags and rings agree: the ring of each priority class holds the threads
\* flagged running, the waiting ring the others that live, and no link leaves a
\* ring, whatever order threads start, wait, are woken, yield and die in.
RingsMatchFlags == ~strayed => \A q \in Rings : IsRing(links, q, Members(q))

\* A thread that is on no ring has no links, so it can be put on one.
OffRingUnlinked ==
    ~strayed => \A t \in Threads \ (started \ dead) : links.next[t] = NULL /\ links.prev[t] = NULL

\* The assertions before a root is set to NULL (scheduler.cpp:127, 191, 252): a
\* thread that is alone on its ring is the root.
LastOneIsRoot ==
    ~strayed => \A t \in started \ dead :
       links.next[t] = t => links.root[IF t \in running THEN Queue(t) ELSE Waiting] = t

\* With no switch pending the processor runs a runnable thread of the highest
\* ring, and is idle only when nobody can run.
HighestRuns ==
    ~strayed /\ ~needsReschedule /\ current \notin owing =>
       IF running = {} THEN current = NULL
       ELSE /\ current \in running
            /\ \A t \in running : Queue(t) <= Queue(current)

\* "otherwise scheduler will never trigger timer" (scheduler.cpp:147): when the
\* running thread shares its ring, its time slice is going to end.
SharedSliceEnds ==
    ~strayed /\ ~needsReschedule /\ current # NULL /\ current \notin owing
       /\ links.next[current] # current => armed \/ fired

\* A switch that is wanted and allowed is never left to chance: the dispatcher is
\* awake to make it.
SwitchIsHeard == needsReschedule /\ ~switchDisabled => awake

\* While switches are disabled the processor stays with the thread: "the task is
\* guaranteed to be resumed" (scheduler.h:52).
NoSwitchWhileDisabled == [][switchDisabled => current' = current]_vars

\* Round robin: a runnable thread of the highest class gets the processor.
RunnableRuns ==
    \A t \in Threads :
       t \in running /\ (\A u \in Threads : Queue(u) <= Queue(t))
          ~> current = t \/ t \notin running \/ strayed
==============================================================================
