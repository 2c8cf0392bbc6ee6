----------------------------- MODULE MessageQueue -----------------------------
(***************************************************************************)
(* The kernel's message queue (kernel/threading/messagequeue.cpp): a ring  *)
(* of Size slots with two wait flags, used by any number of threads.  A    *)
(* call runs with context switches disabled except while it waits; the     *)
(* queue itself is never touched by an interrupt handler, so a step here   *)
(* is what a thread does between two points at which another one may run,  *)
(* and inside the protected region the steps follow the statements.        *)
(*                                                                         *)
(* The waiters' chain of the queue (waitableobject.cpp) is abstracted to   *)
(* the set of blocked threads.  removeWaiter does not fix the back         *)
(* reference of its successor, so waking two waiters in one pass leaves    *)
(* the chain pointing into dead stack frames: from then on (chainOk =      *)
(* FALSE) a wakeup reaches an arbitrary subset of the blocked threads.     *)
(***************************************************************************)
EXTENDS Naturals, Sequences

CONSTANTS Senders, Receivers, Messages,
          Sends,     \* bound: the messages of each sender
          NULL,      \* a null Object pointer, and "no thread"
          Size       \* maxmsgs of createMessageQueue

Threads == Senders \cup Receivers

ASSUME SizeAssumption == Size \in Nat \ {0}
ASSUME NullAssumption == NULL \notin Messages /\ NULL \notin Threads
ASSUME SendsAssumption == Sends \in [Senders -> SUBSET Messages]
ASSUME RolesAssumption == Senders \cap Receivers = {}

GET == "GET_MSG_READY"
SEND == "SEND_MSG_READY"

VARIABLES
    start, length, messages,  \* the ring
    flags,                    \* wait flags of the queue object
    blocked,                  \* threads inside wait(), on the waiters' chain
    chainOk,                  \* FALSE once the chain holds dangling references
    switchOwner,              \* thread that disabled context switches, or NULL
    pc,                       \* where each thread is in its call
    nowait,                   \* the nowait argument of its call
    edge,                     \* its local wasFull / wasEmpty
    arg,                      \* the message a sender is sending
    got, sent                 \* what the thread's last call returned

queueVars == <<start, length, messages, flags>>
vars == <<start, length, messages, flags, blocked, chainOk, switchOwner, pc,
          nowait, edge, arg, got, sent>>

Slots == 0 .. Size - 1
Locations == {"idle", "enter", "loop", "wake", "finish", "wait", "blocked"}

\* With the switch disabled only the thread that disabled it runs.
CanRun(t) == switchOwner \in {NULL, t}

Step(t, from, to) ==
    /\ CanRun(t)
    /\ pc[t] = from
    /\ pc' = [pc EXCEPT ![t] = to]

Init ==
    /\ start = 0
    /\ length = 0
    /\ messages = [i \in Slots |-> NULL]
    /\ flags = {SEND}
    /\ blocked = {}
    /\ chainOk = TRUE
    /\ switchOwner = NULL
    /\ pc = [t \in Threads |-> "idle"]
    /\ nowait = [t \in Threads |-> FALSE]
    /\ edge = [t \in Threads |-> FALSE]
    /\ arg = [s \in Senders |-> NULL]
    /\ got = [r \in Receivers |-> NULL]
    /\ sent = [s \in Senders |-> FALSE]

\* The flag a thread waits for in its call.
AwaitedFlag(t) == IF t \in Receivers THEN GET ELSE SEND

\* The condition on which its call loops and, with nowait, gives up.
MustWait(t) == IF t \in Receivers THEN length = 0 ELSE length = Size

-------------------------------------------------------------------------------
(* Entering a call, waiting: the same code in getMessage and sendMessage. *)

\* The test made first, before context switches are disabled.
Refused(t, nw) == nw /\ MustWait(t)

\* getMessage up to disableContextSwitch.
GetCall(r, nw) ==
    /\ CanRun(r)
    /\ pc[r] = "idle"
    /\ IF Refused(r, nw)
       THEN got' = [got EXCEPT ![r] = NULL] /\ UNCHANGED <<pc, nowait>>
       ELSE /\ pc' = [pc EXCEPT ![r] = "enter"]
            /\ nowait' = [nowait EXCEPT ![r] = nw]
            /\ UNCHANGED got
    /\ UNCHANGED <<queueVars, blocked, chainOk, switchOwner, edge, arg, sent>>

SendCall(s, m, nw) ==
    /\ CanRun(s)
    /\ pc[s] = "idle"
    /\ IF Refused(s, nw)
       THEN sent' = [sent EXCEPT ![s] = FALSE] /\ UNCHANGED <<pc, nowait, arg>>
       ELSE /\ pc' = [pc EXCEPT ![s] = "enter"]
            /\ nowait' = [nowait EXCEPT ![s] = nw]
            /\ arg' = [arg EXCEPT ![s] = m]
            /\ UNCHANGED sent
    /\ UNCHANGED <<queueVars, blocked, chainOk, switchOwner, edge, got>>

\* disableContextSwitch, before the loop and after each wait.
Disable(t) ==
    /\ Step(t, "enter", "loop")
    /\ switchOwner' = t
    /\ UNCHANGED <<queueVars, blocked, chainOk, nowait, edge, arg, got, sent>>

\* The loop condition holds: enable context switches again, then wait.
LoopAgain(t) ==
    /\ Step(t, "loop", "wait")
    /\ MustWait(t)
    /\ switchOwner' = NULL
    /\ UNCHANGED <<queueVars, blocked, chainOk, nowait, edge, arg, got, sent>>

\* wait() finds the flag set and returns at once.
WaitReturn(t) ==
    /\ Step(t, "wait", "enter")
    /\ AwaitedFlag(t) \in flags
    /\ UNCHANGED <<queueVars, blocked, chainOk, switchOwner, nowait, edge, arg,
                   got, sent>>

\* wait() rechecks the flag with interrupts disabled, joins the chain and
\* leaves the run queue, all before another thread can run.
Recheck_Skipped(t) == TRUE       \* fault: the flag is not checked again
Recheck(t) == AwaitedFlag(t) \notin flags

WaitBlock(t) ==
    /\ Step(t, "wait", "blocked")
    /\ Recheck(t)
    /\ blocked' = blocked \cup {t}
    /\ UNCHANGED <<queueVars, chainOk, switchOwner, nowait, edge, arg, got, sent>>

\* The blocked threads that wait for one of the flags f; the ones left on the
\* chain when some are woken.
Matching_One(f) ==               \* fault: wakes one where it must wake all
    LET m == {w \in blocked : AwaitedFlag(w) \in f}
    IN  IF m = {} THEN {} ELSE {CHOOSE w \in m : TRUE}
Matching(f) == {w \in blocked : AwaitedFlag(w) \in f}

LeftOnChain(woken) == blocked \ woken

\* setWaitFlagAndWakeupAll by thread t, which then goes on to "finish".
WakeupAll(t, flag) ==
    LET matching == Matching(flags \cup {flag})
    IN  \E woken \in SUBSET matching :
          /\ chainOk => woken = matching
          /\ flags' = flags \cup {flag}
          /\ blocked' = LeftOnChain(woken)
          /\ pc' = [w \in Threads |-> CASE w = t -> "finish"
                                        [] w \in woken -> "enter"
                                        [] OTHER -> pc[w]]
          /\ chainOk' = (chainOk /\ \A v, w \in woken : v = w)

-------------------------------------------------------------------------------
(* The two bodies, with context switches disabled. *)

\* wasFull, the slot emptied, and start moved on.
WasFull_Late == length - 1 = Size    \* fault: computed after the decrement
WasFull == length = Size

Oldest_Newest ==                 \* fault: takes what was sent last
    LET i == start + length - 1 IN messages[IF i >= Size THEN i - Size ELSE i]
Oldest == messages[start]

Emptied == [messages EXCEPT ![start] = NULL]

NextStart == IF start + 1 = Size THEN 0 ELSE start + 1

GetTake(r) ==
    /\ Step(r, "loop", "wake")
    /\ ~MustWait(r)
    /\ edge' = [edge EXCEPT ![r] = WasFull]
    /\ got' = [got EXCEPT ![r] = Oldest]
    /\ messages' = Emptied
    /\ start' = NextStart
    /\ length' = length - 1
    /\ UNCHANGED <<flags, blocked, chainOk, switchOwner, nowait, arg, sent>>

\* The slot a send fills.
SendIndex_OffByOne ==            \* fault: > for >=
    IF start + length > Size THEN start + length - Size ELSE start + length

SendIndex ==
    IF start + length >= Size THEN start + length - Size ELSE start + length

SendPut(s) ==
    /\ Step(s, "loop", "wake")
    /\ ~MustWait(s)
    /\ edge' = [edge EXCEPT ![s] = (length = 0)]
    /\ messages' = [messages EXCEPT ![SendIndex] = arg[s]]
    /\ length' = length + 1
    /\ sent' = [sent EXCEPT ![s] = TRUE]
    /\ UNCHANGED <<start, flags, blocked, chainOk, switchOwner, nowait, arg, got>>

\* The queue was full (empty) before: tell the other side.
OtherFlag_Own(t) == AwaitedFlag(t)   \* fault: it tells its own side
OtherFlag(t) == IF t \in Receivers THEN SEND ELSE GET

Wake(t) ==
    /\ CanRun(t)
    /\ pc[t] = "wake"
    /\ IF edge[t]
       THEN WakeupAll(t, OtherFlag(t))
       ELSE Step(t, "wake", "finish") /\ UNCHANGED <<flags, blocked, chainOk>>
    /\ UNCHANGED <<start, length, messages, switchOwner, nowait, edge, arg, got,
                   sent>>

\* The queue is now empty (full): clear this side's flag; then return, which
\* ends the life of the call's locals.
Finish(t) ==
    /\ Step(t, "finish", "idle")
    /\ flags' = IF MustWait(t) THEN flags \ {AwaitedFlag(t)} ELSE flags
    /\ switchOwner' = NULL
    /\ nowait' = [nowait EXCEPT ![t] = FALSE]
    /\ edge' = [edge EXCEPT ![t] = FALSE]
    /\ arg' = [s \in Senders |-> IF s = t THEN NULL ELSE arg[s]]
    /\ UNCHANGED <<start, length, messages, blocked, chainOk, got, sent>>

-------------------------------------------------------------------------------
GetNext(r) == (\E nw \in BOOLEAN : GetCall(r, nw)) \/ GetTake(r)
SendNext(s) ==
    (\E m \in Sends[s], nw \in BOOLEAN : SendCall(s, m, nw)) \/ SendPut(s)
CallNext(t) == Disable(t) \/ LoopAgain(t) \/ WaitReturn(t) \/ WaitBlock(t)
               \/ Wake(t) \/ Finish(t)

Next ==
    \/ \E r \in Receivers : GetNext(r)
    \/ \E s \in Senders : SendNext(s)
    \/ \E t \in Threads : CallNext(t)

Spec == Init /\ [][Next]_vars

\* A ready thread gets the processor again and again (the scheduler's round
\* robin), and whenever it does context switches are enabled or are its own to
\* enable, so strong fairness: a call once entered goes on unless it is blocked.
\* The receiver of a queue is a main loop that always comes back for the next
\* message (AppMainThread::runProc).  Nothing makes a sender send.
Fairness ==
    /\ \A r \in Receivers : SF_vars(GetTake(r) \/ CallNext(r)) /\ SF_vars(GetCall(r, FALSE))
    /\ \A s \in Senders : SF_vars(SendPut(s) \/ CallNext(s))

FairSpec == Spec /\ Fairness

-------------------------------------------------------------------------------
(* Properties. *)

\* The values the state can hold.
TypeOK ==
    /\ start \in Slots
    /\ length \in 0 .. Size
    /\ messages \in [Slots -> Messages \cup {NULL}]
    /\ flags \subseteq {GET, SEND}
    /\ blocked \subseteq Threads
    /\ chainOk \in BOOLEAN
    /\ switchOwner \in Threads \cup {NULL}
    /\ pc \in [Threads -> Locations]
    /\ nowait \in [Threads -> BOOLEAN]
    /\ edge \in [Threads -> BOOLEAN]
    /\ arg \in [Senders -> Messages \cup {NULL}]
    /\ got \in [Receivers -> Messages \cup {NULL}]
    /\ sent \in [Senders -> BOOLEAN]

\* The slot at distance i (from 1) behind start, and the slots in use.
SlotAt(i) == IF start + i - 1 >= Size THEN start + i - 1 - Size ELSE start + i - 1
InUse(k) == (start <= k /\ k < start + length) \/ k + Size < start + length

\* The slots in use hold messages and the others are NULL, whichever way the
\* sends and receives interleave: the collector must not keep a message alive
\* through a slot it has left, and sendMessage asserts that the slot it is about
\* to fill is free (messagequeue.cpp:77).
WindowHoldsTheMessages == \A k \in Slots : InUse(k) <=> messages[k] # NULL

\* At most one thread is between disableContextSwitch and enableContextSwitch
\* (scheduler.cpp:66 asserts it): the region of one call is never entered inside
\* the region of another.
Region == {"loop", "wake", "finish"}
OneThreadInside == \A t \in Threads : pc[t] \in Region <=> switchOwner = t

\* Whenever no call is inside, each flag says exactly whether its operation can
\* proceed; wait() and isGetReady/isSendReady rely on nothing else.
FlagsTellTheTruth ==
    switchOwner = NULL => /\ GET \in flags <=> length > 0
                          /\ SEND \in flags <=> length < Size

\* No lost wakeup: no thread stays blocked while the flag it waits for is set,
\* as long as no two threads were ever woken in one pass.
NoLostWakeup == chainOk => \A t \in blocked : AwaitedFlag(t) \notin flags

\* A thread is on the waiters' chain exactly while it is inside wait().
ChainHoldsTheBlocked == \A t \in Threads : t \in blocked <=> pc[t] = "blocked"

\* A call that has its side of the queue to itself in the end, on a chain that was
\* never damaged.  Neither is sure with several senders (receivers): the code does
\* not queue them, so one may be overtaken for ever.
Undisturbed(t, side) == <>[](chainOk /\ \A o \in side \ {t} : pc[o] = "idle")

\* Every send that was started returns: the receiver keeps coming back, and makes
\* room, and the sender is told.  The senders are alike: one stands for all.
SendReturns ==
    LET s == CHOOSE t \in Senders : TRUE
    IN  Undisturbed(s, Senders) => (pc[s] # "idle" ~> pc[s] = "idle")

\* A receiver inside getMessage while there is a message gets one.
ReceiverServed ==
    LET r == CHOOSE t \in Receivers : TRUE
    IN  Undisturbed(r, Receivers) => (pc[r] # "idle" /\ length > 0 ~> pc[r] = "idle")

\* The ring implements the bounded FIFO: messages leave once each and in order,
\* and a call is refused only when the queue is empty (full) at that moment.
Contents == [i \in 1 .. length |-> messages[SlotAt(i)]]
Fifo == INSTANCE BoundedFifo WITH fifo <- Contents
ImplementsFifo == Fifo!FifoSpec
===============================================================================
