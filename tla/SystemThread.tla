---------------------------- MODULE SystemThread ----------------------------
(***************************************************************************)
(* The system thread (env/impl/system.cpp): it waits for keys, for the end *)
(* of the application and for the first of the timers, sends what happens  *)
(* to the application's message queue, and starts another when it has      *)
(* ended.  The thread of the application sets timers meanwhile.            *)
(*                                                                         *)
(* A timer keeps the tick it is for, as a signed number of as many bits as *)
(* the tick counter has.  The list is sorted by these numbers as they are, *)
(* while the time left is their difference from the counter: where the     *)
(* counter wraps around, the two do not agree.                             *)
(*                                                                         *)
(* A message queue (MessageQueue) is the number of its messages, a         *)
(* keyboard that of its codes, ready while there are some; restart is an   *)
(* event that resets itself (Events).  The program has one environment,    *)
(* and one application at a time: a calculator, and the next when it ends. *)
(***************************************************************************)
EXTENDS Integers, Sequences, SequencesExt

CONSTANTS NULL,
          Timers,
          Workloads,   \* bound: what a behaviour is made of: the timers that are set, with
                       \*   a delay and whether they repeat, whether the application may
                       \*   die, whether keys come in
          Keyboards,   \* as a sequence, in the order they are read
          QueueSize,   \* of the message queue, 10
          HalfRange,   \* a long is from -HalfRange to HalfRange - 1: 2^31
          MaxLate      \* bound: ticks the system thread may be late

ASSUME SystemAssumption ==
    /\ HalfRange \in Nat \ {0} /\ MaxLate \in 0 .. HalfRange
    /\ Workloads \subseteq [sets : SUBSET (Timers \X (2 .. HalfRange - 1) \X BOOLEAN),
                            dies : BOOLEAN, keys : BOOLEAN]    \* one tick is due at once
    /\ QueueSize \in Nat \ {0} /\ NULL \notin Timers
    /\ Keyboards \in Seq(STRING) \ {<<>>}
    /\ Range(Keyboards) \cap {"collect", "fire", "wait", "reap"} = {}    \* as pc names them

VARIABLES
    workload,  \* what this behaviour is made of
    now,       \* the tick counter, as a signed number
    timers,    \* the list, by time
    timer,     \* each timer: targetTime, period (0: none), cancelled, and its application
    alive,     \* the main thread of the active application runs
    queue,     \* messages for it
    setting,   \* what it is doing to a timer
    restart,   \* restartEvent
    pending,   \* codes in each keyboard
    pc, timeOut,
    misled     \* history: the wait was computed, or a timer queued since, while the list
               \*   was not in the order of the time left

sysVars == <<pc, timeOut, misled>>
appVars == <<alive, queue>>
timerVars == <<timers, timer>>
vars == <<workload, now, timerVars, appVars, setting, restart, pending, sysVars>>

\* What a timer has that is not on the list is for nobody to read.
Unused == [targetTime |-> 0, period |-> 0, canceled |-> TRUE, app |-> "active"]

Listed(t) == t \in Range(timers)
BeingWritten(t) == setting.t = t
NotSetting == [stage |-> "none", t |-> NULL, period |-> 0]
Forever == -1

\* What a long keeps of a number; the time a timer has left.
Signed(n) == ((n + HalfRange) % (2 * HalfRange)) - HalfRange
Left(t) == Signed(timer[t].targetTime - now)

\* A later timer stands before t because its number is for after the wrap-around.
Overtaken(t) ==
    \E u \in Range(timers) : timer[u].targetTime < timer[t].targetTime /\ Left(u) > Left(t)
SomeOvertaken == \E t \in Range(timers) : Overtaken(t)

Init ==
    /\ workload \in Workloads /\ now = 0
    /\ timers = <<>>
    /\ timer = [t \in Timers |-> Unused]
    /\ alive = TRUE /\ queue = 0
    /\ setting = NotSetting
    /\ restart = FALSE /\ pending = [k \in Range(Keyboards) |-> 0]
    /\ pc = "collect" /\ timeOut = Forever /\ misled = FALSE

-------------------------------------------------------------------------------
(* The list of timers. *)

Target(tm, t) == tm[t].targetTime

InPlace_Before(ts, tm, l) ==                           \* fault: looks at the one before it only
    l = 1 \/ Target(tm, ts[l - 1]) <= Target(tm, ts[l])
InPlace(ts, tm, l) ==
    /\ l = 1 \/ Target(tm, ts[l - 1]) <= Target(tm, ts[l])
    /\ l = Len(ts) \/ Target(tm, ts[l + 1]) >= Target(tm, ts[l])

\* A block of the list puts an item that belongs into its front half behind the one it
\* should come before (CircArray!InsertAt); i counts from 0.
Inserted(ts, i, t) == InsertAt(ts, IF i < Len(ts) \div 2 THEN i + 2 ELSE i + 1, t)

\* queueTimer: the list, and whether the timer is the first of it.
Queued(ts, tm, t) ==
    LET l == IF t \in Range(ts) THEN CHOOSE n \in DOMAIN ts : ts[n] = t ELSE 0
        others == IF l = 0 THEN ts ELSE RemoveAt(ts, l)
        later == {n \in DOMAIN others : Target(tm, others[n]) > Target(tm, t)}
        n == CHOOSE m \in later : \A k \in later : m <= k
    IN  IF l # 0 /\ InPlace(ts, tm, l) THEN [list |-> ts, first |-> l = 1]
        ELSE IF later = {} THEN [list |-> Append(others, t), first |-> others = <<>>]
        ELSE [list |-> Inserted(others, n - 1, t), first |-> n = 1]

-------------------------------------------------------------------------------
(* The thread of the application: whatever it does between two messages. *)

MayAct == alive /\ setting = NotSetting
Mine(t) == timer[t].app = "active"

\* Timer::set writes one field after the other, in no section, before it asks the system
\* to queue the timer.
SetTargetTime(t, d, periodic) ==
    /\ MayAct /\ Mine(t) /\ <<t, d, periodic>> \in workload.sets
    /\ timer' = [timer EXCEPT ![t].targetTime = Signed(now + d)]
    /\ setting' = [stage |-> "time", t |-> t, period |-> IF periodic THEN d ELSE 0]
    /\ UNCHANGED <<workload, now, timers, appVars, restart, pending, sysVars>>

SetPeriod ==
    /\ setting.stage = "time"
    /\ timer' = [timer EXCEPT ![setting.t].period = setting.period]
    /\ setting' = [setting EXCEPT !.stage = "period", !.period = 0]
    /\ UNCHANGED <<workload, now, timers, appVars, restart, pending, sysVars>>

SetCanceled ==
    /\ setting.stage = "period"
    /\ timer' = [timer EXCEPT ![setting.t].canceled = FALSE]
    /\ setting' = [setting EXCEPT !.stage = "written"]
    /\ UNCHANGED <<workload, now, timers, appVars, restart, pending, sysVars>>

SectionFree == pc # "fire"

\* registerTimer: the event follows when the section has been left.
RegisterTimer_Silent ==                                \* fault: the event never follows
    /\ setting.stage = "written" /\ SectionFree
    /\ timers' = Queued(timers, timer, setting.t).list
    /\ setting' = NotSetting
    /\ UNCHANGED <<workload, now, timer, appVars, restart, pending, pc, timeOut>>
    /\ misled' = (misled \/ (pc = "wait" /\ SomeOvertaken'))
RegisterTimer ==
    /\ setting.stage = "written" /\ SectionFree
    /\ LET q == Queued(timers, timer, setting.t)
       IN  /\ timers' = q.list
           /\ setting' = IF q.first THEN [NotSetting EXCEPT !.stage = "queued"] ELSE NotSetting
    /\ UNCHANGED <<workload, now, timer, appVars, restart, pending, pc, timeOut>>
    /\ misled' = (misled \/ (pc = "wait" /\ SomeOvertaken'))

SetRestart ==
    /\ setting.stage = "queued"
    /\ restart' = TRUE /\ setting' = NotSetting
    /\ UNCHANGED <<workload, now, timerVars, appVars, pending, sysVars>>

Cancel(t) ==
    /\ MayAct /\ Mine(t) /\ Listed(t)
    /\ timer' = [timer EXCEPT ![t].canceled = TRUE]
    /\ UNCHANGED <<workload, now, timers, appVars, setting, restart, pending, sysVars>>

\* The main loop of an application; an exception that nobody catches ends it.
Handle ==
    /\ MayAct /\ queue > 0
    /\ queue' = queue - 1
    /\ UNCHANGED <<workload, now, timerVars, alive, setting, restart, pending, sysVars>>

Die ==
    /\ MayAct /\ workload.dies
    /\ alive' = FALSE
    /\ UNCHANGED <<workload, now, timerVars, queue, setting, restart, pending, sysVars>>

\* The garbage collector clears the reference of a timer to an application that is gone.
Collect(t) ==
    /\ timer[t].app = "former"
    /\ timer' = [timer EXCEPT ![t].app = "gone"]
    /\ UNCHANGED <<workload, now, timers, appVars, setting, restart, pending, sysVars>>

-------------------------------------------------------------------------------
(* Messages. *)

Full == queue = QueueSize
Message == IF Full THEN queue ELSE queue + 1

\* A key comes in, and time passes.
Key(k) ==
    /\ workload.keys /\ pending[k] = 0
    /\ pending' = [pending EXCEPT ![k] = @ + 1]
    /\ UNCHANGED <<workload, now, timerVars, appVars, setting, restart, sysVars>>

\* Bounds: the loop over the timers takes no tick, and no timer is later than the
\* system thread may be, or, while it waits, than a long can tell.
Latest == IF pc = "wait" THEN HalfRange ELSE MaxLate
Tick ==
    /\ pc # "fire" /\ (pc = "wait" => timeOut # 0)
    /\ \A t \in Timers : Listed(t) \/ BeingWritten(t) => Left(t) > -Latest
    /\ now' = Signed(now + 1)
    /\ timeOut' = IF pc = "wait" /\ timeOut > 0 THEN timeOut - 1 ELSE timeOut
    /\ UNCHANGED <<workload, timerVars, appVars, setting, restart, pending, pc, misled>>

-------------------------------------------------------------------------------
(* The system thread. *)

\* It enters the section to look at the applications and the timers.
StartRound ==
    /\ pc = "collect"
    /\ pc' = "fire" /\ timeOut' = Forever
    /\ UNCHANGED <<workload, now, timerVars, appVars, setting, restart, pending, misled>>

\* A negative time, which is left by a timer that was late and the last, is forever.
StartWait(time) ==
    /\ pc' = "wait" /\ timeOut' = IF time < 0 THEN Forever ELSE time
    /\ misled' = \E t \in Range(timers) : BeingWritten(t) \/ Overtaken(t)

NothingDue ==
    /\ pc = "fire"
    /\ IF timers = <<>> THEN StartWait(timeOut)
       ELSE Left(Head(timers)) > 1 /\ StartWait(Left(Head(timers)))
    /\ UNCHANGED <<workload, now, timerVars, appVars, setting, restart, pending>>

\* The first timer is due: it is put off or taken from the list, and its application is
\* told if it has room.
Repeats(t) == timer[t].app # "gone" /\ ~timer[t].canceled /\ timer[t].period # 0

PutOff_InPlace(t) ==                                   \* fault: not sorted in again
    /\ timer' = [timer EXCEPT ![t].targetTime = Signed(@ + timer[t].period)]
    /\ UNCHANGED timers
PutOff(t) ==
    /\ timer' = [timer EXCEPT ![t].targetTime = Signed(@ + timer[t].period)]
    /\ timers' = Queued(timers, timer', t).list

TakenOff(t) ==
    /\ timers' = Tail(timers)
    /\ timer' = [timer EXCEPT ![t] = IF BeingWritten(t) THEN @ ELSE Unused]

Fire ==
    /\ pc = "fire" /\ timers # <<>>
    /\ LET t == Head(timers)
       IN  /\ Left(t) <= 1
           /\ timeOut' = Left(t)
           /\ IF Repeats(t) THEN PutOff(t) ELSE TakenOff(t)
           /\ queue' = IF timer[t].canceled \/ ~Mine(t) THEN queue ELSE Message
    /\ UNCHANGED <<workload, now, alive, setting, restart, pending, pc, misled>>

Ready_Unseen == \E k \in Range(Keyboards) : pending[k] > 0   \* fault: nobody waits for its end
Ready == ~alive \/ \E k \in Range(Keyboards) : pending[k] > 0

\* The event comes last in the list of what is waited for: it is reset where it ends the
\* wait, and may stay set where something else does.
Wake ==
    /\ pc = "wait" /\ (Ready \/ restart \/ timeOut = 0)
    /\ restart' \in IF Ready \/ timeOut = 0 THEN {restart, FALSE} ELSE {FALSE}
    /\ pc' = Keyboards[1] /\ timeOut' = Forever /\ misled' = FALSE
    /\ UNCHANGED <<workload, now, timerVars, appVars, setting, pending>>

\* After a keyboard comes the next, and then the end of the application.
After(k) == LET n == CHOOSE m \in DOMAIN Keyboards : Keyboards[m] = k
            IN  IF n = Len(Keyboards) THEN "reap" ELSE Keyboards[n + 1]

Quiet(k) ==
    /\ pc = k /\ pending[k] = 0
    /\ pc' = After(k)
    /\ UNCHANGED <<workload, now, timerVars, appVars, setting, restart, pending, timeOut, misled>>

\* One code is read and sent to the application, which may have no room for it:
\* the system thread then waits, and for that alone.
SendKey(k) ==
    /\ pc = k /\ pending[k] > 0 /\ ~Full
    /\ pending' = [pending EXCEPT ![k] = @ - 1]
    /\ queue' = Message
    /\ pc' = After(k)
    /\ UNCHANGED <<workload, now, timerVars, alive, setting, restart, timeOut, misled>>

\* In place of an application that has ended comes another, to draw itself first.  What
\* the former has on the list stays there.
Reap ==
    /\ pc = "reap" /\ pc' = "collect"
    /\ alive' = TRUE
    /\ IF alive THEN UNCHANGED <<workload, now, timer, queue>>
       ELSE /\ queue' = 1
            /\ timer' = [t \in Timers |-> IF Listed(t) /\ Mine(t)
                                          THEN [timer[t] EXCEPT !.app = "former"] ELSE timer[t]]
    /\ UNCHANGED <<workload, now, timers, setting, restart, pending, timeOut, misled>>

Next ==
    \/ \E s \in workload.sets : SetTargetTime(s[1], s[2], s[3])
    \/ \E t \in Timers : Cancel(t) \/ Collect(t)
    \/ SetPeriod \/ SetCanceled \/ RegisterTimer \/ SetRestart \/ Handle \/ Die
    \/ Tick
    \/ StartRound \/ NothingDue \/ Fire \/ Wake \/ Reap
    \/ \E k \in Range(Keyboards) : Key(k) \/ Quiet(k) \/ SendKey(k)

Spec == Init /\ [][Next]_vars

\* The thread of the system is scheduled, time passes, and handlers come to an end; the
\* section is left again and again (CriticalSection hands it over).
SystemStep == \/ StartRound \/ NothingDue \/ Fire \/ Wake \/ Reap
              \/ \E k \in Range(Keyboards) : Quiet(k) \/ SendKey(k)
FairSpec ==
    /\ Spec /\ WF_vars(SystemStep) /\ WF_vars(Tick)
    /\ WF_vars(SetPeriod) /\ WF_vars(SetCanceled) /\ SF_vars(RegisterTimer) /\ WF_vars(SetRestart) /\ SF_vars(Handle)

-------------------------------------------------------------------------------
(* Properties. *)

\* The counter wraps around between now and the time a timer is for.
BeyondTheWrap(t) == (timer[t].targetTime < now) # (Left(t) < 0)

\* The list is sorted by the time that is left, without anything twice, however threads set
\* timers again that are on it: but for the moment between the new time and the new
\* place, and for timers with the wrap-around between them.
TimersInOrder ==
    (\A t \in Range(timers) : ~BeingWritten(t)) =>
        \A m, n \in DOMAIN timers :
            m < n => /\ timers[m] # timers[n]
                     /\ BeyondTheWrap(timers[m]) = BeyondTheWrap(timers[n])
                           => Left(timers[m]) <= Left(timers[n])

\* The system thread never waits longer than its first timer has left, or somebody is
\* about to tell it: unless the time of one on the list was written while it looked, or
\* one was overtaken where the counter wraps around.
CoversTheFirst ==
    pc = "wait" /\ timers # <<>> /\ ~misled =>
        \/ restart \/ setting # NotSetting
        \/ timeOut \in 0 .. Left(Head(timers))

\* An application that ends with its queue full holds up a key for ever, and with it
\* the system thread.
Stuck == pc \in Range(Keyboards) /\ pending[pc] > 0 /\ Full /\ ~alive

\* A round of the system thread serves every timer that is due, and not only the first it
\* looks at: none is left when it goes to wait, but while the time of one on the list is
\* being written, or where one has been overtaken.
RoundServesAll ==
    [][pc = "fire" /\ pc' = "wait" /\ (\A t \in Range(timers) : ~BeingWritten(t)) =>
          \A t \in Range(timers) : Left(t) > 1 \/ Overtaken(t)]_vars

\* The end of an application is noticed, and another one lives.
EndIsNoticed == ~alive ~> alive \/ Stuck
=============================================================================
