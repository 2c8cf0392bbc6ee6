---------------------------- MODULE KeyboardDriver ----------------------------
(***************************************************************************)
(* The driver of the calculator's keyboard on the simulator, from the key  *)
(* that is pressed in the window to the thread that reads it               *)
(* (archs/win32/keyboard.cpp, interrupts.cpp, the loop of threading.cpp    *)
(* and the blocking read of user/include/io/device.h).                     *)
(*                                                                         *)
(* Three threads of the host run side by side: the window's, which         *)
(* triggers the interrupt; the dispatcher, which is the processor; and the *)
(* threads of the firmware, which run only while the dispatcher waits.     *)
(* CriticalSection is the owner of a section, WaitObjects the chain of     *)
(* those who wait for READ_READY.  The computer's keyboard has the same    *)
(* driver, for other codes.                                                *)
(***************************************************************************)
EXTENDS Naturals, Sequences

CONSTANTS Readers, NULL,
          Blocking,    \* those who opened the device without NON_BLOCKING
          Codes,
          Size,        \* of the ring, 16
          MaxAsked     \* bound: how many codes one read asks for

ASSUME DriverAssumption ==
    /\ NULL \notin Readers /\ Blocking \subseteq Readers
    /\ Codes # {} /\ Size \in Nat \ {0} /\ MaxAsked \in Nat \ {0}

VARIABLES
    keyCode, host,               \* the window: the code it left, where it is
    enabled, triggered,          \* the interrupt source
    notified,                    \* interruptEvent, which resets itself
    cpu,                         \* the dispatcher: "look"s for an interrupt, "run"s the
                                 \*   firmware, runs it "held" though it has found one,
                                 \*   has "handled" it, has "cleared" it
    buffer, ready, waiters,      \* the ring, READ_READY and who waits for it
    owner,                       \* of the section
    pc, asked, got               \* the readers

hostVars == <<keyCode, host>>
irqVars == <<enabled, triggered, notified>>
ringVars == <<buffer, ready, waiters>>
readVars == <<owner, pc, asked, got>>
vars == <<hostVars, irqVars, cpu, ringVars, readVars>>

Ring == INSTANCE CircBuffer

Init ==
    /\ keyCode \in Codes /\ host = "idle"
    /\ enabled = TRUE /\ triggered = FALSE /\ notified = FALSE
    /\ cpu = "look"
    /\ buffer = Ring!EmptyRing(keyCode) /\ ready = FALSE /\ waiters = <<>>
    /\ owner = NULL
    /\ pc = [r \in Readers |-> "out"]
    /\ asked = [r \in Readers |-> 0] /\ got = [r \in Readers |-> <<>>]

-------------------------------------------------------------------------------
(* The window. *)

Press(c) ==
    /\ host = "idle"
    /\ keyCode' = c /\ host' = "pressed"
    /\ UNCHANGED <<irqVars, cpu, ringVars, readVars>>

\* InterruptSource::trigger: a key is lost while the one before is triggered.
Trigger ==
    /\ host = "pressed"
    /\ triggered' = TRUE
    /\ host' = IF triggered THEN "idle" ELSE "triggered"
    /\ UNCHANGED <<keyCode, enabled, notified, cpu, ringVars, readVars>>

TriggerNotifies ==
    /\ host = "triggered"
    /\ notified' = (notified \/ enabled)
    /\ host' = "idle"
    /\ UNCHANGED <<keyCode, enabled, triggered, cpu, ringVars, readVars>>

-------------------------------------------------------------------------------
(* The dispatcher. *)

WasEmpty_After == Ring!IsEmpty(Ring!Written(buffer, keyCode))  \* fault: asked after the write
WasEmpty == Ring!IsEmpty(buffer)

\* runHandler and setWaitFlagAndWakeupOne
RunHandler ==
    /\ enabled' = FALSE
    /\ buffer' = Ring!Written(buffer, keyCode)
    /\ ready' = (ready \/ WasEmpty)
    /\ IF WasEmpty /\ waiters # <<>>
       THEN /\ pc' = [pc EXCEPT ![Head(waiters)] = "enter"]
            /\ waiters' = Tail(waiters)
       ELSE UNCHANGED <<pc, waiters>>
    /\ cpu' = "handled"
    /\ UNCHANGED <<hostVars, triggered, notified, owner, asked, got>>

Service == cpu = "look" /\ enabled /\ triggered /\ RunHandler

\* The firmware has interrupts disabled, or a switch of threads is due that it does not
\* allow: it runs on, and the handler will run without another look at the source.
Hold ==
    /\ cpu = "look" /\ enabled /\ triggered
    /\ cpu' = "held"
    /\ UNCHANGED <<hostVars, irqVars, ringVars, readVars>>

ServiceHeld == cpu = "held" /\ RunHandler

\* irq->clear(): what the window triggered since the handler ran is lost.
Clear ==
    /\ cpu = "handled"
    /\ triggered' = FALSE /\ cpu' = "cleared"
    /\ UNCHANGED <<hostVars, enabled, notified, ringVars, readVars>>

\* irq->enable(), by the dispatcher, which looks again anyway.
EnableAgain ==
    /\ cpu = "cleared"
    /\ enabled' = TRUE /\ notified' = (notified \/ triggered) /\ cpu' = "look"
    /\ UNCHANGED <<hostVars, triggered, ringVars, readVars>>

Resume ==
    /\ cpu = "look" /\ ~(enabled /\ triggered)
    /\ cpu' = "run"
    /\ UNCHANGED <<hostVars, irqVars, ringVars, readVars>>

Awaken ==
    /\ cpu = "run" /\ notified
    /\ notified' = FALSE /\ cpu' = "look"
    /\ UNCHANGED <<hostVars, enabled, triggered, ringVars, readVars>>

\* Another source, or reschedule(), notifies the dispatcher.
OtherInterrupt ==
    /\ cpu = "run"
    /\ cpu' = "look"
    /\ UNCHANGED <<hostVars, irqVars, ringVars, readVars>>

-------------------------------------------------------------------------------
(* The readers. *)

Running == cpu \in {"run", "held"}

GoesTo(r, place) == pc' = [pc EXCEPT ![r] = place]

\* read(data, n): IO::Device::read, or SysCalls::read at once.
Ask(r, n) ==
    /\ Running /\ pc[r] = "out"
    /\ asked' = [asked EXCEPT ![r] = n]
    /\ GoesTo(r, IF r \in Blocking THEN "test" ELSE "enter")
    /\ UNCHANGED <<hostVars, irqVars, cpu, ringVars, owner, got>>

\* isReadReady, and the first look of wait().
Test(r) ==
    /\ Running /\ pc[r] = "test"
    /\ GoesTo(r, IF ready THEN "enter" ELSE "look")
    /\ UNCHANGED <<hostVars, irqVars, cpu, ringVars, owner, asked, got>>

\* The second look of wait(), with interrupts disabled.
Look(r) ==
    /\ Running /\ pc[r] = "look"
    /\ waiters' = IF ready THEN waiters ELSE Append(waiters, r)
    /\ GoesTo(r, IF ready THEN "enter" ELSE "blocked")
    /\ UNCHANGED <<hostVars, irqVars, cpu, buffer, ready, owner, asked, got>>

\* CalcKeyboard::read: the section, then the source.
Enter(r) ==
    /\ Running /\ pc[r] = "enter" /\ owner = NULL
    /\ owner' = r /\ GoesTo(r, "turnOff")
    /\ UNCHANGED <<hostVars, irqVars, cpu, ringVars, asked, got>>

\* Bound: nobody turns the source off while the dispatcher holds its interrupt.
TurnOff(r) ==
    /\ cpu = "run" /\ pc[r] = "turnOff"
    /\ enabled' = FALSE /\ GoesTo(r, "copy")
    /\ UNCHANGED <<hostVars, triggered, notified, cpu, ringVars, owner, asked, got>>

CopyOne(r) ==
    /\ Running /\ pc[r] = "copy"
    /\ asked[r] > 0 /\ ~Ring!IsEmpty(buffer)
    /\ got' = [got EXCEPT ![r] = Append(@, Ring!ItemRead(buffer))]
    /\ asked' = [asked EXCEPT ![r] = @ - 1]
    /\ buffer' = Ring!AfterRead(buffer)
    /\ UNCHANGED <<hostVars, irqVars, cpu, ready, waiters, owner, pc>>

\* A blocking read that has got nothing will go on.
Copied(r) ==
    /\ Running /\ pc[r] = "copy"
    /\ asked[r] = 0 \/ Ring!IsEmpty(buffer)
    /\ asked' = [asked EXCEPT ![r] = IF got[r] = <<>> /\ r \in Blocking THEN @ ELSE 0]
    /\ GoesTo(r, IF Ring!IsEmpty(buffer) THEN "unset" ELSE "turnOn")
    /\ UNCHANGED <<hostVars, irqVars, cpu, ringVars, owner, got>>

UnsetReady(r) ==
    /\ Running /\ pc[r] = "unset"
    /\ ready' = FALSE /\ GoesTo(r, "turnOn")
    /\ UNCHANGED <<hostVars, irqVars, cpu, buffer, waiters, owner, asked, got>>

\* InterruptSource::enable, in two steps.
TurnOn(r) ==
    /\ Running /\ pc[r] = "turnOn"
    /\ enabled' = TRUE
    /\ GoesTo(r, IF enabled THEN "leave" ELSE "notify")
    /\ UNCHANGED <<hostVars, triggered, notified, cpu, ringVars, owner, asked, got>>

Notify(r) ==
    /\ Running /\ pc[r] = "notify"
    /\ notified' = (notified \/ triggered) /\ GoesTo(r, "leave")
    /\ UNCHANGED <<hostVars, enabled, triggered, cpu, ringVars, owner, asked, got>>

\* The codes are the caller's.
Leave(r) ==
    /\ Running /\ pc[r] = "leave"
    /\ owner' = NULL
    /\ GoesTo(r, IF asked[r] = 0 THEN "out" ELSE "test")
    /\ got' = [got EXCEPT ![r] = <<>>]
    /\ UNCHANGED <<hostVars, irqVars, cpu, ringVars, asked>>

\* A read that has begun goes on.
GoesOn(r) ==
    \/ Test(r) \/ Look(r) \/ Enter(r) \/ TurnOff(r) \/ CopyOne(r) \/ Copied(r)
    \/ UnsetReady(r) \/ TurnOn(r) \/ Notify(r) \/ Leave(r)

Host == Trigger \/ TriggerNotifies
Dispatcher ==
    Service \/ Hold \/ ServiceHeld \/ Clear \/ EnableAgain \/ Resume \/ Awaken

Next ==
    \/ \E c \in Codes : Press(c)
    \/ Host \/ Dispatcher \/ OtherInterrupt
    \/ \E r \in Readers : (\E n \in 1 .. MaxAsked : Ask(r, n)) \/ GoesOn(r)

Spec == Init /\ [][Next]_vars

\* Keys do not come so fast that the dispatcher has no time to resume a thread.
Unhurried == []<>(cpu = "run")

\* The dispatcher and the window are threads of the host, with processors of their own.
\* The dispatcher has the highest priority: when notified, it is not always so late that
\* a thread has turned the source off again.  The firmware does not keep interrupts off
\* for ever.
FairSpec ==
    /\ Spec /\ Unhurried
    /\ WF_vars(Host) /\ WF_vars(Dispatcher) /\ WF_vars(ServiceHeld)
    /\ SF_vars(Awaken /\ enabled)
    /\ \A r \in Readers : SF_vars(GoesOn(r))

-------------------------------------------------------------------------------
(* Properties. *)

\* The driver is the ring of codes it promises: no code is lost in the ring, or comes
\* out twice or out of order, though the handler and the readers share it; no interrupt
\* stays pending for ever, whichever way trigger() and enable() meet; and no reader
\* stays blocked while there are codes.
Abstract == INSTANCE KeyRing WITH
    struck <- IF ~triggered THEN "no" ELSE IF cpu = "handled" THEN "in" ELSE "new",
    keys <- Ring!Contents(buffer), asks <- asked

ImplementsKeyRing == Abstract!RingSpec
===============================================================================
