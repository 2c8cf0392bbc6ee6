\* Two senders and one receiver, as applications use their queues, on two slots, and
\* a message of its own for each sender, so that their order can be told.
CONSTANTS
    s1 = s1   s2 = s2   r1 = r1   m1 = m1   m2 = m2
    NULL = NULL
    Senders = {s1, s2}
    Receivers = {r1}
    Messages = {m1, m2}
    Sends <- ItsOwn
    Size = 2
SPECIFICATION FairSpec
INVARIANTS FlagsTellTheTruth NoLostWakeup
PROPERTIES ImplementsFifo SendReturns ReceiverServed
\* Threads woken over a damaged chain may be lost, and the rest then waits.
CHECK_DEADLOCK FALSE
