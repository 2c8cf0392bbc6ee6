\* Two threads with lists of their own, over an event that resets itself, one that
\* does and is made for all, and the end of a thread.
CONSTANTS
    t1 = t1   t2 = t2   t3 = t3   e1 = e1   e2 = e2   e3 = e3
    NULL = NULL
    Threads = {t1, t2}
    Objects = {e1, e2, e3}
    AutoReset = {e1, e2}
    WakeupAll = {e2, e3}
    MaxWaiters = 1
SPECIFICATION Spec
INVARIANTS ChainHoldsTheBlocked OneReleasePerSet
PROPERTY ImplementsEvents
