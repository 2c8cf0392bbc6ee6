\* Two timers, set and set again, one keyboard, an application that may end at any time.
CONSTANTS
    t1 = t1   t2 = t2
    NULL = NULL
    Timers = {t1, t2}
    Workloads <- TwoWorkloads
    Keyboards <- OnlyKeyboard
    QueueSize = 1
    HalfRange = 4
    MaxLate = 1
SPECIFICATION FairSpec
INVARIANTS TimersInOrder CoversTheFirst
PROPERTIES RoundServesAll EndIsNoticed
\* An application may die with its queue full: a key then stops the system.
CHECK_DEADLOCK FALSE
