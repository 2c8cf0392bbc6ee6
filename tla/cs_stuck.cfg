\* A thread locks again right after it has handed the section over.
CONSTANTS
    t1 = t1   t2 = t2   t3 = t3   s1 = s1   s2 = s2
    NULL = NULL
    Threads = {t1, t2}
    Sections = {s1}
    MaxDepth = 1
    MayDieInside = FALSE
SPECIFICATION Spec
INVARIANT BlockedOnlyWhileHeld
\* Every thread may have died: the system then stops.
CHECK_DEADLOCK FALSE
