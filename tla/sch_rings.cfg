\* Four threads of two priority classes, ticks at any moment.
CONSTANTS
    t1 = t1   t2 = t2   t3 = t3   t4 = t4
    NULL = NULL
    Threads = {t1, t2, t3, t4}
    Priority <- TwoRings
CONSTRAINT NotStrayed
SPECIFICATION FairSpec
INVARIANTS RingsMatchFlags HighestRuns SharedSliceEnds
PROPERTIES RunnableRuns
\* Every thread may have terminated: the system then stops.
CHECK_DEADLOCK FALSE
