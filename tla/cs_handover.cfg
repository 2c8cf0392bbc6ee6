\* Threads that contend all at once and die anywhere.
CONSTANTS
    t1 = t1   t2 = t2   t3 = t3   s1 = s1   s2 = s2
    NULL = NULL
    Threads = {t1, t2, t3}
    Sections = {s1}
    MaxDepth = 2
    MayDieInside = TRUE
SPECIFICATION FairSpec
INVARIANTS MutualExclusion WaitersFlagTellsTheTruth BlockedIsOwed
           DyingReleasesItsOwn
PROPERTIES HandedToTheWaiter LockReturns
\* Every thread may have died: the system then stops.
CHECK_DEADLOCK FALSE
