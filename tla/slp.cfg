\* Three sleepers over the wrap-around of the counter, a timer early and late.
CONSTANTS
    t1 = t1   t2 = t2   t3 = t3
    NULL = NULL   HEAD = HEAD
    Threads = {t1, t2, t3}
    Wrap = 15
    MaxSleep = 5
    MaxLate = 2
    Early = 4
    Company = FALSE
SPECIFICATION FairSpec
INVARIANTS ListIsSorted TimerCovers
PROPERTIES WokenOnTime SleepersWake
