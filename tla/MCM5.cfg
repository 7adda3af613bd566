SPECIFICATION FairSpec
CONSTANTS
    s1 = s1
    s2 = s2
    t1 = t1
    t2 = t2
    t3 = t3
    t4 = t4
    Threads = {t1, t2, t3, t4}
    Fits = {t1, t2, t3, t4}
    NumThreads = 4
    MaxRounds = 3
    Phased = TRUE
    Main = t1
    Statuses = {s1, s2}
INVARIANTS LocksExclude FreeWhenUnheld BarrierRounds SignalKept JoinWaitsForExit OnceRunsOnce
PROPERTIES SpinsEnd
CHECK_DEADLOCK FALSE
