SPECIFICATION FairSpec
CONSTANTS
    Waiters = {t1, t2, t3}
    Wakers = {t1, t2, t3}
    NoWaker = NoWaker
    WRITER = 7
INVARIANTS
    LockIsExact
    SleepIsSafe
PROPERTIES
    WokenWhenFreed
CHECK_DEADLOCK FALSE
