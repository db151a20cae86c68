SPECIFICATION FairSpec
CONSTANTS
    Waiters = {t1, t2, t3}
    Wakers = {t1, t2, t3}
    NoWaker = NoWaker
    Permits = 1
    MaxAdded = 1
    MayForget = TRUE
INVARIANTS
    PermitsConserved
    SleepThroughIsBacked
PROPERTY FreePermitFound
CHECK_DEADLOCK FALSE
