SPECIFICATION FairSpec
CONSTANTS
    Waiters = {f1, f2}
    Wakers = {f1, f2}
    NoWaker = NoWaker
    MaxNotify = 3
    MaxGeneration = 1
INVARIANTS
    SleepIsSafe
    NotificationsConserved
PROPERTIES
    BroadcastDelivered
CHECK_DEADLOCK FALSE
