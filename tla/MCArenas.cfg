SPECIFICATION ArenasSpec
CONSTANTS
    Waiters = {f1, f2, f3}
    Wakers = {w1, w2}
    NoWaker = NoWaker
    Sockets = {s1, s2, s3}
    ClosesFirst = {s1}
    Fds = {1, 2}
    MaxIndex = 4
    Times = {1, 2, 3}
    MaxArmed = 7
INVARIANTS
    ArenaIsSound
    SlotsExact
    EventReachesItsSocket
PROPERTIES
    ImplementsFifo
    HeapImplementsSet
    WatchLostOnlyToLateRemove
CHECK_DEADLOCK FALSE
