SPECIFICATION RegistrySpec
CONSTANTS
    Sockets = {s1, s2}
    ClosesFirst = {s1, s2}
    Fds = {1, 2}
    MaxIndex = 3
INVARIANTS
    WatchedWhileLive
CHECK_DEADLOCK FALSE
