SPECIFICATION FairSpec
CONSTANTS
    Wakers = {w1}
    NoWaker = NoWaker
    MaxConnections = 2
PROPERTY ParksWhenIdle
CHECK_DEADLOCK FALSE
