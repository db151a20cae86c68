SPECIFICATION FairSpec
CONSTANTS
    Wakers = {w1, w2}
    NoWaker = NoWaker
    Capacity = 2
    SendCapacities = {0, 1, 2, 3}
    MaxArrive = 3
    MaxWrite = 3
    MaxLen = 2
    MaxInterrupts = 1
    Kinds = {"tcp", "pipe", "udp"}
    ErrorIsHangup = FALSE
    Uses <- EachDirection
INVARIANTS
    NoMissedEdge
PROPERTIES
    TransfersProceed
    Quiescent
CHECK_DEADLOCK FALSE
