SPECIFICATION ServicesSpec
CONSTANTS
    Callers = {c1, c2}
    Requests = {1, 3}
    Capacity = 2
    Parallelisms = {1, 2}
    Overshoot = 1
    MaxRefill = 1
    MaxDispatch = 3
    Indices = 4
    Leaves = {1, 2}
    Spawned = {t1, t2}
    SharedWidth = 2
    OwnWidth = 1
    MaxIndex = 2
    MaxWakes = 1
    Parties = {p1, p2, p3}
    GroupSizes = {0, 2, 3}
    MaxRounds = 3
    Producers = {q1, q2}
    Reasons = {b1, b2}
    MaxClock = 5
    MaxSignals = 2
    MaxBytes = 2
    Makers = {m1, m2}
    MaxMade = 3
    MaxSent = 2
    PipeRoom = 2
INVARIANTS
    NoCreditMinted
    OneTurnAtATime
    NoWaiterStranded
    LoopIsWhole
    LoopIsAwaited
    TaskFate
    JoinerIsWoken
    RoundsKeptApart
    NoReasonSleptThrough
    CoarseIsLeast
    PidIsOurs
    ExitIsNoticed
    NoPipeDeadlock
    DefaultHeldOff
    WaiterStaysRegistered
    DeliveryIsSeen
CHECK_DEADLOCK FALSE
