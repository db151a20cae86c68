SPECIFICATION LiveSpec
CONSTANTS
    Sleeps = {s1}
    Wakers = {w1, w2}
    NoWaker = NoWaker
    Horizon = 2
    Tasks = {a, b}
    Remote = {r1}
    Self = self
    END = end
    MaxEvents = 3
INVARIANTS
    NoWakeSleptThrough
    ChainExact
PROPERTIES
    EverySleepEnds
    EveryWakeIsSeen
CHECK_DEADLOCK FALSE
