SPECIFICATION Spec
CONSTANTS
    Sleeps = {s1, s2}
    Wakers = {w1, w2}
    NoWaker = NoWaker
    Horizon = 2
SYMMETRY Interchangeable
INVARIANTS
    NeverEarly
    SleepIsSafe
