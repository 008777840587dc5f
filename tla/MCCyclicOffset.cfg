CONSTANTS
    b1 = b1
    b2 = b2
    b3 = b3
    Bufs <- MCBufs
    CycleMod = 5
    Window = 3
    DataHold = 1
    MaxLate = 1
    MaxSent = 3
    None = None
    ClockMod = 64
    MaxDelay = 20
    TickTime = 4
    Interval = 8
    Step = 3
    MaxBehind = 24
SPECIFICATION CyclicSpec
INVARIANT ReadsInside
SYMMETRY MCSymmetry
CHECK_DEADLOCK FALSE
