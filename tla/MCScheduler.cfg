CONSTANTS
    N = 3
    Main = Main
    Rx = Rx
    cmsm1 = cmsm1
    cmsm2 = cmsm2
    rxh = rxh
    None = None
    Threads <- MCThreads
    Handles <- MCHandles
    Name <- MCName
    Owner <- MCOwner
    AddOnly <- MCAddOnly
    M = 7
    MaxDelay = 2
    MaxLate = 1
    Boot = 5
    MaxTime = 7
SPECIFICATION Spec
INVARIANTS    BusySorted
PROPERTY FiresInTime
CHECK_DEADLOCK FALSE
