CONSTANTS
    x = x
    y = y
    QueueMax = 1
    Retries = 1
    SeqMod = 2
    LinkMax = 1
    MaxLost = 1
    SendMayFail = FALSE
    Eager = TRUE
    None = None
    Alarms <- MCOneAlarm
    Sends <- MCHigh
    Strays <- MCNone
    CtlSends <- MCHigh
SPECIFICATION Spec
INVARIANTS Survives
CHECK_DEADLOCK FALSE
