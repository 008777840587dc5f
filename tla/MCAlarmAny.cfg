CONSTANTS
    x = x
    y = y
    QueueMax = 1
    Retries = 1
    SeqMod = 2
    LinkMax = 0
    MaxLost = 1
    SendMayFail = TRUE
    Eager = TRUE
    None = None
    Alarms <- MCOneAlarm
    Sends <- MCHigh
    Strays <- MCStrays
    CtlSends <- MCBoth
SPECIFICATION Spec
INVARIANTS Retained AnswerUnderWay
CHECK_DEADLOCK FALSE
