CONSTANTS
    x = x
    y = y
    QueueMax = 1
    Retries = 1
    SeqMod = 3
    LinkMax = 1
    MaxLost = 1
    SendMayFail = FALSE
    Eager = FALSE
    None = None
    Alarms <- MCAlarms
    Sends <- MCHigh
    Strays <- MCNone
    CtlSends <- MCHigh
SPECIFICATION FairSpec
INVARIANTS WaitsForAck AnsweredIsAcked
PROPERTIES ProcessAlarmsReach AlarmsReachApplication AlarmsSettle
CHECK_DEADLOCK FALSE
