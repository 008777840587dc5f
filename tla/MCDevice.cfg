CONSTANTS
    SlotNbrs = {1, 2}
    SubNbrs = {1}
    Idents = {"x", "y"}
    MaxSlots = 2
    MaxSubs = 1
    Requests <- MCRequests
    Faulty <- MCFaulty
    MaxReads = 1
    None = None
    NItems = 3
    Places <- MCPlaces
    Ports = {"s"}
    Keys <- MCKeys
    Severities <- MCSeverities
    Infos <- MCInfos
    Wanted <- MCWanted
    Begins <- MCBegins
    Nameless = Nameless
    NoCheck = NoCheck
    MaxStrays = 1
    Calls <- MCCalls
    Seqs = {1, 2}
    PayloadMax = 4
    Header = 1
    InMax = 3
    OutMax = 10
    Resends = 2
    LinkMax = 2
    Nil = Nil
SPECIFICATION DeviceSpec
INVARIANTS OwnedByAr ViewTrue ItemsKept FlagsTrue PeerDiagnosed
           RequestsWhole AnswersWhole AnswersResent
PROPERTIES ReportTrue
CHECK_DEADLOCK FALSE
