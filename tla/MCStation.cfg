CONSTANTS
    Names <- MCNames
    Addrs <- MCAddrs
    CfgName = "a"
    CfgAddr = "x"
    ImValues <- MCImValues
    CfgIm = "c"
    BlankIm = "blank"
    MaxFrame = 1
    MaxChanges = 2
    MaxCrashes = 1
    MaxFails = 1
SPECIFICATION StationSpec
INVARIANTS Kept ImKept
PROPERTIES SavedAtLast
