CONSTANTS
    a1 = a1
    a2 = a2
    a3 = a3
    u1 = u1
    u2 = u2
    c1 = c1
    c2 = c2
    q1 = q1
    q2 = q2
    Own = Own
    None = None
    Uuids <- MCUuids
    Activities <- MCActivities
    Uses <- MCUses
    Implicit <- MCImplicit
    NSess = 3
    CRs = {c1, c2}
    Seqs = {q1, q2}
    Resends = 1
    DataHold = 1
    Garbled = FALSE
    SilentRefusal = FALSE
    StartMayFail = FALSE
    MaxLost = 1
SPECIFICATION FairSpec
INVARIANTS InStep NothingLeftBehind ArHasSession
PROPERTIES KeepsPromise Settles
CHECK_DEADLOCK FALSE
