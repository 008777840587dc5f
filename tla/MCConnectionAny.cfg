CONSTANTS
    a1 = a1
    a2 = a2
    a3 = a3
    u1 = u1
    u2 = u2
    c1 = c1
    c2 = c2
    q1 = q1
    q2 = q2
    Own = Own
    None = None
    Uuids <- MCUuids
    Activities <- MCAnyActivities
    Uses <- MCAnyUses
    Implicit <- MCAnyActivities
    NSess = 3
    CRs = {c1}
    Seqs = {q1}
    Resends = 2
    DataHold = 1
    Garbled = TRUE
    SilentRefusal = TRUE
    StartMayFail = TRUE
    MaxLost = 1
SPECIFICATION Spec
INVARIANTS Supervised Polled SessionsPointToAr
SYMMETRY MCSymmetry
CHECK_DEADLOCK FALSE
