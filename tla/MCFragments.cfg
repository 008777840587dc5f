CONSTANTS
    Calls <- MCLong
    Seqs = {1, 2}
    PayloadMax = 4
    Header = 1
    InMax = 3
    OutMax = 10
    Resends = 2
    LinkMax = 2
    Nil = Nil
SPECIFICATION FragmentsSpec
INVARIANT AnswersComplete
CHECK_DEADLOCK FALSE
