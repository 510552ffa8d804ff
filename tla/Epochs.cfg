\* A write and a split race; the replica may be told to destroy itself, and a snapshot may fail to apply.
SPECIFICATION Spec
CONSTANTS
    c1 = c1
    s1 = s1
    Cmds = {c1, s1}
    Others = {}
    Splits = {s1}
    IgnoreEpoch = {}
    Empty = Empty
    MaxTerm = 2
    MaxGC = 1
    MaxSnapFails = 1
INVARIANTS
    AtMostOneReply
    NoFatal
    RefusedNeverExecuted
    DataMatchesLog
CHECK_DEADLOCK FALSE
