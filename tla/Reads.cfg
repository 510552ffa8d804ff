\* Two reads and a write, a leader that is deposed.
SPECIFICATION ReadSpec
CONSTANTS
    c1 = c1
    r1 = r1
    r2 = r2
    Cmds = {c1}
    Others = {}
    Splits = {}
    IgnoreEpoch = {}
    Empty = Empty
    Reads = {r1, r2}
    MaxTerm = 2
    MaxGC = 0
    MaxSnapFails = 1
SYMMETRY Symmetry
INVARIANTS
    ReadTypeOK
    ReadSeesTold
    QueuesAgree
    OneReadReply
CHECK_DEADLOCK FALSE
