\* Two reads on a leader that has not applied its first entry.
SPECIFICATION ReadSpec
CONSTANTS
    r1 = r1
    r2 = r2
    Cmds = {}
    Others = {}
    Splits = {}
    IgnoreEpoch = {}
    Empty = Empty
    Reads = {r1, r2}
    MaxTerm = 2
    MaxGC = 0
    MaxSnapFails = 0
SYMMETRY Symmetry
INVARIANTS
    UuidsMatch
CHECK_DEADLOCK FALSE
