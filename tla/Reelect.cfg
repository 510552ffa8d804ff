\* One write, three elections: this replica leads, loses leadership and leads again.
SPECIFICATION Spec
CONSTANTS
    c1 = c1
    Cmds = {c1}
    Others = {}
    Splits = {}
    IgnoreEpoch = {}
    Empty = Empty
    MaxTerm = 3
    MaxGC = 0
    MaxSnapFails = 0
INVARIANTS
    FiledUnderItsTerm
PROPERTIES
    AppliedNeverGoesBack
