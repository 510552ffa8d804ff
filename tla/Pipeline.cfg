\* Two writes, a command of another replica, two elections.
SPECIFICATION Spec
CONSTANTS
    c1 = c1
    c2 = c2
    o1 = o1
    Cmds = {c1, c2}
    Others = {o1}
    Splits = {}
    IgnoreEpoch = {}
    Empty = Empty
    MaxTerm = 2
    MaxGC = 0
    MaxSnapFails = 0
SYMMETRY Symmetry
INVARIANTS
    TypeOK
    AtMostOneReply
    OneHome
    OkMeansExecutedOnce
    NoFatal
    FiledBeforeApplied
