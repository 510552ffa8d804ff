\* One read, fair scheduling; the replica may be destroyed.
SPECIFICATION FairReadSpec
CONSTANTS
    r1 = r1
    Cmds = {}
    Others = {}
    Splits = {}
    IgnoreEpoch = {}
    Empty = Empty
    Reads = {r1}
    MaxTerm = 2
    MaxGC = 1
    MaxSnapFails = 0
PROPERTIES
    EveryReadAnswered
CHECK_DEADLOCK FALSE
