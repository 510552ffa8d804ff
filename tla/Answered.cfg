\* One write, two elections, fair scheduling, nobody destroys the replica.
SPECIFICATION FairSpec
CONSTANTS
    c1 = c1
    Cmds = {c1}
    Others = {}
    Splits = {}
    IgnoreEpoch = {}
    Empty = Empty
    MaxTerm = 2
    MaxGC = 0
    MaxSnapFails = 0
PROPERTIES
    EveryCommandAnswered
    SnapshotHandled
