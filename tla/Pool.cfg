\* Two nodes, two purposes, a pool of two idle shards.
SPECIFICATION Spec
CONSTANTS
    n1 = n1
    n2 = n2
    p1 = p1
    p2 = p2
    Nodes = {n1, n2}
    NoNode = NoNode
    NoShard = NoShard
    Purposes = {p1, p2}
    Capacity = 2
    MaxSeq = 2
    MaxID = 2
    MaxLeads = 3
    MaxBeats = 3
    MaxFaults = 1
    MaxEvents = 7
SYMMETRY Symmetry
INVARIANTS
    TypeOK
    GivenOnce
    AnswerIsStored
    CreatedBeforeCounted
CHECK_DEADLOCK FALSE
