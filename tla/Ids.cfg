\* Three nodes, ranges of two ids, three ranges.
SPECIFICATION Spec
CONSTANTS
    n1 = n1
    n2 = n2
    n3 = n3
    Nodes = {n1, n2, n3}
    NoNode = NoNode
    idBatch = 2
    MaxID = 6
SYMMETRY Symmetry
INVARIANTS
    IdsDistinct
    RangesOwned
