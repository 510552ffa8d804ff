\* Two nodes, leases of three ticks: any etcd call may be slow, lost or answered late.
SPECIFICATION Spec
CONSTANTS
    n1 = n1
    n2 = n2
    Nodes = {n1, n2}
    NoNode = NoNode
    TTL = 3
    MaxCalls = 2
INVARIANTS
    TypeOK
    ServingHoldsKey
    TimeIsEtcds
PROPERTIES
    AnswersNeverShorten
    PromiseKept
