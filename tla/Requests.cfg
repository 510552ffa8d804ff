\* A call with a timeout and one without.
SPECIFICATION FairSpec
CONSTANTS
    r1 = r1
    r2 = r2
    Reqs = {r1, r2}
    Timed = {r1}
    MaxRetries = 1
    MaxLost = 1
INVARIANTS
    TypeOK
    NotSentTwice
PROPERTIES
    EveryCallAnswered
    CallbacksReleased
CHECK_DEADLOCK FALSE
