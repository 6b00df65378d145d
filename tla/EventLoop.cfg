SPECIFICATION ProcessSpec
CONSTANTS
    Requests = {q1, q2}
    Posts = {n1}
    Streams = {s1}
    Nobody = nobody
    PoolSize = 2
    BodyLimit = 1
INVARIANTS CircularWaitNeedsAFailure IdleClientsHoldNothing
PROPERTY EveryCallEnds
CHECK_DEADLOCK FALSE
