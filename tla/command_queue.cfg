SPECIFICATION Spec
CONSTANTS
    Workers = {w1, w2}
    Requests = {r1, r2}
    None = None
    MaxTroubles = 2
INVARIANTS ActsOncePerClaim QueueOrderKept FailedStartIsIdle
PROPERTIES ResultIsFinal NoCommandIsLost
CHECK_DEADLOCK FALSE
