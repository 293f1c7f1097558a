SPECIFICATION FairSpec
CHECK_DEADLOCK FALSE
CONSTANTS
    Workers = {p1, p2}
    Events = {1, 2}
    Lease = 2
    BackoffInitial = 2
    BackoffMax = 1
    DelayLimit = 8
    MaxAttempts = 2
    Limit = Nil
    Nil = Nil
INVARIANTS
    TypeOK
    OneLeaseHolder
    RetryLimit
PROPERTIES
    KeepsPromise
    EveryEventSettles
