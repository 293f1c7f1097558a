SPECIFICATION FairSpec
CHECK_DEADLOCK FALSE
CONSTANTS
    Workers = {p1}
    Events = {1}
    Lease = 1
    BackoffInitial = 1
    BackoffMax = 1
    DelayLimit = 2
    MaxAttempts = 4
    Limit = 1
    Nil = Nil
PROPERTIES
    EveryEventSettles
