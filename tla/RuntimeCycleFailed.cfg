SPECIFICATION Spec
CONSTANTS
    Workers = {p1, p2}
    Metrics = {1}
    Interval <- IntervalDef
    Earlier <- EarlierDef
    Lag = 1
    MaxCatchup = 2
    None = None
    IdleInterval = 3
    MinWait = 1
    DelayLimit = 8
    MaxTime = 1
SYMMETRY WorkerSymmetry
PROPERTIES
    FailedWindowStaysDue
