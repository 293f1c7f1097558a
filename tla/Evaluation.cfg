SPECIFICATION MCSpec
CHECK_DEADLOCK FALSE
CONSTANTS
    Metrics = {1, 2, 3, 4}
    Unknown = Unknown
    Baselines = 2
    Nil = Nil
    Start = 1
    NoMetric = NoMetric
INVARIANTS
    DepsFirst
    BatchOnce
    OutcomesAreRight
    FailuresAreExplained
    PathsAreExact
    EvidenceExplains
