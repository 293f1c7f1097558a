SPECIFICATION Spec
CONSTANTS
    w1 = w1
    w2 = w2
    w3 = w3
    Workers = {p1, p2}
    Operators = {o1}
    Windows = {w1, w2, w3}
    EffectiveAt <- EffectiveAtDef
    CommitAttempts = 1
    MaxVersion = 1
    Nil = Nil
    Ack = Ack
SYMMETRY StreamSymmetry
INVARIANTS
    TypeOK
    AtomicCommit
    HistoryIsExact
    OrderedState
    OneWinner
    NoOvertaking
PROPERTIES
    ImplementsLedger
