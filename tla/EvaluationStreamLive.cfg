SPECIFICATION FairSpec
CONSTANTS
    w1 = w1
    w2 = w2
    w3 = w3
    Workers = {p1, p2}
    Operators = {o1}
    Windows = {w1, w2}
    EffectiveAt <- EffectiveAtDef
    CommitAttempts = 2
    MaxVersion = 0
    Nil = Nil
    Ack = Ack
PROPERTIES
    CallsTerminate
