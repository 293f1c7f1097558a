SPECIFICATION Spec
CONSTANTS
    Persistence = 2
    ResolveAfter = 2
    Cooldown = 3
    MaxWindows = 7
    MaxAcks = 1
INVARIANTS TypeOK IncidentsFollowState EventsMatchIncidents CooldownHolds EventsHaveEvidence
PROPERTY AckIsSticky
CHECK_DEADLOCK FALSE
