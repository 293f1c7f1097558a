SPECIFICATION Spec
CONSTANTS
    Persistence = 2
    ResolveAfter = 2
    Cooldown = 3
    MaxWindows = 6
    MaxAcks = 0
INVARIANT HealthyWindowsClose
CHECK_DEADLOCK FALSE
