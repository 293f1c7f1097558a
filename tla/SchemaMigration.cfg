SPECIFICATION FairSpec
CONSTANTS
    first = first
    second = second
    branch = branch
    merged = merged
    edited = edited
    Processes = {p1, p2}
    Releases = {first, second, branch, merged, edited}
    Files <- FilesDef
    Nil = Nil
INVARIANTS
    AppliedOnce
    ReadyIsMigrated
PROPERTIES
    WholeReleases
    CommandsEnd
