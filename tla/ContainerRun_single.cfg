SPECIFICATION FairSpec
CONSTANTS
    Runners = {r1}
    Volumes = {v1, v2}
    Ports = {p1, p2}
    Addresses = {a1, a2}
    NameLength = 10
    None = None
    MaxFaults = 3
INVARIANTS
    TypeOK
    StartedComplete
    RollbackComplete
    NoRemovalUnderMount
    MountsAreAccountable
PROPERTIES
    OrphanEnds
    RunReturns
CHECK_DEADLOCK FALSE
