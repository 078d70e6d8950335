SPECIFICATION FairSpec
CONSTANTS
    Procs = {p1, p2}
    Names = {c1}
    Addresses = {a1}
    None = None
    MaxStarts = 2
    MaxPolls = 1
    MaxFaults = 1
INVARIANTS
    TypeOK
    StatusIsSound
    RunningIsWhole
    MetadataOutlivesResources
PROPERTIES
    CommandsReturn
CHECK_DEADLOCK FALSE
