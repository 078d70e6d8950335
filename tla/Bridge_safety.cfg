SPECIFICATION Spec
CONSTANTS
    Nets = {n1}
    Default = n1
    Cidrs <- MCCidrs
    DefaultCidr <- MCDefaultCidr
    MaxRecords = 1
    MaxUsed = 1
    NoRecord = NoRecord
    NoLink = NoLink
    Procs = {p1, p2}
    MaxCommands = 3
    MaxLinks = 3
    MaxFaults = 1
    MaxCrashes = 1
    MaxReboots = 1
SYMMETRY BridgeSymmetry
INVARIANTS
    TypeOK
    NetworkIsWhole
PROPERTIES
    EnvironmentIsReady
    ForeignSpared
CHECK_DEADLOCK FALSE
