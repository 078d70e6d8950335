SPECIFICATION Spec
CONSTANTS
    Nets = {n1}
    Default = n1
    Cidrs <- MCOneCidr
    DefaultCidr <- MCDefaultCidr
    MaxRecords = 1
    MaxUsed = 1
    NoRecord = NoRecord
    NoLink = NoLink
    Procs = {p1}
    MaxCommands = 2
    MaxLinks = 2
    MaxFaults = 0
    MaxCrashes = 0
    MaxReboots = 1
INVARIANTS
    DefaultEnsured
CHECK_DEADLOCK FALSE
