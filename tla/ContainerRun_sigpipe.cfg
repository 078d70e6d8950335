SPECIFICATION FairSpec
CONSTANTS
    Runners = {r1}
    Volumes = {v1}
    Ports = {p1}
    Addresses = {a1}
    NameLength = 10
    None = None
    MaxFaults = 0
PROPERTIES
    ReleaseFailureRollsBack
CHECK_DEADLOCK FALSE
