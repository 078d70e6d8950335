SPECIFICATION Spec
CONSTANTS
    Runners = {r1, r2}
    Volumes = {v1}
    Ports = {p1}
    Addresses = {a1, a2}
    NameLength = 10
    None = None
    MaxFaults = 1
SYMMETRY RunSymmetry
INVARIANTS
    StartedConfined
    AddressesHeld
PROPERTIES
    CgroupOwnership
CHECK_DEADLOCK FALSE
