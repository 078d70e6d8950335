SPECIFICATION Spec
CONSTANTS
    Runners = {r1}
    Volumes = {v1}
    Ports = {p1}
    Addresses = {a1}
    NameLength = 4
    None = None
    MaxFaults = 0
PROPERTIES
    ValidNameGetsVeth
CHECK_DEADLOCK FALSE
