SPECIFICATION Spec
CONSTANTS
    Procs = {p1}
    Names = {c1, c2}
    Addresses = {a1, a2}
    None = None
    MaxStarts = 1
    MaxPolls = 1
    MaxFaults = 1
INVARIANTS
    RunningKeepsAddress
CHECK_DEADLOCK FALSE
