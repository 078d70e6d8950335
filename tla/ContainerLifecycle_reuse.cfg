SPECIFICATION Spec
CONSTANTS
    Procs = {p1, p2}
    Names = {c1}
    Addresses = {a1}
    None = None
    MaxStarts = 2
    MaxPolls = 1
    MaxFaults = 0
INVARIANTS
    RmSparesRunning
CHECK_DEADLOCK FALSE
