CONSTANTS
    Nets = {n1, n2}
    Permanent = {n1}
    Cidrs <- MCCidrs
    MaxRecords = 1
    MaxUsed = 2
    NoRecord = NoRecord
    Procs = {p1, p2}
    NoProc = NoProc
    MaxAttempts = 1
    MaxCalls = 4
SPECIFICATION FairSpec
INVARIANTS
    TypeOK
    MutualExclusion
    CopyIsCurrent
    FileStaysLoadable
    LeaseIsRecorded
PROPERTIES
    CallsReturn
    NoDoubleLease
    ImplementsIpam
CHECK_DEADLOCK FALSE
