SPECIFICATION Spec
CONSTANTS
    good = good
    other = other
    refused = refused
    none = none
    Procs = {p1, p2}
    Images = {i1}
    Folders = {d1}
    Tars = {good, other, refused, none}
    Unsafe = {refused}
    Broken = {refused}
    Empty = {none}
    ListingSize <- MCListingSize
    MaxCapture = 4
    Cut <- MCCut
    NoDir = NoDir
    NoKey = NoKey
    MaxRuns = 3
    MaxFaults = 1
    MaxCrashes = 1
    MaxChanges = 1
SYMMETRY CacheSymmetry
INVARIANTS
    TypeOK
    CacheIsWhole
    NothingLeftBehind
PROPERTIES
    RunGetsItsImage
    FailureHasCause
    PublishedIsStable
CHECK_DEADLOCK FALSE
