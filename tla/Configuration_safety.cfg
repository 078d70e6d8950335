SPECIFICATION Spec
CONSTANTS
    NaN = NaN
    NoPath = NoPath
    BadVolume = BadVolume
    NoInfo = NoInfo
    NoWord = NoWord
    DefaultName <- MCDefaultName
    Tokens <- MCTokens
    OptionMax = 3
    ArgMax = 3
    RecordedMax = 2
    PathMax = 4
    NameMax = 3
    NetworkNameMax = 2
    PortMax = 3
    Width = 3
    ImageMax = 3
    CommandMax = 4
    VolumeMax = 10
    CpuMin = 2
    IntMax = 3
    TimeMax = 2
INVARIANTS
    TypeOK
    ParsedAsMeant
    RefusedIffUnfit
    MetadataReadsBack
    DamageIsNoticed
    RmUnmountsAll
    CidrIsBlock
CHECK_DEADLOCK FALSE
