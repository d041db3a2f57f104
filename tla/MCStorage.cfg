SPECIFICATION Spec
CONSTANTS
    Junk = Junk
    Zero = Zero
    NoName = NoName
    NoVersion = NoVersion
    Default = Default
    selftest = selftest
    conf = conf
    d1 = d1
    d2 = d2
    v1 = v1
    v2 = v2
    SelfTestFile = selftest
    SelfTestData = d1
    CacheModes <- BothModes
    Faults = TRUE
    Files <- TwoFiles
    MaxFiles = 2
    MaxSectors = 2
    Values <- OneValue
    Versions <- TwoVersions
    MaxAttempts = 2
    MaxGeneration = 4
    Blocks = 7
    UpdateLba = 6
    LbaBound <- UpTo5Or6
INVARIANTS
    TablesFitTogether
    
    ExhaustedMeansRollback
    ActiveWasConfirmed
PROPERTIES
    MetadataGoesForward
