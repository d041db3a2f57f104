SPECIFICATION Spec
CONSTANTS
    Junk = Junk
    Zero = Zero
    NoName = NoName
    NoVersion = NoVersion
    Default = Default
    selftest = selftest
    conf = conf
    d1 = d1
    d2 = d2
    v1 = v1
    v2 = v2
    SelfTestFile = selftest
    SelfTestData = d1
    CacheModes <- WithoutCache
    Faults = FALSE
    Files <- TwoFiles
    MaxFiles = 2
    MaxSectors = 1
    Values <- OneValue
    Versions <- OneVersion
    MaxAttempts = 2
    MaxGeneration = 2
    Blocks = 8
    UpdateLba = 4
    LbaBound <- UpTo8
INVARIANTS
    WritesPersist
