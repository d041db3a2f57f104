SPECIFICATION Spec
CONSTANTS
    Junk = Junk
    Zero = Zero
    NoName = NoName
    NoVersion = NoVersion
    Default = Default
    selftest = selftest
    conf = conf
    d1 = d1
    d2 = d2
    v1 = v1
    v2 = v2
    SelfTestFile = selftest
    SelfTestData = d1
    CacheModes <- WithCache
    Faults = TRUE
    Files <- TwoFiles
    MaxFiles = 2
    MaxSectors = 1
    Values <- OneValue
    Versions <- OneVersion
    MaxAttempts = 2
    MaxGeneration = 1
    Blocks = 6
    UpdateLba = 5
    LbaBound <- UpTo5
INVARIANTS
    CrashesAreDetected
