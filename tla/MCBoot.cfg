\* The sizes of the kernel's own tables; two discoveries in a boot.
CONSTANTS
    RamBase = 262144
    RamPages = 262144
    KernelImage <- MCKernelImage
    DtbPages = 16
    MountMax = 32
    OpenMax = 256
    NativeRustFull = TRUE
    PageUnits = 2
    RuntimeMax = 16
    ImageMax = 64
    SpaceMax = 8
    Images <- MCImages
    DeviceTrees <- MCDeviceTrees
    Servers <- MCServers
    SentBy <- MCSentBy
    XidMax = 2
    RouteMax = 64
    WorstMetric = 1000
    NoGateway = NoGateway
    RuleMax = 64
    ConnMax = 16
    NatMax = 4
    NatPortMin = 10000
    NatPortMax = 60000
SPECIFICATION BootSpec
INVARIANTS
    
    DescriptorsDisjoint
    LaunchedSystemIsWhole
    LeaseFromOneServer
PROPERTY BootEnds
CHECK_DEADLOCK FALSE
