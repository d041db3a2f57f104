SPECIFICATION Spec
CONSTANTS
    idle = idle
    console = console
    init = init
    none = none
    t1 = t1
    t2 = t2
    initd = initd
    manager = manager
    aegisd = aegisd
    routerd = routerd
    Tasks <- MCTasks
    Resident <- MCResident
    Idle = idle
    Console = console
    InitTask = init
    NoTask = none
    Services <- ControlPlane
    InitName = initd
    Manager = manager
    Daemon = aegisd
    ProcMax = 3
    RuntimeMax = 3
    DescriptorMax = 3
    ServiceMax = 2
    MaxRestarts = 1
    RestartWindow = 1
    BaseBackoff = 1
    Signals <- KillOnly
    Modes <- OrderlyModes
    MaxPid = 5
    MaxTick = 2
SYMMETRY Addresses
PROPERTY
    WaitReleasesOnlyTheDead
