SPECIFICATION TablesSpec
CONSTANTS
    n1 = n1
    n2 = n2
    n3 = n3
    a = a
    Names <- MCNames
    Values <- MCValues
    MaxLen = 2
    Depth = 2
    QueueMax = 2
    ChannelMax = 4
    NamedMax = 3
    RouteMax = 4
    RouteChoices <- MCRouteChoices
    DefaultGateways <- MCDefaultGateways
    Destinations <- MCDestinations
    WorstMetric = 1000
    NoGateway = NoGateway
    RuleMax = 5
    ConnMax = 1
    PoolSize = 2
    ArpMax = 2
    SocketMax = 2
    NetBits = 1
    UdpPorts = {68, 53}
    Frames <- MCFrames
    Hosts <- MCHosts
    InitialRules <- MCInitialRules
    InitialRoutes <- MCRoutes
    Gateways <- MCGateways
    Address <- Us
    Rules <- MCRules
    Packets <- MCPackets
    NatMax = 4
    NatPortMin = 10
    NatPortMax = 13
    lan1 = lan1
    lan2 = lan2
    web = web
    dns = dns
    InsideEnds <- MCInside
    RemoteEnds <- MCRemote
    Protocols = {6}
    ForwardPorts = {11, 80}
    MountMax = 1
    OpenMax = 3
    NativeRustFull = TRUE
    FdPids = {1, 2, 3}
    FdSlots = 3
    FdMax = 2
    Paths <- MCPaths
    k1 = k1
    k2 = k2
    k3 = k3
    x = x
    y = y
    Keys <- MCKeys
    Settings <- MCSettings
    HashOf <- MCHashOf
    ConfigMax = 3
    NoSetting = NoSetting
    DefaultKey = k1
    DefaultSetting = x
    CountBound = 3
    HeapSize = 17
    HeaderSize = 3
    Sizes = {0, 1, 2, 4}
INVARIANTS
    TablesAgree
    
    DatagramsReachTheirPort
    RulesInOrder
    LookupTakesTheBestRoute
    NatAnswersReachTheSender
    
    ConfigGetReturnsLastSet
    HeapTiles
PROPERTIES
    ImplementsChannels
CHECK_DEADLOCK FALSE
