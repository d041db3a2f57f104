SPECIFICATION Spec
CONSTANTS
    client = client
    server = server
    NoHost = NoHost
    Hosts <- TwoHosts
    Servers <- OnlyServer
    Clients <- OnlyClient
    TcpMax = 2
    RxSize = 2
    Mss = 2
    FirstPort = 49152
    ListenIsn = 1000
    ConnectIsn = 5000
    SocketMax = 3
    Port = 80
    MaxConnects = 2
    MaxBytes <- ClientSends
    MaxCreates <- ServerTwice
    MaxListens = 2
INVARIANTS
    EndIsComplete
CHECK_DEADLOCK FALSE
