CONSTANTS
    Clients = {c1, c2, c3}
    MAX_CLIENTS = 2
    Sockets = {5, 6}
    NoClient = NoClient
    LircFd = 3
    SockFd = 4
    Errno = 98
    Segments = {1}
    MaxSent = 1
    SndBuf = 1
    MaxAir = 2
    IrBuf = 2
    BufSize = 2
    Starfrit = FALSE
    PortOK = {TRUE}
    MaxHup = 0
    MayTerm = TRUE
    MaxFaults = 0
SPECIFICATION Spec
CHECK_DEADLOCK FALSE
SYMMETRY ClientSymmetry
INVARIANTS
    TypeOK
    SameStream
    NoLoopback
    FlushedIsFresh
    NoBlockingCall
    TableMatchesKernel
    
PROPERTIES
    ImplementsList
