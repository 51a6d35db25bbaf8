CONSTANTS
    Clients = {c1, c2}
    MAX_CLIENTS = 2
    Sockets = {5, 6}
    NoClient = NoClient
    LircFd = 3
    SockFd = 4
    Errno = 98
    Segments = {1}
    MaxSent = 1
    SndBuf = 1
    MaxAir = 1
    IrBuf = 1
    BufSize = 2
    Starfrit = FALSE
    PortOK = {TRUE}
    MaxHup = 0
    MayTerm = FALSE
    MaxFaults = 1
SPECIFICATION FairSpec
CHECK_DEADLOCK FALSE
PROPERTIES
    LiveClientKept
    ClientsAccepted
    CommandsReceived
    ClosedRemoved
    FramesServed
