CONSTANTS
    Clients = {c1}
    MAX_CLIENTS = 1
    Sockets = {5}
    NoClient = NoClient
    LircFd = 3
    SockFd = 4
    Errno = 98
    Segments = {1}
    MaxSent = 0
    SndBuf = 1
    MaxAir = 2
    IrBuf = 1
    BufSize = 2
    Starfrit = FALSE
    PortOK = {TRUE}
    MaxHup = 0
    MayTerm = FALSE
    MaxFaults = 0
SPECIFICATION Spec
CHECK_DEADLOCK FALSE
INVARIANT SurvivesClients
