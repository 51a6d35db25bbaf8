CONSTANTS
    Clients = {c1, c2}
    MAX_CLIENTS = 1
    Sockets = {5, 6}
    NoClient = NoClient
    LircFd = 3
    SockFd = 4
    Errno = 98
    Segments = {1, 3}
    MaxSent = 3
    SndBuf = 1
    MaxAir = 1
    IrBuf = 1
    BufSize = 2
    Starfrit = TRUE
    PortOK = {TRUE, FALSE}
    MaxHup = 1
    MayTerm = TRUE
    MaxFaults = 1
SPECIFICATION Spec
CHECK_DEADLOCK FALSE
SYMMETRY ClientSymmetry
INVARIANTS
    TransmitsWhatWasSent
    ProperEnd
PROPERTIES
    ImplementsLife
