CONSTANTS
    Starts = {p1, p2, p3}
    Stops = {s1, s2}
    Orphans = {p3}
    NoProc = NoProc
    OldPid = OldPid
    Linger = Linger
    New = New
    InTurn = FALSE
    MaxDeaths = 1
SPECIFICATION FairLedSpec
CHECK_DEADLOCK FALSE
INVARIANTS
    PortOfDaemon
    OneDaemon
    FileNamesDaemon
    StopHitsDaemon
    LedOfDaemon
PROPERTIES
    StartServes
    ImplementsLife
