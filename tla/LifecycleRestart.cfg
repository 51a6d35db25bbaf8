CONSTANTS
    Starts = {p1, p2}
    Stops = {s1}
    Orphans = {}
    NoProc = NoProc
    OldPid = OldPid
    Linger = Linger
    New = New
    InTurn = TRUE
    MaxDeaths = 0
SPECIFICATION FairLedSpec
CHECK_DEADLOCK FALSE
PROPERTY RestartServes
