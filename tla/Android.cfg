CONSTANTS
    MaxActivities = 2
    MaxClients = 2
    MaxCommands = 2
    MaxFrames = 1
SPECIFICATION FairSpec
CHECK_DEADLOCK FALSE
INVARIANTS
    ClientOfActivity
    FramesIntact
PROPERTIES
    CommandsInOrder
    DisconnectEnds
