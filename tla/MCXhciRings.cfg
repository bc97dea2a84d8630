SPECIFICATION Spec
CONSTANTS
    c1 = c1
    c2 = c2
    NoData = NoData
    PortChange = PortChange
    Commands <- MCCommands
    RingTrbs = 3
    RunawayGuard = 6
    MaxInFlight = 2
    MaxPush = 5
    MaxPost = 7
PROPERTIES
    CommandFifo
    EventFifo
CHECK_DEADLOCK FALSE
