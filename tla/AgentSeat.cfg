SPECIFICATION SeatSpec
CONSTANTS
    Acceptor = Acceptor
    Connections <- MCConnections
    MaxSessions = 1
    InboxQueue = 1
    WriterLimit = 1
    Kinds = {"sound", "garbage"}
    MaxFrames = 2
INVARIANTS
    WakeupNotLost
    SessionsInOrder
PROPERTIES
    BackpressureEnds
CHECK_DEADLOCK FALSE
