CONSTANTS
    c1 = c1
    c2 = c2
    Conns <- TwoConns
    SendBufSize = 1
    RegisterCap = 1
    BroadcastCap = 1
    MaxBoards = 2
    Faults = {"redis", "publish", "shutdown", "pong", "leave"}
    MaxFaults = 1
SPECIFICATION FairSpec
INVARIANTS TypeOK ChannelClosedOnce NoBoardMissed
PROPERTIES GoneLeavesRoom ServeWSReturns
CHECK_DEADLOCK FALSE
