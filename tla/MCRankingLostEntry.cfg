CONSTANTS
    FreezeTime = 4
    PenaltyMinutes = 20
    CENoPenalty = TRUE
    SecondsPerMinute = 2
    Contest <- EarlyTeam
    Practice <- NoPractice
    Statuses <- EarlyTeamStatuses
    PendingBatch = 2
    StreamMaxLen = 10
    Faults = {"hget"}
    MaxFaults = 1
    MaxReveals = 0
    MaxBacklog = 1
SPECIFICATION Spec
INVARIANTS AcceptedIsKept
CHECK_DEADLOCK FALSE
