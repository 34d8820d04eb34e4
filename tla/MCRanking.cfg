CONSTANTS
    FreezeTime = 4
    PenaltyMinutes = 20
    CENoPenalty = TRUE
    SecondsPerMinute = 2
    Contest <- TwoTeams
    Practice <- OnePractice
    Statuses <- TwoTeamsStatuses
    PendingBatch = 2
    StreamMaxLen = 10
    Faults = {"redis", "db", "apicrash", "apirename", "rejudge"}
    MaxFaults = 1
    MaxReveals = 1
    MaxBacklog = 1
SPECIFICATION Spec
INVARIANTS TypeOK FreezeHides RevealFollowsRules RevealOnlyAdds BoardCatchesUp RankIsStandard
CHECK_DEADLOCK FALSE
