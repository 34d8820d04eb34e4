CONSTANTS
    p1 = p1
    p2 = p2
    w1 = w1
    w2 = w2
    NoWorker = NoWorker
    NoProblem = NoProblem
    Problems <- TwoProblems
    Workers <- TwoWorkers
    MaxEntries = 1
    MaxUploads = 2
    MaxCalls = 3
    Faults = {"store", "fs", "crash"}
    MaxFaults = 1
SPECIFICATION FairSpec
INVARIANTS TypeOK OneRefresh HandedOutIsCurrent DiskIsBounded
CHECK_DEADLOCK FALSE
PROPERTY WaitersReturn
