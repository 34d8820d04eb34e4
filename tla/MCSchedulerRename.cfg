CONSTANTS
    n1 = n1
    n2 = n2
    w1 = w1
    w2 = w2
    s1 = s1
    s2 = s2
    Submissions <- SubmissionsDef
    Nodes <- OneNodeDef
    Workers <- TwoWorkers
    NodeOf <- OnOneNode
    CompileFails <- CompileFailsDef
    CaseVerdict <- CaseVerdictDef
    PendingBatch = 2
    StreamMaxLen = 10
    Faults = {"crash", "rename"}
    MaxFaults = 2
    MaxTasks = 1
SPECIFICATION FairSpec
PROPERTIES PendingIsRedelivered
CHECK_DEADLOCK FALSE
