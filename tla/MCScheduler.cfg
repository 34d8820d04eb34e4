CONSTANTS
    n1 = n1
    n2 = n2
    w1 = w1
    w2 = w2
    s1 = s1
    s2 = s2
    Submissions <- SubmissionsDef
    Nodes <- NodesDef
    Workers <- TwoWorkers
    NodeOf <- OnTwoNodes
    CompileFails <- CompileFailsDef
    CaseVerdict <- CaseVerdictDef
    PendingBatch = 1
    StreamMaxLen = 1
    Faults = {"redis", "sandbox", "panic", "timeout", "stop", "crash", "rename"}
    MaxFaults = 2
    MaxTasks = 2
SPECIFICATION Spec
INVARIANTS TypeOK VerdictSound SettledIsAnswered OneNodePerTask
CHECK_DEADLOCK FALSE
