CONSTANTS
    n1 = n1
    w1 = w1
    w2 = w2
    s1 = s1
    s2 = s2
    NoRow = NoRow
    Pending = Pending
    Submissions <- OneSubmission
    Nodes <- OneNode
    Workers <- TwoWorkers
    NodeOf <- TwoWorkersOnNode
    CompileFails <- NoneFails
    CaseVerdict <- OneCase
    PendingBatch = 1
    StreamMaxLen = 2
    Faults = {"redis", "sandbox", "panic", "timeout", "stop", "crash", "rename", "db", "apicrash", "apirename"}
    MaxFaults = 2
    MaxTasks = 1
SPECIFICATION PSpec
INVARIANTS PendingIsAccounted
PROPERTIES ImplementsService
CHECK_DEADLOCK FALSE
