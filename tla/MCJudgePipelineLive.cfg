CONSTANTS
    n1 = n1
    w1 = w1
    w2 = w2
    s1 = s1
    s2 = s2
    NoRow = NoRow
    Pending = Pending
    Submissions <- TwoSubmissions
    Nodes <- OneNode
    Workers <- OneWorker
    NodeOf <- OneWorkerOnNode
    CompileFails <- NoneFails
    CaseVerdict <- OneCaseEach
    PendingBatch = 2
    StreamMaxLen = 10
    Faults = {"panic", "timeout", "stop", "crash", "apicrash", "sandbox"}
    MaxFaults = 2
    MaxTasks = 2
SPECIFICATION FairPSpec
PROPERTIES AcceptedIsJudged
CHECK_DEADLOCK FALSE
