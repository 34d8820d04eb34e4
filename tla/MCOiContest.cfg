CONSTANTS
    r1 = r1
    r2 = r2
    s1 = s1
    s2 = s2
    Cells <- TwoProblems
    Requests = {r1, r2}
    Sweeps = {s1, s2}
    Score <- Falling
    Types = {"oi", "icpc"}
    StartTime = 1
    EndTime = 2
    MaxTime = 2
    Faults = {"lookup", "create", "publish", "mark", "abort"}
    MaxFaults = 2
SYMMETRY Symmetry
SPECIFICATION Spec
INVARIANTS TypeOK LastCounts VerdictsHidden SweepSettles
PROPERTIES JudgedStaysJudged
CHECK_DEADLOCK FALSE
