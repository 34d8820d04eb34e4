CONSTANTS
    h1 = h1
    h2 = h2
    ContestIds = {1}
    ProblemIds = {1, 2}
    SubmissionIds = {1, 2}
    Users = {1}
    Schedules <- OneHour
    MaxTime = 3
    Handlers = {h1, h2}
    MaxCalls = 4
    MaxFaults = 1
SYMMETRY Symmetry
SPECIFICATION Spec
INVARIANTS TypeOK PagesAgree OrdinalsDistinct FeedTeamsKnown
PROPERTIES DeletionsAreWhole
CHECK_DEADLOCK FALSE
