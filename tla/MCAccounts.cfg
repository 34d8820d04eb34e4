CONSTANTS
    h1 = h1
    h2 = h2
    n1 = n1
    e1 = e1
    e2 = e2
    p1 = p1
    p2 = p2
    Ids = {1, 2}
    Names = {n1, e2}
    Emails = {e1, e2}
    Passwords = {p1, p2}
    InitialUsers <- OldAccount
    maxResetAttempts = 2
    MaxCodes = 2
    Handlers = {h1, h2}
    MaxCalls = 4
    MaxFaults = 2
SYMMETRY Symmetry
SPECIFICATION Spec
INVARIANTS TypeOK RetiredIsGone PasswordIsKept
PROPERTIES BoundOnce
CHECK_DEADLOCK FALSE
