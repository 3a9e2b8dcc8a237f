SPECIFICATION Spec
CONSTANTS
    e1 = e1
    e2 = e2
    p1 = p1
    p2 = p2
    g1 = g1
    g2 = g2
    a1 = a1
    a2 = a2
    None = None
    Emails = {e1, e2}
    Passwords = {p1, p2}
    GoogleIds = {g1, g2}
    Actions = {a1, a2}
    Calls = {1, 2, 3, 4, 5, 6, 7, 8, 9, 10, 11, 12}
    Asks <- MCAsks
    Plans <- MCPlans
    MaxAttempts = 2
    MaxFaults <- MCMaxFaults
CHECK_DEADLOCK FALSE
INVARIANTS
    ReturnsToAccount
    CodeUsedOnce
    CodeWorks
    NoEternalLockout
