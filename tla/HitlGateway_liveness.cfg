SPECIFICATION FairSpec
CONSTANTS
    Approvals = {a1, a2}
    Requests = {p1}
    Humans = {h1}
    Unsent = Unsent
    MaxRestarts = 1
PROPERTY DueIsResolved
CHECK_DEADLOCK FALSE
