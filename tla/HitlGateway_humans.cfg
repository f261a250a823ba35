SPECIFICATION Spec
CONSTANTS
    Approvals = {a1}
    Requests = {p1, p2}
    Humans = {h1}
    Unsent = Unsent
    MaxRestarts = 0
INVARIANT HighRiskNeedsTwoHumans
CHECK_DEADLOCK FALSE
