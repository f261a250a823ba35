SPECIFICATION Spec
CONSTANTS
    Approvals = {a1}
    Requests = {p1, p2, p3}
    Humans = {h1}
    Unsent = Unsent
    MaxRestarts = 0
SYMMETRY Symmetry
INVARIANTS
    TypeOK
    EnoughVotes
    SequentialDecision
PROPERTY DecisionFinal
CHECK_DEADLOCK FALSE
