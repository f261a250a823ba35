SPECIFICATION Spec
CONSTANTS
    Traces = {t1}
    Runs = {r1, r2, r3}
    Approvals = {a1}
    NoTrace = NoTrace
    NoApproval = NoApproval
    MaxRestarts = 1
    MaxContenders = 2
SYMMETRY Symmetry
INVARIANTS
    TypeOK
    ApprovalGate
    ExecutedWasVerified
    StatusMatchesPosition
    DecisionIsDurable
PROPERTIES
    ImplementsGatedExecution
    ClosedStaysClosed
    ArbitratedOnce
CHECK_DEADLOCK FALSE
