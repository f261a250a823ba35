SPECIFICATION Spec
CONSTANTS
    Traces = {t1}
    Runs = {r1, r2}
    Approvals = {a1, a2}
    NoTrace = NoTrace
    NoApproval = NoApproval
    MaxRestarts = 1
    MaxContenders = 2
INVARIANT RejectedNeverExecuted
CHECK_DEADLOCK FALSE
