SPECIFICATION FairSpec
CONSTANTS
    Traces = {t1}
    Runs = {r1, r2}
    Approvals = {a1}
    NoTrace = NoTrace
    NoApproval = NoApproval
    MaxRestarts = 1
    MaxContenders = 2
PROPERTIES
    EveryRunEnds
    ResumedRunLeavesInterrupt
CHECK_DEADLOCK FALSE
