SPECIFICATION FairSpec
CONSTANTS
    Traces = {t1}
    Runs = {r1, r2}
    Approvals = {a1, a2}
    NoTrace = NoTrace
    NoApproval = NoApproval
    MaxRestarts = 1
    MaxContenders = 2
PROPERTY RestartResumesDiagnosis
CHECK_DEADLOCK FALSE
