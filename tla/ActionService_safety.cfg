SPECIFICATION Spec
CONSTANTS
    Names <- SampleNames
    FoldedWords <- SampleWords
    Runs = {r1, r2}
    Plans <- SamplePlans
    MaxActions = 2
    Unset = Unset
INVARIANTS
    SuccessIsDone
    NoSplitBrain
    ReportIsTrue
SYMMETRY RunSymmetry
CHECK_DEADLOCK FALSE
