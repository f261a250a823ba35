SPECIFICATION Spec
CONSTANTS
    Names <- SampleNames
    FoldedWords <- SampleWords
    Words <- SampleRiskWords
    NoName = NoName
    Currents <- SampleCurrents
    MaxActions = 3
    MaxAlternatives = 1
INVARIANTS
    TypeOK
    UndecidedHighRiskIsAliasedFailover
    RulesStopHighRisk
    RulesJudgeEveryAction
CHECK_DEADLOCK FALSE
