SPECIFICATION FairSpec
CONSTANTS
    Risks = {"low", "medium", "high"}
    WatchWindow <- DefaultWatchWindow
    CheckInterval <- DefaultCheckInterval
    TriggerMetrics <- DefaultTriggerMetrics
    RollbackCommands <- DefaultRollbackCommands
    Values <- ThresholdValues
    MaxActions = 2
INVARIANTS
    CountersAreStreaks
    RollbackOnFirstBreach
    WholeWindowWatched
PROPERTY Returns
CHECK_DEADLOCK FALSE
