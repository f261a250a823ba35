SPECIFICATION Spec
CONSTANTS
    h1 = h1 h2 = h2 t1 = t1 t2 = t2 r1 = r1 r2 = r2 r3 = r3 k1 = k1 k2 = k2
    NoEvent = NoEvent
    NoIncident = NoIncident
    NoRequest = NoRequest
    NoTrace = NoTrace
    NoExpert = NoExpert
    NoDecision = NoDecision
    MetricEvents <- MCMetricEvents
    AlertEvents <- Alerts
    Clock <- MCClock
    Incidents <- MCIncidents
    Requests <- MCRequests
    Traces <- MCTraces
    Runs <- MCRuns
    Tickets <- MCTickets
    Contents <- MCContents
    Wordless = {"blank"}
    SeedTickets <- MCSeedTickets
    MaxEntries = 3
    Findings <- MCFindings
    Evidence <- MCEvidence
    NodeType <- MCNodeType
    ReviewTickets <- MCReviewTickets
    Workloads <- MCWorkloads
SYMMETRY Symmetry
INVARIANTS
    BaselineIsHistory
    ValidatedByNearAlert
    PendingIdsExpire
    OnlyPersistentAggregated
    WindowsAddUp
    DuplicatesOnlyThroughGaps
    ConfigsAreLive
    IndexFollowsStore
    LoopTypeOK
    KnowledgeComesFromOutcomes
    OneTicketPerDiagnosis
    WinnerNotOutdone
PROPERTIES
    ShownIsCurrent
CHECK_DEADLOCK FALSE
