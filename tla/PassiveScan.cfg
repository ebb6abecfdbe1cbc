SPECIFICATION FairSpec
CONSTANTS
    NJobs = 2
    Facts <- MCFacts
    MaxFacts = 1
    MaxChanges = 1
    Denials <- MCDenials
    Alerts <- MCAlerts
    MaxTriages = 1
    Sqlite = TRUE
INVARIANTS
    ReportedWasSeen
    SeenIsReported
    ChildGone
    FullScoreIsClean
PROPERTIES
    TriageKept
    ScanEnds
CHECK_DEADLOCK FALSE
