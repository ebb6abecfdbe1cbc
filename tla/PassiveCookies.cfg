SPECIFICATION Spec
CONSTANTS
    NJobs = 2
    Facts <- MCFacts
    MaxFacts = 1
    MaxChanges = 1
    Denials <- MCDenials
    Alerts <- MCAlerts
    MaxTriages = 1
    Sqlite = TRUE
INVARIANT CookiesReported
CHECK_DEADLOCK FALSE
