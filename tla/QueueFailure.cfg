CONSTANTS
    NJobs = 1
    Targets = {t1}
    Titles = {x}
    Urls = {u1}
    Workers = {w1}
    Clients = {c1}
    Nobody = Nobody
    Sqlite = TRUE
    ExpiresOnRollback = TRUE
    Crashes = FALSE
SPECIFICATION Spec
INVARIANTS NoAbandonedJob
CHECK_DEADLOCK FALSE
