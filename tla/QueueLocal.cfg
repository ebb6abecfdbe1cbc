CONSTANTS
    NJobs = 3
    Targets = {t1, t2}
    Titles = {x}
    Urls = {u1, u2}
    Workers = {w1, w2}
    Clients = {c1}
    Nobody = Nobody
    Sqlite = TRUE
    ExpiresOnRollback = TRUE
    Crashes = TRUE
SPECIFICATION Spec
INVARIANTS OneActivePerTarget FindingsDeduplicated SnapshotIsCurrent EvidenceBacked JobAndRunAgree
PROPERTIES ImplementsLifecycle
CHECK_DEADLOCK FALSE
