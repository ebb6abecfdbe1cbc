CONSTANTS
    NJobs = 3
    Targets = {t1}
    Titles = {x, y}
    Urls = {u1, u2}
    Workers = {w1}
    Clients = {c1, c2}
    Nobody = Nobody
    Sqlite = TRUE
    ExpiresOnRollback = TRUE
    Crashes = TRUE
SPECIFICATION FairSpec
PROPERTIES JobsAreTaken
CHECK_DEADLOCK FALSE
