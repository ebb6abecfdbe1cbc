CONSTANTS
    Targets = {t1}
    Sites = {a, b}
    Owned = {a}
    Scopes = {s1}
    Auths = {w1}
    Challenges = {k1}
    NJobs = 1
    MaxTime = 3
    Clients = {c1, c2}
    Sqlite = TRUE
SYMMETRY Symmetry
SPECIFICATION Spec
INVARIANTS WindowsOrdered SnapshotsStayHome VerifiedByProof
CHECK_DEADLOCK FALSE
