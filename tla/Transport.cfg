CONSTANTS
    Requests = {r1, r2}
    Probes = {p1}
    Hosts = {main, out}
    InScope = {main}
    Addresses = {a1, a2, bad}
    Unsafe = {bad}
    NoAddress = NoAddress
    MaxConcurrency = 2
    MaxRequests = 2
    MaxRedirects = 1
    Interval = 2
    MaxInterval = 4
    Jitter = 0
    Opens = 2
    Closes = 2
    Operator = TRUE
    Horizon = 3
SPECIFICATION FairSpec
INVARIANTS TypeOK PaceHolds ConnectedSafely OvershootBounded
PROPERTIES BackendFrozen CallsEnd
CHECK_DEADLOCK FALSE
