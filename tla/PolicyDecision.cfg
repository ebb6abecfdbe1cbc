SPECIFICATION Spec
CONSTANTS
    Scanners <- MCScanners
    Requests <- MCRequests
    Roes <- MCRoes
    NoRoe = NoRoe
    Origins = {"apex", "www", "other"}
    Paths = {"page"}
    Base = "apex"
    Aliases = {"apex", "www"}
    ScopeOrigins = {"other"}
    Types = {"json"}
    Payloads = {"swap"}
    Absent = "absent"
    PassiveBudget = 2
    MaxRedirects = 0
    Horizon = 2
INVARIANTS TypeOK IntrusiveStaysInsideRoe UnauthorizedOnlyReads
PROPERTY WideningForbidsNothing
