CONSTANTS
    NActions = 3
    MaxAttempts = 2
    Workers = {w1}
    CreatedUrls = {c1}
    ExistingUrls = {e1}
    Original = Original
    NoResource = NoResource
    LateDelivery = {"restore"}
    EarlyRedirects = FALSE
    SharedUrls = FALSE
    Collections = {p1}
    Contents = {json}
    VerbLists = {{"POST", "PUT", "DELETE"}, {"POST"}}
    Scopes = {{c1, e1, p1}}
    ContentLists = {{json}}
    PathLists = {{e1, p1}}
SPECIFICATION FairSpec
INVARIANTS TypeOK DirtyIsUnresolved WriteAhead MutationAppliedOnce 
PROPERTIES ImplementsContract RecoveryTerminates
