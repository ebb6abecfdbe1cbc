CONSTANTS
    Orgs = {o1, o2}
    Projects = {p1}
    Targets = {t1}
    Names = {acme, umbrella}
    Users = {alice, bob}
    Clients = {c1, c2}
    Sqlite = TRUE
    Production = TRUE
    MaxEvents = 3
SPECIFICATION Spec
INVARIANTS AuditedByMembers OneNamePerOrganization
CHECK_DEADLOCK FALSE
