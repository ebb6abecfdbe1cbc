-------------------------------- MODULE Tenancy --------------------------------
(***************************************************************************)
(* The tenants of the control plane (apps/api/main.py, apps/api/auth.py):  *)
(* organizations, the roles of their members, their projects and targets,  *)
(* and the audit log, as the API's handlers change them.                   *)
(*                                                                         *)
(* A handler reads what is committed (in one step here) and commits its    *)
(* writes in another; the database then enforces the constraints of        *)
(* models/persistence.py, foreign keys on PostgreSQL only.  Identifiers    *)
(* are never used twice (uuid4).  What hangs on a target is in TargetSetup.*)
(***************************************************************************)
EXTENDS Integers, FiniteSets

CONSTANTS
    Orgs, Projects, Targets,   \* identifiers
    Names,                     \* names of organizations
    Users,                     \* accounts of Supabase Auth
    Clients,                   \* requests the API handles at the same time
    Sqlite,                    \* FALSE is PostgreSQL
    Production,                \* roles are only looked at in production mode
    MaxEvents                  \* bound on the length of the audit log

VIEWER == 0
MEMBER == 1
ADMIN  == 2
OWNER  == 3
NoRole == -1
Roles  == VIEWER .. OWNER

None == {"unborn", "deleted"}

ASSUME TenancyAssumption ==
    /\ Sqlite \in BOOLEAN /\ Production \in BOOLEAN /\ MaxEvents \in Nat
    /\ Orgs # {} /\ Projects # {} /\ Targets # {} /\ Names # {} /\ Users # {}
    /\ None \cap (Orgs \cup Projects \cup Names) = {}

VARIABLES
    orgs,       \* the name of each organization
    members,    \* OrganizationMember.role of each user in each organization
    projects,   \* Project.organization_id
    targets,    \* Target.project_id
    event,      \* the last event of the audit log, and how many there are
    held,       \* history: the highest role each user ever had in each organization
    client      \* the request each client waits for

vars == <<orgs, members, projects, targets, event, held, client>>

AnyOf(S) == CHOOSE x \in S : TRUE

Ops == {"create_organization", "update_organization", "delete_organization", "add_member",
        "create_project", "update_project", "delete_project", "create_target",
        "delete_target"}

(* "known": the membership row existed when the handler looked for it. *)
Request == [op : Ops \cup {"none"}, user : Users, org : Orgs, project : Projects,
            target : Targets, name : Names, member : Users, role : Roles, known : BOOLEAN]

NoRequest == [op |-> "none", user |-> AnyOf(Users), org |-> AnyOf(Orgs),
              project |-> AnyOf(Projects), target |-> AnyOf(Targets), name |-> AnyOf(Names),
              member |-> AnyOf(Users), role |-> VIEWER, known |-> FALSE]

Init ==
    /\ orgs = [o \in Orgs |-> "unborn"]
    /\ members = [o \in Orgs |-> [u \in Users |-> NoRole]]
    /\ projects = [p \in Projects |-> "unborn"]
    /\ targets = [t \in Targets |-> "unborn"]
    /\ event = [n |-> 0, org |-> AnyOf(Orgs), by |-> AnyOf(Users), needed |-> VIEWER]
    /\ held = members
    /\ client = [c \in Clients |-> NoRequest]

Exists(o)          == orgs[o] \in Names
NameFree(n, among) == \A o \in among : orgs[o] # n
ProjectsOf(o)      == {p \in Projects : projects[p] = o}
TargetsOf(p)       == {t \in Targets : targets[t] = p}

-----------------------------------------------------------------------------
(* The reads of a handler: those of auth.py, then its own.  What they refuse is answered
   (404, 409) without a trace. *)

(* Mutant: any member will do. *)
AccessAnyRole(u, o, role) == Exists(o) /\ (~Production \/ members[o][u] # NoRole)

(* require_organization_access *)
Access(u, o, role) == Exists(o) /\ (~Production \/ members[o][u] >= role)

(* organization_for_project, organization_for_target *)
ProjectAccess(u, p, role) == projects[p] \in Orgs /\ Access(u, projects[p], role)
TargetAccess(u, t, role)  == targets[t] \in Projects /\ ProjectAccess(u, targets[t], role)

Asks(c, request) ==
    /\ client[c].op = "none"
    /\ client' = [client EXCEPT ![c] = request]
    /\ UNCHANGED <<orgs, members, projects, targets, event, held>>

CheckCreateOrganization(c, u, n) ==
    /\ NameFree(n, Orgs)
    /\ Asks(c, [NoRequest EXCEPT !.op = "create_organization", !.user = u, !.name = n])

CheckUpdateOrganization(c, u, o, n) ==
    /\ Access(u, o, ADMIN) /\ NameFree(n, Orgs \ {o})
    /\ Asks(c, [NoRequest EXCEPT !.op = "update_organization", !.user = u, !.org = o, !.name = n])

CheckDeleteOrganization(c, u, o) ==
    /\ Access(u, o, OWNER) /\ ProjectsOf(o) = {}
    /\ Asks(c, [NoRequest EXCEPT !.op = "delete_organization", !.user = u, !.org = o])

CheckAddMember(c, u, o, m, r) ==
    /\ Access(u, o, OWNER)
    /\ Asks(c, [NoRequest EXCEPT !.op = "add_member", !.user = u, !.org = o, !.member = m,
                                 !.role = r, !.known = members[o][m] # NoRole])

CheckCreateProject(c, u, o) ==
    /\ Access(u, o, MEMBER)
    /\ Asks(c, [NoRequest EXCEPT !.op = "create_project", !.user = u, !.org = o])

CheckUpdateProject(c, u, p) ==
    /\ ProjectAccess(u, p, MEMBER)
    /\ Asks(c, [NoRequest EXCEPT !.op = "update_project", !.user = u, !.project = p,
                                 !.org = projects[p]])

CheckDeleteProject(c, u, p) ==
    /\ ProjectAccess(u, p, ADMIN) /\ TargetsOf(p) = {}
    /\ Asks(c, [NoRequest EXCEPT !.op = "delete_project", !.user = u, !.project = p])

CheckCreateTarget(c, u, p) ==
    /\ ProjectAccess(u, p, MEMBER)
    /\ Asks(c, [NoRequest EXCEPT !.op = "create_target", !.user = u, !.project = p,
                                 !.org = projects[p]])

CheckDeleteTarget(c, u, t) ==
    /\ TargetAccess(u, t, ADMIN)
    /\ Asks(c, [NoRequest EXCEPT !.op = "delete_target", !.user = u, !.target = t])

-----------------------------------------------------------------------------
(* The commit of a handler *)

(* What the constraints say of the rows a request writes.  On PostgreSQL memberships refer
   to their organization, and the audit log to every organization and target since its
   creation. *)
Accepted(r) ==
    \/ r.op = "create_organization" /\ NameFree(r.name, Orgs)
    \/ r.op = "update_organization" /\ Exists(r.org) /\ NameFree(r.name, Orgs \ {r.org})
    \/ r.op \in {"delete_organization", "delete_target"} /\ Sqlite
    \/ /\ r.op = "add_member" /\ (Sqlite \/ Exists(r.org))
       /\ r.known \/ members[r.org][r.member] = NoRole
    \/ r.op \in {"create_project", "update_project"} /\ (Sqlite \/ Exists(r.org))
    \/ r.op = "delete_project" /\ (Sqlite \/ TargetsOf(r.project) = {})
    \/ r.op = "create_target" /\ (Sqlite \/ projects[r.project] \in Orgs)

(* Mutant: no unique constraint on organizations.name. *)
CommitsAnyName(c, op) ==
    /\ client[c].op = op
    /\ op = "create_organization" \/ Accepted(client[c])
    /\ client' = [client EXCEPT ![c] = NoRequest]

Commits(c, op) ==
    /\ client[c].op = op /\ Accepted(client[c])
    /\ client' = [client EXCEPT ![c] = NoRequest]

(* _write_audit, in the transaction of the change *)
Audited(c, o, role) ==
    /\ event.n < MaxEvents
    /\ event' = [n |-> event.n + 1, org |-> o, by |-> client[c].user, needed |-> role]

HasRole(o, u, r) ==
    /\ members' = [members EXCEPT ![o][u] = r]
    /\ held' = [held EXCEPT ![o][u] = IF r > @ THEN r ELSE @]

CreateOrganization(c, o) ==
    /\ Commits(c, "create_organization")
    /\ orgs[o] = "unborn"
    /\ orgs' = [orgs EXCEPT ![o] = client[c].name]
    /\ HasRole(o, client[c].user, OWNER)
    /\ Audited(c, o, OWNER)
    /\ UNCHANGED <<projects, targets>>

UpdateOrganization(c) ==
    /\ Commits(c, "update_organization")
    /\ orgs' = [orgs EXCEPT ![client[c].org] = client[c].name]
    /\ Audited(c, client[c].org, ADMIN)
    /\ UNCHANGED <<members, projects, targets, held>>

(* Its memberships stay behind. *)
DeleteOrganization(c) ==
    /\ Commits(c, "delete_organization")
    /\ orgs' = [orgs EXCEPT ![client[c].org] = "deleted"]
    /\ UNCHANGED <<members, projects, targets, event, held>>

(* Adds a member, or changes the role of one: of the last owner too. *)
AddMember(c) ==
    /\ Commits(c, "add_member")
    /\ HasRole(client[c].org, client[c].member, client[c].role)
    /\ Audited(c, client[c].org, OWNER)
    /\ UNCHANGED <<orgs, projects, targets>>

CreateProject(c, p) ==
    /\ Commits(c, "create_project")
    /\ projects[p] = "unborn"
    /\ projects' = [projects EXCEPT ![p] = client[c].org]
    /\ Audited(c, client[c].org, MEMBER)
    /\ UNCHANGED <<orgs, members, targets, held>>

(* The name or the status of a project. *)
UpdateProject(c) ==
    /\ Commits(c, "update_project")
    /\ Audited(c, client[c].org, MEMBER)
    /\ UNCHANGED <<orgs, members, projects, targets, held>>

DeleteProject(c) ==
    /\ Commits(c, "delete_project")
    /\ projects' = [projects EXCEPT ![client[c].project] = "deleted"]
    /\ UNCHANGED <<orgs, members, targets, event, held>>

CreateTarget(c, t) ==
    /\ Commits(c, "create_target")
    /\ targets[t] = "unborn"
    /\ targets' = [targets EXCEPT ![t] = client[c].project]
    /\ Audited(c, client[c].org, MEMBER)
    /\ UNCHANGED <<orgs, members, projects, held>>

DeleteTarget(c) ==
    /\ Commits(c, "delete_target")
    /\ targets' = [targets EXCEPT ![client[c].target] = "deleted"]
    /\ UNCHANGED <<orgs, members, projects, event, held>>

(* A constraint refuses the commit, or the client went away. *)
Rollback(c) ==
    /\ client[c].op # "none"
    /\ client' = [client EXCEPT ![c] = NoRequest]
    /\ UNCHANGED <<orgs, members, projects, targets, event, held>>

Check(c, u) ==
    \/ \E n \in Names : \/ CheckCreateOrganization(c, u, n)
                        \/ \E o \in Orgs : CheckUpdateOrganization(c, u, o, n)
    \/ \E o \in Orgs : \/ CheckDeleteOrganization(c, u, o)
                       \/ CheckCreateProject(c, u, o)
                       \/ \E m \in Users, r \in Roles : CheckAddMember(c, u, o, m, r)
    \/ \E p \in Projects : \/ CheckUpdateProject(c, u, p)
                           \/ CheckDeleteProject(c, u, p)
                           \/ CheckCreateTarget(c, u, p)
    \/ \E t \in Targets : CheckDeleteTarget(c, u, t)

Commit(c) ==
    \/ \E o \in Orgs : CreateOrganization(c, o)
    \/ \E p \in Projects : CreateProject(c, p)
    \/ \E t \in Targets : CreateTarget(c, t)
    \/ UpdateOrganization(c) \/ DeleteOrganization(c) \/ AddMember(c)
    \/ UpdateProject(c) \/ DeleteProject(c) \/ DeleteTarget(c)

Next == \E c \in Clients : (\E u \in Users : Check(c, u)) \/ Commit(c) \/ Rollback(c)

Spec == Init /\ [][Next]_vars

-----------------------------------------------------------------------------
(* Properties *)

TypeOK ==
    /\ orgs \in [Orgs -> Names \cup None]
    /\ members \in [Orgs -> [Users -> Roles \cup {NoRole}]]
    /\ projects \in [Projects -> Orgs \cup None]
    /\ targets \in [Targets -> Projects \cup None]
    /\ event \in [n : 0 .. MaxEvents, org : Orgs, by : Users, needed : Roles]
    /\ held \in [Orgs -> [Users -> Roles \cup {NoRole}]]
    /\ client \in [Clients -> Request]
    /\ \A o \in Orgs : orgs[o] = "unborn" =>
           ProjectsOf(o) = {} /\ \A u \in Users : members[o][u] = NoRole

(* "Organization already exists": no two organizations have the same name, although two
   handlers may look for it before either inserts or renames. *)
OneNamePerOrganization ==
    \A o, p \in Orgs : Exists(o) /\ orgs[o] = orgs[p] => o = p

(* docs/adr/0005: the API applies roles to every mutation.  Who is named in the audit log of
   an organization has had the role that change needs, in that organization. *)
AuditedByMembers == event.n > 0 => held[event.org][event.by] >= event.needed

(* What the checks of a handler let through the database accepts, as long as nobody else
   writes in between: no request ends with an unexpected error. *)
ChecksForeseeConstraints ==
    \A c \in Clients : client[c].op # "none" => Accepted(client[c])

(* docs/02-MODELO-DOMINIO.md: the audit log records the important actions.  Whatever
   changes the tree or a role adds an event. *)
ChangesAudited == [][<<orgs, members, projects, targets>>' # <<orgs, members, projects, targets>>
                        => event'.n > event.n]_vars
=============================================================================
