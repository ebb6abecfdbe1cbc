----------------------------- MODULE Tenancy_proofs -----------------------------
(***************************************************************************)
(* Machine-checked safety of Tenancy for any organizations, projects,      *)
(* targets, names and accounts, any number of concurrent requests, and     *)
(* both databases.                                                         *)
(*                                                                         *)
(* A handler looks at roles and names in one step and commits in another:  *)
(* Vouched(r) is what a request r may still rely on when it commits.       *)
(***************************************************************************)
EXTENDS Tenancy, TLAPS

(* The role that the audited handlers ask of whoever calls them, in r.org. *)
Needed(r) ==
    CASE r.op = "update_organization" -> ADMIN
      [] r.op = "add_member"          -> OWNER
      [] OTHER                        -> MEMBER

InOrganization == {"update_organization", "delete_organization", "add_member",
                   "create_project", "update_project", "create_target"}

Vouched(r) ==
    /\ r.op \in InOrganization => orgs[r.org] # "unborn"
    /\ Production /\ r.op \in InOrganization \ {"delete_organization"} =>
          held[r.org][r.user] >= Needed(r)

(* The history of roles is not behind the roles, and every request is vouched for. *)
RoleInv ==
    /\ \A o \in Orgs, u \in Users : members[o][u] <= held[o][u]
    /\ \A c \in Clients : Vouched(client[c])

-----------------------------------------------------------------------------
(* Requests. *)

LEMMA AnyOfType ==
  /\ AnyOf(Orgs) \in Orgs /\ AnyOf(Projects) \in Projects /\ AnyOf(Targets) \in Targets
  /\ AnyOf(Names) \in Names /\ AnyOf(Users) \in Users
BY TenancyAssumption DEF AnyOf

LEMMA NoRequestShape ==
  NoRequest \in Request /\ NoRequest.op = "none" /\ Vouched(NoRequest)
<1>1. NoRequest \in Request /\ NoRequest.op = "none"
  BY AnyOfType DEF NoRequest, Request, Roles, VIEWER, OWNER
<1>. QED BY <1>1 DEF Vouched, InOrganization

LEMMA RoleValues ==
  /\ VIEWER \in Roles /\ MEMBER \in Roles /\ ADMIN \in Roles /\ OWNER \in Roles
  /\ \A r \in Roles \cup {NoRole} : r \in Int
BY DEF VIEWER, MEMBER, ADMIN, OWNER, NoRole, Roles

(* Whoever passes require_organization_access has the role, and the organization exists. *)
LEMMA AccessGives ==
  ASSUME TypeOK, RoleInv, NEW u \in Users, NEW o \in Orgs, NEW role \in Roles, Access(u, o, role)
  PROVE  orgs[o] # "unborn" /\ (Production => held[o][u] >= role)
<1>1. orgs[o] # "unborn"
  BY TenancyAssumption DEF Access, Exists, None
<1>2. members[o][u] \in Roles \cup {NoRole} /\ held[o][u] \in Roles \cup {NoRole}
  BY DEF TypeOK
<1>3. members[o][u] <= held[o][u]
  BY DEF RoleInv
<1>4. members[o][u] \in Int /\ held[o][u] \in Int /\ role \in Int
  BY <1>2, RoleValues
<1>. QED BY <1>1, <1>3, <1>4 DEF Access

(* What a handler has checked when it lets its request commit. *)
LEMMA CheckShape ==
  ASSUME TypeOK, RoleInv, NEW c \in Clients, NEW u \in Users, Check(c, u)
  PROVE  \E r \in Request : Asks(c, r) /\ Vouched(r)
<1>. DEFINE Goal == \E r \in Request : Asks(c, r) /\ Vouched(r)
<1>. SUFFICES Goal OBVIOUS
<1>1. ASSUME NEW n \in Names, CheckCreateOrganization(c, u, n)
      PROVE  Goal
  <2>1. PICK r : r = [NoRequest EXCEPT !.op = "create_organization", !.user = u, !.name = n]
    OBVIOUS
  <2>2. r \in Request /\ r.op = "create_organization"
    BY <2>1, AnyOfType, RoleValues DEF NoRequest, Request, Ops
  <2>3. Asks(c, r)
    BY <1>1, <2>1 DEF CheckCreateOrganization
  <2>. QED BY <2>2, <2>3 DEF Vouched, InOrganization
<1>2. ASSUME NEW o \in Orgs, NEW n \in Names, CheckUpdateOrganization(c, u, o, n)
      PROVE  Goal
  <2>0. Access(u, o, ADMIN)
    BY <1>2 DEF CheckUpdateOrganization
  <2>1. PICK r : r = [NoRequest EXCEPT !.op = "update_organization", !.user = u, !.org = o, !.name = n]
    OBVIOUS
  <2>2. r \in Request /\ r.op = "update_organization" /\ r.org = o /\ r.user = u
    BY <2>0, <2>1, AnyOfType, RoleValues DEF NoRequest, Request, Ops
  <2>3. Asks(c, r)
    BY <1>2, <2>1 DEF CheckUpdateOrganization
  <2>4. orgs[r.org] # "unborn" /\ (Production => held[r.org][r.user] >= ADMIN)
    BY <2>0, <2>2, AccessGives, RoleValues
  <2>. QED BY <2>2, <2>3, <2>4 DEF Vouched, Needed, InOrganization
<1>3. ASSUME NEW o \in Orgs, CheckDeleteOrganization(c, u, o)
      PROVE  Goal
  <2>0. Access(u, o, OWNER)
    BY <1>3 DEF CheckDeleteOrganization
  <2>1. PICK r : r = [NoRequest EXCEPT !.op = "delete_organization", !.user = u, !.org = o]
    OBVIOUS
  <2>2. r \in Request /\ r.op = "delete_organization" /\ r.org = o /\ r.user = u
    BY <2>0, <2>1, AnyOfType, RoleValues DEF NoRequest, Request, Ops
  <2>3. Asks(c, r)
    BY <1>3, <2>1 DEF CheckDeleteOrganization
  <2>4. orgs[r.org] # "unborn" /\ (Production => held[r.org][r.user] >= OWNER)
    BY <2>0, <2>2, AccessGives, RoleValues
  <2>. QED BY <2>2, <2>3, <2>4 DEF Vouched, Needed, InOrganization
<1>4. ASSUME NEW o \in Orgs, NEW m \in Users, NEW x \in Roles, CheckAddMember(c, u, o, m, x)
      PROVE  Goal
  <2>0. Access(u, o, OWNER)
    BY <1>4 DEF CheckAddMember
  <2>1. PICK r : r = [NoRequest EXCEPT !.op = "add_member", !.user = u, !.org = o, !.member = m,
                                      !.role = x, !.known = members[o][m] # NoRole]
    OBVIOUS
  <2>2. r \in Request /\ r.op = "add_member" /\ r.org = o /\ r.user = u
    BY <2>0, <2>1, AnyOfType, RoleValues DEF NoRequest, Request, Ops
  <2>3. Asks(c, r)
    BY <1>4, <2>1 DEF CheckAddMember
  <2>4. orgs[r.org] # "unborn" /\ (Production => held[r.org][r.user] >= OWNER)
    BY <2>0, <2>2, AccessGives, RoleValues
  <2>. QED BY <2>2, <2>3, <2>4 DEF Vouched, Needed, InOrganization
<1>5. ASSUME NEW o \in Orgs, CheckCreateProject(c, u, o)
      PROVE  Goal
  <2>0. Access(u, o, MEMBER)
    BY <1>5 DEF CheckCreateProject
  <2>1. PICK r : r = [NoRequest EXCEPT !.op = "create_project", !.user = u, !.org = o]
    OBVIOUS
  <2>2. r \in Request /\ r.op = "create_project" /\ r.org = o /\ r.user = u
    BY <2>0, <2>1, AnyOfType, RoleValues DEF NoRequest, Request, Ops
  <2>3. Asks(c, r)
    BY <1>5, <2>1 DEF CheckCreateProject
  <2>4. orgs[r.org] # "unborn" /\ (Production => held[r.org][r.user] >= MEMBER)
    BY <2>0, <2>2, AccessGives, RoleValues
  <2>. QED BY <2>2, <2>3, <2>4 DEF Vouched, Needed, InOrganization
<1>6. ASSUME NEW p \in Projects, CheckUpdateProject(c, u, p)
      PROVE  Goal
  <2>0. projects[p] \in Orgs /\ Access(u, projects[p], MEMBER)
    BY <1>6 DEF CheckUpdateProject, ProjectAccess
  <2>1. PICK r : r = [NoRequest EXCEPT !.op = "update_project", !.user = u, !.project = p,
                                      !.org = projects[p]]
    OBVIOUS
  <2>2. r \in Request /\ r.op = "update_project" /\ r.org = projects[p] /\ r.user = u
    BY <2>0, <2>1, AnyOfType, RoleValues DEF NoRequest, Request, Ops
  <2>3. Asks(c, r)
    BY <1>6, <2>1 DEF CheckUpdateProject
  <2>4. orgs[r.org] # "unborn" /\ (Production => held[r.org][r.user] >= MEMBER)
    BY <2>0, <2>2, AccessGives, RoleValues
  <2>. QED BY <2>2, <2>3, <2>4 DEF Vouched, Needed, InOrganization
<1>7. ASSUME NEW p \in Projects, CheckDeleteProject(c, u, p)
      PROVE  Goal
  <2>1. PICK r : r = [NoRequest EXCEPT !.op = "delete_project", !.user = u, !.project = p]
    OBVIOUS
  <2>2. r \in Request /\ r.op = "delete_project"
    BY <2>1, AnyOfType, RoleValues DEF NoRequest, Request, Ops
  <2>3. Asks(c, r)
    BY <1>7, <2>1 DEF CheckDeleteProject
  <2>. QED BY <2>2, <2>3 DEF Vouched, InOrganization
<1>8. ASSUME NEW p \in Projects, CheckCreateTarget(c, u, p)
      PROVE  Goal
  <2>0. projects[p] \in Orgs /\ Access(u, projects[p], MEMBER)
    BY <1>8 DEF CheckCreateTarget, ProjectAccess
  <2>1. PICK r : r = [NoRequest EXCEPT !.op = "create_target", !.user = u, !.project = p,
                                      !.org = projects[p]]
    OBVIOUS
  <2>2. r \in Request /\ r.op = "create_target" /\ r.org = projects[p] /\ r.user = u
    BY <2>0, <2>1, AnyOfType, RoleValues DEF NoRequest, Request, Ops
  <2>3. Asks(c, r)
    BY <1>8, <2>1 DEF CheckCreateTarget
  <2>4. orgs[r.org] # "unborn" /\ (Production => held[r.org][r.user] >= MEMBER)
    BY <2>0, <2>2, AccessGives, RoleValues
  <2>. QED BY <2>2, <2>3, <2>4 DEF Vouched, Needed, InOrganization
<1>9. ASSUME NEW t \in Targets, CheckDeleteTarget(c, u, t)
      PROVE  Goal
  <2>1. PICK r : r = [NoRequest EXCEPT !.op = "delete_target", !.user = u, !.target = t]
    OBVIOUS
  <2>2. r \in Request /\ r.op = "delete_target"
    BY <2>1, AnyOfType, RoleValues DEF NoRequest, Request, Ops
  <2>3. Asks(c, r)
    BY <1>9, <2>1 DEF CheckDeleteTarget
  <2>. QED BY <2>2, <2>3 DEF Vouched, InOrganization
<1>. HIDE DEF Goal
<1>. QED BY <1>1, <1>2, <1>3, <1>4, <1>5, <1>6, <1>7, <1>8, <1>9 DEF Check

-----------------------------------------------------------------------------
(* Commits. *)

(* A role given: the highest role ever had is not forgotten. *)
LEMMA HasRoleShape ==
  ASSUME TypeOK, RoleInv, NEW o \in Orgs, NEW u \in Users, NEW r \in Roles, HasRole(o, u, r)
  PROVE  /\ members' \in [Orgs -> [Users -> Roles \cup {NoRole}]]
         /\ held' \in [Orgs -> [Users -> Roles \cup {NoRole}]]
         /\ held'[o][u] >= r
         /\ \A p \in Orgs \ {o} : members'[p] = members[p]
         /\ \A p \in Orgs, v \in Users :
               held[p][v] <= held'[p][v] /\ members'[p][v] <= held'[p][v]
<1>0. /\ members \in [Orgs -> [Users -> Roles \cup {NoRole}]]
      /\ held \in [Orgs -> [Users -> Roles \cup {NoRole}]]
      /\ \A p \in Orgs, v \in Users : members[p][v] <= held[p][v]
  BY DEF TypeOK, RoleInv
<1>1. PICK h \in Roles \cup {NoRole} : h = IF r > held[o][u] THEN r ELSE held[o][u]
  BY <1>0
<1>2. h >= r /\ h >= held[o][u]
  <2>1. held[o][u] \in Int /\ r \in Int
    BY <1>0, RoleValues
  <2>. QED BY <1>1, <2>1
<1>3. held' = [held EXCEPT ![o][u] = h] /\ members' = [members EXCEPT ![o][u] = r]
  BY <1>0, <1>1 DEF HasRole
<1>4. /\ members' \in [Orgs -> [Users -> Roles \cup {NoRole}]]
      /\ held' \in [Orgs -> [Users -> Roles \cup {NoRole}]]
  BY <1>0, <1>3
<1>5. \A p \in Orgs, v \in Users : IF p = o /\ v = u THEN held'[p][v] = h /\ members'[p][v] = r
                                   ELSE held'[p][v] = held[p][v] /\ members'[p][v] = members[p][v]
  BY <1>0, <1>3
<1>6. \A p \in Orgs, v \in Users : held[p][v] \in Int
  BY <1>0, RoleValues
<1>7. \A p \in Orgs \ {o} : members'[p] = members[p]
  BY <1>0, <1>3
<1>. QED BY <1>0, <1>2, <1>4, <1>5, <1>6, <1>7

(* What a step does to names and roles. *)
LEMMA TreeSteps ==
  ASSUME TypeOK, RoleInv, [Next]_vars
  PROVE  /\ orgs' \in [Orgs -> Names \cup None]
         /\ members' \in [Orgs -> [Users -> Roles \cup {NoRole}]]
         /\ held' \in [Orgs -> [Users -> Roles \cup {NoRole}]]
         /\ \A o \in Orgs : orgs[o] # "unborn" => orgs'[o] # "unborn"
         /\ \A o \in Orgs : orgs'[o] = "unborn" => members'[o] = members[o]
         /\ \A o \in Orgs, u \in Users :
               held[o][u] <= held'[o][u] /\ members'[o][u] <= held'[o][u]
<1>. DEFINE Goal ==
         /\ orgs' \in [Orgs -> Names \cup None]
         /\ members' \in [Orgs -> [Users -> Roles \cup {NoRole}]]
         /\ held' \in [Orgs -> [Users -> Roles \cup {NoRole}]]
         /\ \A o \in Orgs : orgs[o] # "unborn" => orgs'[o] # "unborn"
         /\ \A o \in Orgs : orgs'[o] = "unborn" => members'[o] = members[o]
         /\ \A o \in Orgs, u \in Users :
               held[o][u] <= held'[o][u] /\ members'[o][u] <= held'[o][u]
<1>. SUFFICES Goal OBVIOUS
<1>0. /\ orgs \in [Orgs -> Names \cup None] /\ "deleted" # "unborn" /\ "unborn" \notin Names
      /\ members \in [Orgs -> [Users -> Roles \cup {NoRole}]]
      /\ held \in [Orgs -> [Users -> Roles \cup {NoRole}]]
      /\ \A c \in Clients : client[c] \in Request /\ Vouched(client[c])
  BY TenancyAssumption DEF TypeOK, RoleInv, None
<1>1. \A o \in Orgs, u \in Users : held[o][u] <= held[o][u] /\ members[o][u] <= held[o][u]
  <2>1. \A o \in Orgs, u \in Users : held[o][u] \in Int
    BY <1>0, RoleValues
  <2>. QED BY <2>1 DEF RoleInv
<1>2. CASE UNCHANGED <<orgs, members, held>>
  BY <1>0, <1>1, <1>2
<1>3. ASSUME NEW c \in Clients, NEW o \in Orgs, CreateOrganization(c, o) PROVE Goal
  <2>1. /\ HasRole(o, client[c].user, OWNER) /\ client[c].user \in Users /\ client[c].name \in Names
        /\ orgs[o] = "unborn" /\ orgs' = [orgs EXCEPT ![o] = client[c].name]
    BY <1>0, <1>3 DEF CreateOrganization, Request
  <2>2. orgs' \in [Orgs -> Names \cup None] /\ \A p \in Orgs \ {o} : orgs'[p] = orgs[p]
    BY <1>0, <2>1
  <2>3. orgs'[o] # "unborn"
    BY <1>0, <2>1
  <2>. QED BY <2>1, <2>2, <2>3, HasRoleShape, RoleValues
<1>4. ASSUME NEW c \in Clients, AddMember(c) PROVE Goal
  <2>1. /\ HasRole(client[c].org, client[c].member, client[c].role) /\ client[c].org \in Orgs
        /\ client[c].member \in Users /\ client[c].role \in Roles
        /\ orgs' = orgs /\ orgs[client[c].org] # "unborn"
    BY <1>0, <1>4 DEF AddMember, Request, Commits, Vouched, InOrganization
  <2>. QED BY <1>0, <2>1, HasRoleShape
<1>5. ASSUME NEW c \in Clients, UpdateOrganization(c) PROVE Goal
  <2>1. /\ client[c].org \in Orgs /\ client[c].name \in Names
        /\ orgs' = [orgs EXCEPT ![client[c].org] = client[c].name]
        /\ members' = members /\ held' = held
    BY <1>0, <1>5 DEF UpdateOrganization, Request
  <2>. QED BY <1>0, <1>1, <2>1
<1>6. ASSUME NEW c \in Clients, DeleteOrganization(c) PROVE Goal
  <2>1. /\ client[c].org \in Orgs
        /\ orgs' = [orgs EXCEPT ![client[c].org] = "deleted"]
        /\ members' = members /\ held' = held
    BY <1>0, <1>6 DEF DeleteOrganization, Request
  <2>. QED BY <1>0, <1>1, <2>1 DEF None
<1>7. ASSUME NEW c \in Clients, Commit(c) \/ Rollback(c)
      PROVE  \/ UNCHANGED <<orgs, members, held>>
             \/ \E o \in Orgs : CreateOrganization(c, o)
             \/ UpdateOrganization(c) \/ DeleteOrganization(c) \/ AddMember(c)
  BY <1>7 DEF Commit, Rollback, CreateProject, CreateTarget, UpdateProject, DeleteProject, DeleteTarget
<1>8. ASSUME NEW c \in Clients, NEW u \in Users, Check(c, u) PROVE UNCHANGED <<orgs, members, held>>
  BY <1>8, CheckShape DEF Asks
<1>. HIDE DEF Goal
<1>. QED BY <1>2, <1>3, <1>4, <1>5, <1>6, <1>7, <1>8 DEF Next, vars

LEMMA ClientSteps ==
  ASSUME TypeOK, RoleInv, [Next]_vars
  PROVE  /\ client' \in [Clients -> Request]
         /\ \A d \in Clients :
               \/ client'[d] \in {client[d], NoRequest}
               \/ Vouched(client'[d]) /\ UNCHANGED <<orgs, held>>
<1>0. client \in [Clients -> Request]
  BY DEF TypeOK
<1>1. CASE client' = client
  BY <1>0, <1>1
<1>2. ASSUME NEW c \in Clients, client' = [client EXCEPT ![c] = NoRequest]
      PROVE  /\ client' \in [Clients -> Request]
             /\ \A d \in Clients : client'[d] \in {client[d], NoRequest}
  BY <1>0, <1>2, NoRequestShape
<1>3. ASSUME NEW c \in Clients, NEW u \in Users, Check(c, u)
      PROVE  /\ client' \in [Clients -> Request]
             /\ \A d \in Clients : \/ client'[d] \in {client[d], NoRequest}
                                   \/ Vouched(client'[d]) /\ UNCHANGED <<orgs, held>>
  <2>1. PICK r \in Request : Asks(c, r) /\ Vouched(r)
    BY <1>3, CheckShape
  <2>2. client' = [client EXCEPT ![c] = r] /\ UNCHANGED <<orgs, held>>
    BY <2>1 DEF Asks
  <2>. QED BY <1>0, <2>1, <2>2
<1>4. ASSUME NEW c \in Clients, Commit(c) \/ Rollback(c)
      PROVE  client' = [client EXCEPT ![c] = NoRequest]
  BY <1>4 DEF Commit, Rollback, Commits, CreateOrganization, UpdateOrganization, DeleteOrganization,
              AddMember, CreateProject, UpdateProject, DeleteProject, CreateTarget, DeleteTarget
<1>. QED BY <1>1, <1>2, <1>3, <1>4 DEF Next, vars

LEMMA RoleStep == TypeOK /\ RoleInv /\ [Next]_vars => RoleInv'
<1>. SUFFICES ASSUME TypeOK, RoleInv, [Next]_vars PROVE RoleInv'
  OBVIOUS
<1>1. ASSUME NEW d \in Clients PROVE Vouched(client[d])'
  <2>1. CASE client'[d] = client[d]
    <3>1. client[d].org \in Orgs /\ client[d].user \in Users /\ Vouched(client[d])
      BY DEF TypeOK, Request, RoleInv
    <3>2. Needed(client[d]) \in Int
      BY RoleValues DEF Needed
    <3>3. /\ held[client[d].org][client[d].user] \in Roles \cup {NoRole}
          /\ held'[client[d].org][client[d].user] \in Roles \cup {NoRole}
          /\ held[client[d].org][client[d].user] <= held'[client[d].org][client[d].user]
          /\ orgs[client[d].org] # "unborn" => orgs'[client[d].org] # "unborn"
      BY <3>1, TreeSteps DEF TypeOK
    <3>4. held[client[d].org][client[d].user] >= Needed(client[d]) =>
             held'[client[d].org][client[d].user] >= Needed(client[d])
      <4>1. /\ held[client[d].org][client[d].user] \in Int
            /\ held'[client[d].org][client[d].user] \in Int
        BY <3>3, RoleValues
      <4>. QED BY <3>2, <3>3, <4>1
    <3>5. Needed(client[d])' = Needed(client[d])
      BY <2>1 DEF Needed
    <3>. QED BY <2>1, <3>1, <3>3, <3>4, <3>5 DEF Vouched
  <2>2. CASE client'[d] = NoRequest
    BY <2>2, NoRequestShape DEF Vouched, InOrganization
  <2>3. CASE Vouched(client'[d]) /\ UNCHANGED <<orgs, held>>
    BY <2>3 DEF Vouched, Needed
  <2>. QED BY <2>1, <2>2, <2>3, ClientSteps
<1>. QED BY <1>1, TreeSteps DEF RoleInv

(* An event names who asked, where, and the role that was asked for. *)
LEMMA AuditedShape ==
  ASSUME TypeOK, NEW c \in Clients, NEW o \in Orgs, NEW role \in Roles, Audited(c, o, role)
  PROVE  /\ event' \in [n : 0 .. MaxEvents, org : Orgs, by : Users, needed : Roles]
         /\ event'.org = o /\ event'.by = client[c].user /\ event'.needed = role
<1>1. client[c].user \in Users /\ event.n \in Nat /\ event.n < MaxEvents
  BY DEF TypeOK, Request, Audited
<1>2. event.n + 1 \in 0 .. MaxEvents
  BY <1>1, TenancyAssumption
<1>. QED BY <1>1, <1>2 DEF Audited

(* Which commits write the audit log, and for which role. *)
LEMMA AuditSteps ==
  ASSUME TypeOK, RoleInv, [Next]_vars
  PROVE  \/ event' = event
         \/ \E c \in Clients, o \in Orgs :
               CreateOrganization(c, o) /\ Audited(c, o, OWNER)
         \/ \E c \in Clients :
               /\ client[c].op \in InOrganization \ {"delete_organization"}
               /\ held[client[c].org][client[c].user] >= Needed(client[c]) \/ ~Production
               /\ Audited(c, client[c].org, Needed(client[c]))
<1>. DEFINE Goal == \/ event' = event
                    \/ \E c \in Clients, o \in Orgs :
                          CreateOrganization(c, o) /\ Audited(c, o, OWNER)
                    \/ \E c \in Clients :
                          /\ client[c].op \in InOrganization \ {"delete_organization"}
                          /\ held[client[c].org][client[c].user] >= Needed(client[c]) \/ ~Production
                          /\ Audited(c, client[c].org, Needed(client[c]))
<1>. SUFFICES Goal OBVIOUS
<1>0. \A c \in Clients : Vouched(client[c])
  BY DEF RoleInv
<1>1. ASSUME NEW c \in Clients, Commit(c) PROVE Goal
  <2>1. CASE \E o \in Orgs : CreateOrganization(c, o)
    BY <2>1 DEF CreateOrganization
  <2>2. CASE UpdateOrganization(c)
    <3>1. /\ client[c].op = "update_organization" /\ Needed(client[c]) = ADMIN
          /\ Audited(c, client[c].org, ADMIN)
      BY <2>2 DEF UpdateOrganization, Commits, Needed
    <3>. QED BY <1>0, <3>1 DEF Vouched, InOrganization
  <2>3. CASE AddMember(c)
    <3>1. /\ client[c].op = "add_member" /\ Needed(client[c]) = OWNER
          /\ Audited(c, client[c].org, OWNER)
      BY <2>3 DEF AddMember, Commits, Needed
    <3>. QED BY <1>0, <3>1 DEF Vouched, InOrganization
  <2>4. CASE UpdateProject(c) \/ (\E p \in Projects : CreateProject(c, p))
             \/ (\E t \in Targets : CreateTarget(c, t))
    <3>1. /\ client[c].op \in {"create_project", "update_project", "create_target"}
          /\ Audited(c, client[c].org, MEMBER)
      BY <2>4 DEF UpdateProject, CreateProject, CreateTarget, Commits
    <3>2. Needed(client[c]) = MEMBER
      BY <3>1 DEF Needed
    <3>. QED BY <1>0, <3>1, <3>2 DEF Vouched, InOrganization
  <2>5. CASE DeleteOrganization(c) \/ DeleteProject(c) \/ DeleteTarget(c)
    BY <2>5 DEF DeleteOrganization, DeleteProject, DeleteTarget
  <2>. HIDE DEF Goal
  <2>. QED BY <1>1, <2>1, <2>2, <2>3, <2>4, <2>5 DEF Commit
<1>2. ASSUME NEW c \in Clients, NEW u \in Users, Check(c, u) PROVE event' = event
  BY <1>2, CheckShape DEF Asks
<1>3. ASSUME NEW c \in Clients, Rollback(c) PROVE event' = event
  BY <1>3 DEF Rollback
<1>4. UNCHANGED vars => event' = event
  BY DEF vars
<1>. QED BY <1>1, <1>2, <1>3, <1>4 DEF Next

LEMMA TypeStep == TypeOK /\ RoleInv /\ [Next]_vars => TypeOK'
<1>. SUFFICES ASSUME TypeOK, RoleInv, [Next]_vars PROVE TypeOK'
  OBVIOUS
<1>0. /\ projects \in [Projects -> Orgs \cup None] /\ targets \in [Targets -> Projects \cup None]
      /\ \A c \in Clients : client[c] \in Request /\ Vouched(client[c])
      /\ "deleted" \notin Orgs /\ "deleted" \in None
      /\ \A o \in Orgs : orgs[o] = "unborn" =>
             (\A p \in Projects : projects[p] # o) /\ \A u \in Users : members[o][u] = NoRole
  BY TenancyAssumption DEF TypeOK, RoleInv, None, ProjectsOf
<1>1. /\ projects' \in [Projects -> Orgs \cup None]
      /\ \A p \in Projects, o \in Orgs :
            projects'[p] = o => projects[p] = o \/ orgs[o] # "unborn"
  <2>. DEFINE Goal == /\ projects' \in [Projects -> Orgs \cup None]
                      /\ \A p \in Projects, o \in Orgs :
                            projects'[p] = o => projects[p] = o \/ orgs[o] # "unborn"
  <2>. SUFFICES Goal OBVIOUS
  <2>1. CASE projects' = projects
    BY <1>0, <2>1
  <2>2. ASSUME NEW c \in Clients, NEW p \in Projects, CreateProject(c, p)
        PROVE  /\ client[c].org \in Orgs /\ orgs[client[c].org] # "unborn"
               /\ projects' = [projects EXCEPT ![p] = client[c].org]
    BY <1>0, <2>2 DEF CreateProject, Commits, Request, Vouched, InOrganization
  <2>3. ASSUME NEW c \in Clients, NEW p \in Projects, CreateProject(c, p) PROVE Goal
    BY <1>0, <2>2, <2>3
  <2>4. ASSUME NEW c \in Clients, DeleteProject(c) PROVE Goal
    <3>1. projects' = [projects EXCEPT ![client[c].project] = "deleted"]
      BY <2>4 DEF DeleteProject
    <3>. QED BY <1>0, <3>1
  <2>5. \/ projects' = projects
        \/ \E c \in Clients : DeleteProject(c) \/ \E p \in Projects : CreateProject(c, p)
    <3>1. ASSUME NEW c \in Clients, NEW u \in Users, Check(c, u) PROVE projects' = projects
      BY <3>1, CheckShape DEF Asks
    <3>. QED BY <3>1 DEF Next, vars, Rollback, Commit, CreateOrganization, UpdateOrganization,
                         DeleteOrganization, AddMember, UpdateProject, CreateTarget, DeleteTarget
  <2>. HIDE DEF Goal
  <2>. QED BY <2>1, <2>3, <2>4, <2>5
<1>2. targets' \in [Targets -> Projects \cup None]
  <2>1. ASSUME NEW c \in Clients, NEW t \in Targets, CreateTarget(c, t)
        PROVE  targets' \in [Targets -> Projects \cup None]
    BY <1>0, <2>1 DEF CreateTarget, Request
  <2>2. ASSUME NEW c \in Clients, DeleteTarget(c)
        PROVE  targets' \in [Targets -> Projects \cup None]
    BY <1>0, <2>2 DEF DeleteTarget
  <2>3. \/ targets' = targets
        \/ \E c \in Clients : DeleteTarget(c) \/ \E t \in Targets : CreateTarget(c, t)
    <3>1. ASSUME NEW c \in Clients, NEW u \in Users, Check(c, u) PROVE targets' = targets
      BY <3>1, CheckShape DEF Asks
    <3>. QED BY <3>1 DEF Next, vars, Rollback, Commit, CreateOrganization, UpdateOrganization,
                         DeleteOrganization, AddMember, CreateProject, UpdateProject, DeleteProject
  <2>. QED BY <1>0, <2>1, <2>2, <2>3
<1>3. event' \in [n : 0 .. MaxEvents, org : Orgs, by : Users, needed : Roles]
  <2>1. \A c \in Clients : client[c].org \in Orgs /\ Needed(client[c]) \in Roles
    BY <1>0, RoleValues DEF Request, Needed
  <2>. QED BY <2>1, AuditSteps, AuditedShape, RoleValues DEF TypeOK
<1>4. \A o \in Orgs : orgs'[o] = "unborn" =>
          ProjectsOf(o)' = {} /\ \A u \in Users : members'[o][u] = NoRole
  BY <1>0, <1>1, TreeSteps DEF ProjectsOf
<1>. QED BY <1>1, <1>2, <1>3, <1>4, TreeSteps, ClientSteps DEF TypeOK

LEMMA InitInv == Init => TypeOK /\ RoleInv
<1>. SUFFICES ASSUME Init PROVE TypeOK /\ RoleInv
  OBVIOUS
<1>1. /\ members = [o \in Orgs |-> [u \in Users |-> NoRole]] /\ held = members
      /\ orgs = [o \in Orgs |-> "unborn"] /\ projects = [p \in Projects |-> "unborn"]
      /\ targets = [t \in Targets |-> "unborn"] /\ client = [c \in Clients |-> NoRequest]
  BY DEF Init
<1>2. event \in [n : 0 .. MaxEvents, org : Orgs, by : Users, needed : Roles]
  BY AnyOfType, RoleValues, TenancyAssumption DEF Init
<1>3. "unborn" \notin Orgs /\ "unborn" \in None
  BY TenancyAssumption DEF None
<1>4. TypeOK
  BY <1>1, <1>2, <1>3, NoRequestShape DEF TypeOK, ProjectsOf
<1>5. RoleInv
  <2>1. NoRole <= NoRole
    BY DEF NoRole
  <2>. QED BY <1>1, <2>1, NoRequestShape DEF RoleInv
<1>. QED BY <1>4, <1>5

(* Names, roles, rows and events keep their types, and nothing hangs on an organization
   that does not exist yet. *)
THEOREM TypeCorrect == Spec => []TypeOK
  BY InitInv, TypeStep, RoleStep, PTL DEF Spec

-----------------------------------------------------------------------------
LEMMA NameStep == TypeOK /\ RoleInv /\ OneNamePerOrganization /\ [Next]_vars => OneNamePerOrganization'
<1>. SUFFICES ASSUME TypeOK, RoleInv, OneNamePerOrganization, [Next]_vars
              PROVE  OneNamePerOrganization'
  OBVIOUS
<1>0. /\ orgs \in [Orgs -> Names \cup None] /\ "deleted" \notin Names
      /\ \A c \in Clients : client[c] \in Request
  BY TenancyAssumption DEF TypeOK, None
<1>1. CASE orgs' = orgs
  BY <1>1 DEF OneNamePerOrganization, Exists
<1>2. ASSUME NEW c \in Clients, NEW o \in Orgs, CreateOrganization(c, o)
      PROVE  OneNamePerOrganization'
  <2>1. /\ orgs' = [orgs EXCEPT ![o] = client[c].name]
        /\ \A p \in Orgs : orgs[p] # client[c].name
    BY <1>2 DEF CreateOrganization, Commits, Accepted, NameFree
  <2>. QED BY <1>0, <2>1 DEF OneNamePerOrganization, Exists
<1>3. ASSUME NEW c \in Clients, UpdateOrganization(c) PROVE OneNamePerOrganization'
  <2>1. /\ orgs' = [orgs EXCEPT ![client[c].org] = client[c].name] /\ client[c].org \in Orgs
        /\ \A p \in Orgs \ {client[c].org} : orgs[p] # client[c].name
    BY <1>0, <1>3 DEF UpdateOrganization, Commits, Accepted, NameFree, Request
  <2>. QED BY <1>0, <2>1 DEF OneNamePerOrganization, Exists
<1>4. ASSUME NEW c \in Clients, DeleteOrganization(c) PROVE OneNamePerOrganization'
  <2>1. orgs' = [orgs EXCEPT ![client[c].org] = "deleted"] /\ client[c].org \in Orgs
    BY <1>0, <1>4 DEF DeleteOrganization, Request
  <2>. QED BY <1>0, <2>1 DEF OneNamePerOrganization, Exists
<1>5. ASSUME NEW c \in Clients, NEW u \in Users, Check(c, u) PROVE orgs' = orgs
  BY <1>5, CheckShape DEF Asks
<1>. QED BY <1>1, <1>2, <1>3, <1>4, <1>5
     DEF Next, vars, Rollback, Commit, AddMember, CreateProject, UpdateProject, DeleteProject,
         CreateTarget, DeleteTarget

(* No two organizations ever have the same name, although any number of handlers may look
   for a name before one of them inserts or renames: the unique constraint decides
   (models/persistence.py; apps/api/main.py, create_organization, update_organization). *)
THEOREM NamesStayUnique == Spec => []OneNamePerOrganization
<1>1. Init => OneNamePerOrganization
  BY TenancyAssumption DEF Init, OneNamePerOrganization, Exists, None
<1>. QED BY <1>1, InitInv, TypeStep, RoleStep, NameStep, PTL DEF Spec

LEMMA AuditStep ==
  ASSUME Production
  PROVE  TypeOK /\ RoleInv /\ AuditedByMembers /\ [Next]_vars => AuditedByMembers'
<1>. SUFFICES ASSUME TypeOK, RoleInv, AuditedByMembers, [Next]_vars PROVE AuditedByMembers'
  OBVIOUS
<1>0. /\ \A o \in Orgs, u \in Users : held[o][u] <= held'[o][u]
      /\ \A o \in Orgs, u \in Users : held[o][u] \in Int /\ held'[o][u] \in Int
      /\ \A c \in Clients : client[c].org \in Orgs /\ client[c].user \in Users
  BY TreeSteps, RoleValues DEF TypeOK, Request
<1>1. CASE event' = event
  <2>1. event.org \in Orgs /\ event.by \in Users /\ event.needed \in Int
    BY RoleValues DEF TypeOK
  <2>. QED BY <1>0, <1>1, <2>1 DEF AuditedByMembers
<1>2. ASSUME NEW c \in Clients, NEW o \in Orgs, CreateOrganization(c, o), Audited(c, o, OWNER)
      PROVE  AuditedByMembers'
  <2>1. HasRole(o, client[c].user, OWNER)
    BY <1>2 DEF CreateOrganization
  <2>. QED BY <1>0, <1>2, <2>1, HasRoleShape, AuditedShape, RoleValues DEF AuditedByMembers
<1>3. ASSUME NEW c \in Clients, held[client[c].org][client[c].user] >= Needed(client[c]),
             Audited(c, client[c].org, Needed(client[c]))
      PROVE  AuditedByMembers'
  <2>1. Needed(client[c]) \in Roles /\ Needed(client[c]) \in Int
    BY RoleValues DEF Needed
  <2>2. held'[client[c].org][client[c].user] >= Needed(client[c])
    BY <1>0, <1>3, <2>1
  <2>. QED BY <1>0, <1>3, <2>1, <2>2, AuditedShape DEF AuditedByMembers
<1>. QED BY <1>1, <1>2, <1>3, AuditSteps

(* Who is named in the audit log of an organization has had the role that change needs
   there, whatever became of roles, organizations and projects between the check and the
   commit (apps/api/auth.py, require_organization_access).  Roles are only looked at in
   production mode. *)
THEOREM AuditedHadRole ==
  ASSUME Production
  PROVE  Spec => []AuditedByMembers
<1>1. Init => AuditedByMembers
  BY DEF Init, AuditedByMembers
<1>. QED BY <1>1, InitInv, TypeStep, RoleStep, AuditStep, PTL DEF Spec
=============================================================================
