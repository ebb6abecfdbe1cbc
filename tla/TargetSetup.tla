------------------------------ MODULE TargetSetup ------------------------------
(***************************************************************************)
(* What hangs on a target and decides how it may be scanned: its address,  *)
(* its scopes, its authorizations (apps/api/main.py), the challenges by    *)
(* which its owner proves the domain (models/repository.py and             *)
(* models/verification.py), and the snapshot a scan job takes of them.     *)
(*                                                                         *)
(* An address and an origin are the domain they belong to ("site").  That  *)
(* base_url is unique refuses no domain, because a domain has many         *)
(* addresses: two targets may share one, and a 409 or a refused commit is  *)
(* Rollback.  A handler reads in one step and commits in another.  Targets *)
(* exist throughout: Tenancy creates and deletes them; ScanQueue runs the  *)
(* jobs.                                                                   *)
(***************************************************************************)
EXTENDS Integers, FiniteSets, TLC

CONSTANTS
    Targets,
    Sites,                        \* domains
    Owned,                        \* those where whoever asks for proofs can show a token
    Scopes, Auths, Challenges,    \* identifiers of rows, each used at most once
    NJobs,                        \* how many jobs may be enqueued
    MaxTime,                      \* moments a window may start or end at
    Clients,                      \* requests handled at the same time
    Sqlite                        \* FALSE is PostgreSQL

Symmetry == Permutations(Clients)

Jobs  == 1 .. NJobs
Times == 1 .. MaxTime

ASSUME SetupAssumption ==
    /\ Targets # {} /\ Sites # {} /\ Owned \subseteq Sites
    /\ IsFiniteSet(Clients)
    /\ NJobs \in Nat /\ MaxTime \in Nat \ {0}
    /\ Sqlite \in BOOLEAN

VARIABLES
    site,         \* Target.root_domain
    verified,     \* the targets that are verified
    scopes, auths, challenges, jobs,    \* rows
    had,          \* history: the domains a target has had
    proofs,       \* history: the domains at which a proof of the target was seen
    uses,         \* history: how often consume_challenge returned True for a challenge
    client        \* the request each client waits for

rows == <<site, verified, scopes, auths, challenges, jobs, had, proofs, uses>>
vars == <<site, verified, scopes, auths, challenges, jobs, had, proofs, uses, client>>

AnyOf(S) == CHOOSE x \in S : TRUE

Keep == "keep"    \* a column an UPDATE leaves alone
NoTime == 0
NoRow == "none"

Scope == [state : {"unborn", "present", "deleted"}, target : Targets, site : Sites,
          excluded : {"yes", "no"}]
Auth  == [state : {"unborn", "present", "deleted"}, target : Targets,
          from : Times, until : Times]
Challenge == [state : {"unborn", "live", "expired", "consumed"}, target : Targets]
Job   == [state : {"unborn", "active", "done"}, target : Targets, base : Sites,
          origins : SUBSET Sites]    \* policy_snapshot["target"] and ["allowed_origins"]

Ops == {"update_target", "create_scope", "update_scope", "delete_scope",
        "create_auth", "update_auth", "delete_auth", "fetch", "select", "consume", "enqueue"}

Request == [op : Ops \cup {"none"}, target : Targets, site : Sites \cup {Keep},
            excluded : {"yes", "no", Keep}, scope : Scopes \cup {NoRow},
            auth : Auths \cup {NoRow},
            from : Times \cup {NoTime}, until : Times \cup {NoTime},
            challenge : Challenges \cup {NoRow}, origins : SUBSET Sites]

NoRequest == [op |-> "none", target |-> AnyOf(Targets), site |-> Keep, excluded |-> Keep,
              scope |-> NoRow, auth |-> NoRow, from |-> NoTime, until |-> NoTime,
              challenge |-> NoRow, origins |-> {}]

Init ==
    /\ site \in [Targets -> Sites]
    /\ verified = {}
    /\ scopes = [i \in Scopes |-> [state |-> "unborn", target |-> AnyOf(Targets),
                                   site |-> AnyOf(Sites), excluded |-> "no"]]
    /\ auths = [a \in Auths |-> [state |-> "unborn", target |-> AnyOf(Targets),
                                 from |-> 1, until |-> 1]]
    /\ challenges = [k \in Challenges |-> [state |-> "unborn", target |-> AnyOf(Targets)]]
    /\ jobs = [j \in Jobs |-> [state |-> "unborn", target |-> AnyOf(Targets),
                               base |-> AnyOf(Sites), origins |-> {}]]
    /\ had = [t \in Targets |-> {site[t]}]
    /\ proofs = [t \in Targets |-> {}]
    /\ uses = [k \in Challenges |-> 0]
    /\ client = [c \in Clients |-> NoRequest]

JobsOf(t)   == {j \in Jobs : jobs[j].state # "unborn" /\ jobs[j].target = t}
Active(t)   == {j \in JobsOf(t) : jobs[j].state = "active"}
ScopesOf(t) == {i \in Scopes : scopes[i].state = "present" /\ scopes[i].target = t}
Present(row) == row.state = "present"

Asks(c, request) ==
    /\ client[c].op = "none"
    /\ client' = [client EXCEPT ![c] = request]
    /\ UNCHANGED rows

Commits(c, op) ==
    /\ client[c].op = op
    /\ client' = [client EXCEPT ![c] = NoRequest]

-----------------------------------------------------------------------------
(* Targets *)

CheckUpdateTarget(c, t, s) ==
    /\ JobsOf(t) = {}
    /\ Asks(c, [NoRequest EXCEPT !.op = "update_target", !.target = t, !.site = s])

(* "verified" and the scopes are left as they are. *)
UpdateTarget(c) ==
    LET t == client[c].target s == client[c].site IN
    /\ Commits(c, "update_target")
    /\ site' = [site EXCEPT ![t] = s]
    /\ had' = [had EXCEPT ![t] = @ \cup {s}]
    /\ UNCHANGED <<verified, scopes, auths, challenges, jobs, proofs, uses>>

-----------------------------------------------------------------------------
(* Scopes: "Scope origin must belong to the target domain" *)

CheckCreateScope(c, t, s, ex) ==
    /\ s = site[t]
    /\ Asks(c, [NoRequest EXCEPT !.op = "create_scope", !.target = t, !.site = s,
                                 !.excluded = ex])

CreateScope(c, i) ==
    /\ Commits(c, "create_scope")
    /\ scopes[i].state = "unborn"
    /\ scopes' = [scopes EXCEPT ![i] = [state |-> "present", target |-> client[c].target,
                                        site |-> client[c].site,
                                        excluded |-> client[c].excluded]]
    /\ UNCHANGED <<site, verified, auths, challenges, jobs, had, proofs, uses>>

(* Mutant: only a new scope is compared with the domain of its target. *)
CheckUpdateScopeAnywhere(c, i, s, ex) ==
    /\ Present(scopes[i])
    /\ Asks(c, [NoRequest EXCEPT !.op = "update_scope", !.scope = i,
                                 !.site = IF s = scopes[i].site THEN Keep ELSE s,
                                 !.excluded = IF ex = scopes[i].excluded THEN Keep ELSE ex])

(* A column is only written when its value changes. *)
CheckUpdateScope(c, i, s, ex) ==
    /\ Present(scopes[i])
    /\ s \in {Keep, site[scopes[i].target]}
    /\ Asks(c, [NoRequest EXCEPT !.op = "update_scope", !.scope = i,
                                 !.site = IF s = scopes[i].site THEN Keep ELSE s,
                                 !.excluded = IF ex = scopes[i].excluded THEN Keep ELSE ex])

(* An UPDATE of a row that is gone raises, and rolls back. *)
UpdateScope(c) ==
    LET i == client[c].scope s == client[c].site ex == client[c].excluded IN
    /\ Commits(c, "update_scope")
    /\ Present(scopes[i])
    /\ scopes' = [scopes EXCEPT ![i].site = IF s = Keep THEN @ ELSE s,
                                ![i].excluded = IF ex = Keep THEN @ ELSE ex]
    /\ UNCHANGED <<site, verified, auths, challenges, jobs, had, proofs, uses>>

CheckDeleteScope(c, i) ==
    /\ Present(scopes[i])
    /\ Asks(c, [NoRequest EXCEPT !.op = "delete_scope", !.scope = i])

DeleteScope(c) ==
    /\ Commits(c, "delete_scope")
    /\ scopes' = [scopes EXCEPT ![client[c].scope].state = "deleted"]
    /\ UNCHANGED <<site, verified, auths, challenges, jobs, had, proofs, uses>>

-----------------------------------------------------------------------------
(* Authorizations: "Authorization end must be after start" *)

CheckCreateAuth(c, t, f, u) ==
    /\ f < u
    /\ Asks(c, [NoRequest EXCEPT !.op = "create_auth", !.target = t, !.from = f, !.until = u])

CreateAuth(c, a) ==
    /\ Commits(c, "create_auth")
    /\ auths[a].state = "unborn"
    /\ auths' = [auths EXCEPT ![a] = [state |-> "present", target |-> client[c].target,
                                      from |-> client[c].from, until |-> client[c].until]]
    /\ UNCHANGED <<site, verified, scopes, challenges, jobs, had, proofs, uses>>

(* SQLite returns times without a zone, which never equal the ones assigned, so that both
   columns are written; PostgreSQL's compare, and only what has changed is written. *)
Written(loaded, given) ==
    IF Sqlite THEN (IF given = NoTime THEN loaded ELSE given)
              ELSE (IF given = loaded THEN NoTime ELSE given)

Merged(loaded, given) == IF given = NoTime THEN loaded ELSE given

(* Mutant: what is given is compared, not what results. *)
CheckUpdateAuthGiven(c, a, f, u) ==
    /\ Present(auths[a])
    /\ f # NoTime /\ u # NoTime => f < u
    /\ Asks(c, [NoRequest EXCEPT !.op = "update_auth", !.auth = a,
                                 !.from = Written(auths[a].from, f),
                                 !.until = Written(auths[a].until, u)])

CheckUpdateAuth(c, a, f, u) ==
    /\ Present(auths[a])
    /\ Merged(auths[a].from, f) < Merged(auths[a].until, u)
    /\ Asks(c, [NoRequest EXCEPT !.op = "update_auth", !.auth = a,
                                 !.from = Written(auths[a].from, f),
                                 !.until = Written(auths[a].until, u)])

UpdateAuth(c) ==
    LET a == client[c].auth IN
    /\ Commits(c, "update_auth")
    /\ Present(auths[a])
    /\ auths' = [auths EXCEPT ![a].from  = Merged(@, client[c].from),
                              ![a].until = Merged(@, client[c].until)]
    /\ UNCHANGED <<site, verified, scopes, challenges, jobs, had, proofs, uses>>

(* No job that the API enqueues refers to an authorization. *)
CheckDeleteAuth(c, a) ==
    /\ Present(auths[a])
    /\ Asks(c, [NoRequest EXCEPT !.op = "delete_auth", !.auth = a])

DeleteAuth(c) ==
    /\ Commits(c, "delete_auth")
    /\ auths' = [auths EXCEPT ![client[c].auth].state = "deleted"]
    /\ UNCHANGED <<site, verified, scopes, challenges, jobs, had, proofs, uses>>

-----------------------------------------------------------------------------
(* Ownership: TargetRepository and DomainVerifier *)

CreateChallenge(t, k) ==
    /\ challenges[k].state = "unborn"
    /\ challenges' = [challenges EXCEPT ![k] = [state |-> "live", target |-> t]]
    /\ UNCHANGED <<site, verified, scopes, auths, jobs, had, proofs, uses, client>>

ExpireChallenge(k) ==
    /\ challenges[k].state = "live"
    /\ challenges' = [challenges EXCEPT ![k].state = "expired"]
    /\ UNCHANGED <<site, verified, scopes, auths, jobs, had, proofs, uses, client>>

(* verify_well_known asks the address its Target object has; verify_dns_txt is given the
   records of that domain. *)
Verify(c, t, k) ==
    /\ challenges[k].state # "unborn"
    /\ Asks(c, [NoRequest EXCEPT !.op = "fetch", !.target = t, !.site = site[t],
                                 !.challenge = k])

(* Mutant: whatever the domain answers is taken for the proof. *)
ProofAssumed(c) ==
    LET t == client[c].target IN
    /\ client[c].op = "fetch"
    /\ proofs' = [proofs EXCEPT ![t] = @ \cup ({client[c].site} \cap Owned)]
    /\ client' = [client EXCEPT ![c].op = "select"]
    /\ UNCHANGED <<site, verified, scopes, auths, challenges, jobs, had, uses>>

ProofSeen(c) ==
    LET t == client[c].target IN
    /\ client[c].op = "fetch" /\ client[c].site \in Owned
    /\ proofs' = [proofs EXCEPT ![t] = @ \cup {client[c].site}]
    /\ client' = [client EXCEPT ![c].op = "select"]
    /\ UNCHANGED <<site, verified, scopes, auths, challenges, jobs, had, uses>>

(* consume_challenge selects the live challenges of the target ... *)
Select(c) ==
    LET k == client[c].challenge IN
    /\ client[c].op = "select"
    /\ challenges[k].state = "live" /\ challenges[k].target = client[c].target
    /\ client' = [client EXCEPT ![c].op = "consume"]
    /\ UNCHANGED rows

(* ... and writes without looking again. *)
Consume(c) ==
    LET k == client[c].challenge IN
    /\ Commits(c, "consume")
    /\ challenges' = [challenges EXCEPT ![k].state = "consumed"]
    /\ verified' = verified \cup {client[c].target}
    /\ uses' = [uses EXCEPT ![k] = @ + 1]
    /\ UNCHANGED <<site, scopes, auths, jobs, had, proofs>>

-----------------------------------------------------------------------------
(* enqueue_passive_scan: the snapshot of the policy *)

CheckEnqueue(c, t) ==
    /\ Active(t) = {}
    /\ Asks(c, [NoRequest EXCEPT !.op = "enqueue", !.target = t, !.site = site[t],
                  !.origins = {site[t]} \cup
                     {scopes[i].site : i \in {h \in ScopesOf(t) : scopes[h].excluded = "no"}}])

Enqueue(c, j) ==
    /\ Commits(c, "enqueue")
    /\ jobs[j].state = "unborn"
    /\ jobs' = [jobs EXCEPT ![j] = [state |-> "active", target |-> client[c].target,
                                    base |-> client[c].site, origins |-> client[c].origins]]
    /\ UNCHANGED <<site, verified, scopes, auths, challenges, had, proofs, uses>>

JobEnds(j) ==
    /\ jobs[j].state = "active"
    /\ jobs' = [jobs EXCEPT ![j].state = "done"]
    /\ UNCHANGED <<site, verified, scopes, auths, challenges, had, proofs, uses, client>>

(* The commit is refused, the proof not found, or the client gone. *)
Rollback(c) ==
    /\ client[c].op # "none"
    /\ client' = [client EXCEPT ![c] = NoRequest]
    /\ UNCHANGED rows

Check(c) ==
    \/ \E t \in Targets, s \in Sites : CheckUpdateTarget(c, t, s)
    \/ \E t \in Targets, s \in Sites, ex \in {"yes", "no"} : CheckCreateScope(c, t, s, ex)
    \/ \E i \in Scopes, s \in Sites \cup {Keep}, ex \in {"yes", "no", Keep} :
          CheckUpdateScope(c, i, s, ex)
    \/ \E i \in Scopes : CheckDeleteScope(c, i)
    \/ \E t \in Targets, f, u \in Times : CheckCreateAuth(c, t, f, u)
    \/ \E a \in Auths, f, u \in Times \cup {NoTime} : CheckUpdateAuth(c, a, f, u)
    \/ \E a \in Auths : CheckDeleteAuth(c, a)
    \/ \E t \in Targets, k \in Challenges : Verify(c, t, k)
    \/ \E t \in Targets : CheckEnqueue(c, t)

Commit(c) ==
    \/ UpdateTarget(c) \/ UpdateScope(c) \/ DeleteScope(c) \/ UpdateAuth(c) \/ DeleteAuth(c)
    \/ ProofSeen(c) \/ Select(c) \/ Consume(c)
    \/ \E i \in Scopes : CreateScope(c, i)
    \/ \E a \in Auths : CreateAuth(c, a)
    \/ \E j \in Jobs : Enqueue(c, j)

Next ==
    \/ \E c \in Clients : Check(c) \/ Commit(c) \/ Rollback(c)
    \/ \E k \in Challenges : ExpireChallenge(k) \/ \E t \in Targets : CreateChallenge(t, k)
    \/ \E j \in Jobs : JobEnds(j)

Spec == Init /\ [][Next]_vars

-----------------------------------------------------------------------------
(* Properties *)

TypeOK ==
    /\ site \in [Targets -> Sites] /\ verified \subseteq Targets
    /\ scopes \in [Scopes -> Scope] /\ auths \in [Auths -> Auth]
    /\ challenges \in [Challenges -> Challenge] /\ jobs \in [Jobs -> Job]
    /\ had \in [Targets -> SUBSET Sites] /\ proofs \in [Targets -> SUBSET Sites]
    /\ uses \in [Challenges -> 0 .. Cardinality(Clients)]
    /\ client \in [Clients -> Request]
    /\ \A t \in Targets : site[t] \in had[t] /\ proofs[t] \subseteq had[t] \cap Owned

(* "Authorization end must be after start": of every authorization, whichever requests
   move its two ends. *)
WindowsOrdered == \A a \in Auths : Present(auths[a]) => auths[a].from < auths[a].until

(* A scan is never allowed an origin outside the domains its target has had, however
   scopes and address are changed while it is enqueued. *)
SnapshotsStayHome ==
    \A j \in Jobs : jobs[j].state # "unborn" => jobs[j].origins \subseteq had[jobs[j].target]

(* A verified target was proved: at a domain it has had, with a challenge made for it. *)
VerifiedByProof ==
    \A t \in verified :
        /\ proofs[t] \cap had[t] # {}
        /\ \E k \in Challenges : challenges[k].state = "consumed" /\ challenges[k].target = t

(* consume_challenge: "Atomically consume a live matching token". *)
ChallengesUsedOnce == \A k \in Challenges : uses[k] <= 1

(* "Scope origin must belong to the target domain": a snapshot allows that domain only. *)
SnapshotsOnTargetDomain ==
    \A j \in Jobs : jobs[j].state # "unborn" => jobs[j].origins = {jobs[j].base}

(* docs/02-MODELO-DOMINIO.md: a target has an address, a domain and a state of
   verification; what is verified is the domain the target has. *)
VerifiedIsProven == \A t \in verified : site[t] \in proofs[t]
=============================================================================
