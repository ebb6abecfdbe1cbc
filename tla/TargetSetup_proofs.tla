--------------------------- MODULE TargetSetup_proofs ---------------------------
(***************************************************************************)
(* Machine-checked safety of TargetSetup for any targets, domains, rows    *)
(* and moments and any finite number of concurrent requests.               *)
(*                                                                         *)
(* Every handler checks in one step and commits in another, so each proof  *)
(* is about what a request that has been checked still may rely on when it *)
(* commits, whatever has been committed meanwhile: the predicates on a     *)
(* request r below.                                                        *)
(***************************************************************************)
EXTENDS TargetSetup, FiniteSetTheorems, TLAPS

(* What a request carries. *)
Shaped(r) ==
    /\ r.op \in {"update_target", "create_scope", "fetch", "enqueue"} => r.site \in Sites
    /\ r.op = "create_scope" => r.excluded \in {"yes", "no"}
    /\ r.op \in {"update_scope", "delete_scope"} => r.scope \in Scopes
    /\ r.op = "create_auth" => r.from \in Times /\ r.until \in Times
    /\ r.op \in {"update_auth", "delete_auth"} => r.auth \in Auths
    /\ r.op \in {"fetch", "select", "consume"} => r.challenge \in Challenges

(* What it relies on: of the two ends of a window, *)
Windowed(r) ==
    /\ r.op = "create_auth" => r.from < r.until
    /\ r.op = "update_auth" =>
          IF Sqlite
          THEN r.from # NoTime /\ r.until # NoTime /\ r.from < r.until
          ELSE Present(auths[r.auth]) =>
                  Merged(auths[r.auth].from, r.from) < Merged(auths[r.auth].until, r.until)

(* of the domains its target has had, *)
Homely(r) ==
    /\ r.op \in {"create_scope", "fetch"} => r.site \in had[r.target]
    /\ r.op \in {"update_scope", "delete_scope"} => scopes[r.scope].state # "unborn"
    /\ r.op = "update_scope" => r.site \in had[scopes[r.scope].target] \cup {Keep}
    /\ r.op = "enqueue" => r.origins \subseteq had[r.target]

(* of the challenge it is about to consume. *)
Proving(r) ==
    /\ r.op \in {"fetch", "select", "consume"} => challenges[r.challenge].state # "unborn"
    /\ r.op \in {"select", "consume"} => proofs[r.target] # {}
    /\ r.op = "consume" => challenges[r.challenge].target = r.target

Consuming(k) == {c \in Clients : client[c].op = "consume" /\ client[c].challenge = k}

-----------------------------------------------------------------------------
(* The invariants. *)

ShapeInv == \A c \in Clients : Shaped(client[c])

UsesInv ==
    \A k \in Challenges :
        /\ uses[k] + Cardinality(Consuming(k)) <= Cardinality(Clients)
        /\ challenges[k].state \in {"unborn", "live"} => uses[k] = 0

WindowInv == WindowsOrdered /\ \A c \in Clients : Windowed(client[c])

HomeInv ==
    /\ SnapshotsStayHome
    /\ \A i \in Scopes : scopes[i].state # "unborn" => scopes[i].site \in had[scopes[i].target]
    /\ \A c \in Clients : Homely(client[c])

ProofInv == VerifiedByProof /\ \A c \in Clients : Proving(client[c])

-----------------------------------------------------------------------------
(* Requests. *)

LEMMA AnyTarget == AnyOf(Targets) \in Targets /\ AnyOf(Sites) \in Sites
  BY SetupAssumption DEF AnyOf

LEMMA NoRequestShape ==
  /\ NoRequest \in Request
  /\ NoRequest.op = "none" /\ Shaped(NoRequest) /\ Windowed(NoRequest) /\ Homely(NoRequest)
  /\ Proving(NoRequest)
<1>1. NoRequest \in Request /\ NoRequest.op = "none"
  BY AnyTarget DEF NoRequest, Request
<1>. QED BY <1>1 DEF Shaped, Windowed, Homely, Proving

LEMMA AsksShape ==
  ASSUME client \in [Clients -> Request], NEW c \in Clients, NEW r \in Request, Asks(c, r)
  PROVE  /\ client' \in [Clients -> Request]
         /\ client'[c] = r /\ client[c].op = "none"
         /\ \A d \in Clients \ {c} : client'[d] = client[d]
         /\ UNCHANGED rows
BY DEF Asks

LEMMA CommitsShape ==
  ASSUME client \in [Clients -> Request], NEW c \in Clients, client' = [client EXCEPT ![c] = NoRequest]
  PROVE  /\ client' \in [Clients -> Request]
         /\ client'[c] = NoRequest
         /\ \A d \in Clients \ {c} : client'[d] = client[d]
BY NoRequestShape

(* A window that is written as asked, or as it was where nothing is asked. *)
LEMMA WrittenMerges ==
  ASSUME NEW loaded \in Times, NEW given \in Times \cup {NoTime}
  PROVE  /\ Written(loaded, given) \in Times \cup {NoTime}
         /\ Merged(loaded, given) \in Times
         /\ Merged(loaded, Written(loaded, given)) = Merged(loaded, given)
         /\ Sqlite => Written(loaded, given) = Merged(loaded, given) /\ Written(loaded, given) # NoTime
BY DEF Written, Merged, Times, NoTime

(* What a handler has checked when it lets its request commit. *)
LEMMA CheckShape ==
  ASSUME TypeOK, HomeInv, NEW c \in Clients, Check(c)
  PROVE  \E r \in Request : /\ Asks(c, r) /\ Shaped(r) /\ Windowed(r) /\ Homely(r) /\ Proving(r)
                            /\ r.op \notin {"none", "select", "consume"}
<1>. DEFINE Goal == \E r \in Request : /\ Asks(c, r) /\ Shaped(r) /\ Windowed(r) /\ Homely(r) /\ Proving(r)
                                       /\ r.op \notin {"none", "select", "consume"}
<1>. SUFFICES Goal OBVIOUS
<1>0. \A t \in Targets : site[t] \in Sites /\ site[t] \in had[t]
  BY DEF TypeOK
<1>a. \A i \in Scopes : scopes[i] \in Scope
  BY DEF TypeOK
<1>b. \A a \in Auths : auths[a] \in Auth
  BY DEF TypeOK
<1>1. ASSUME NEW t \in Targets, NEW s \in Sites, CheckUpdateTarget(c, t, s) PROVE Goal
  <2>1. PICK r : r = [NoRequest EXCEPT !.op = "update_target", !.target = t, !.site = s]
    OBVIOUS
  <2>2. r \in Request /\ r.op = "update_target" /\ r.site = s
    BY <2>1, AnyTarget DEF NoRequest, Request, Ops
  <2>3. Asks(c, r)
    BY <1>1, <2>1 DEF CheckUpdateTarget
  <2>. QED BY <2>2, <2>3 DEF Shaped, Windowed, Homely, Proving
<1>2. ASSUME NEW t \in Targets, NEW s \in Sites, NEW ex \in {"yes", "no"}, CheckCreateScope(c, t, s, ex)
      PROVE  Goal
  <2>1. PICK r : r = [NoRequest EXCEPT !.op = "create_scope", !.target = t, !.site = s, !.excluded = ex]
    OBVIOUS
  <2>2. r \in Request /\ r.op = "create_scope" /\ r.site = s /\ r.target = t /\ r.excluded = ex
    BY <2>1, AnyTarget DEF NoRequest, Request, Ops
  <2>3. Asks(c, r) /\ s \in had[t]
    BY <1>0, <1>2, <2>1 DEF CheckCreateScope
  <2>. QED BY <2>2, <2>3 DEF Shaped, Windowed, Homely, Proving
<1>3. ASSUME NEW i \in Scopes, NEW s \in Sites \cup {Keep}, NEW ex \in {"yes", "no", Keep},
             CheckUpdateScope(c, i, s, ex)
      PROVE  Goal
  <2>1. PICK r : r = [NoRequest EXCEPT !.op = "update_scope", !.scope = i,
                                       !.site = IF s = scopes[i].site THEN Keep ELSE s,
                                       !.excluded = IF ex = scopes[i].excluded THEN Keep ELSE ex]
    OBVIOUS
  <2>2. r \in Request /\ r.op = "update_scope" /\ r.scope = i /\ r.site \in {s, Keep}
    BY <2>1, AnyTarget DEF NoRequest, Request, Ops
  <2>3. Asks(c, r)
    BY <1>3, <2>1 DEF CheckUpdateScope
  <2>4. scopes[i].state = "present" /\ s \in {Keep, site[scopes[i].target]} /\ scopes[i].target \in Targets
    BY <1>3, <1>a DEF CheckUpdateScope, Present, Scope
  <2>. QED BY <1>0, <2>2, <2>3, <2>4 DEF Shaped, Windowed, Homely, Proving
<1>4. ASSUME NEW i \in Scopes, CheckDeleteScope(c, i) PROVE Goal
  <2>1. PICK r : r = [NoRequest EXCEPT !.op = "delete_scope", !.scope = i]
    OBVIOUS
  <2>2. r \in Request /\ r.op = "delete_scope" /\ r.scope = i
    BY <2>1, AnyTarget DEF NoRequest, Request, Ops
  <2>3. Asks(c, r) /\ scopes[i].state = "present"
    BY <1>4, <2>1 DEF CheckDeleteScope, Present
  <2>. QED BY <2>2, <2>3 DEF Shaped, Windowed, Homely, Proving
<1>5. ASSUME NEW t \in Targets, NEW f \in Times, NEW u \in Times, CheckCreateAuth(c, t, f, u) PROVE Goal
  <2>1. PICK r : r = [NoRequest EXCEPT !.op = "create_auth", !.target = t, !.from = f, !.until = u]
    OBVIOUS
  <2>2. r \in Request /\ r.op = "create_auth" /\ r.from = f /\ r.until = u
    BY <2>1, AnyTarget DEF NoRequest, Request, Ops
  <2>3. Asks(c, r) /\ f < u
    BY <1>5, <2>1 DEF CheckCreateAuth
  <2>. QED BY <2>2, <2>3 DEF Shaped, Windowed, Homely, Proving
<1>6. ASSUME NEW a \in Auths, NEW f \in Times \cup {NoTime}, NEW u \in Times \cup {NoTime},
             CheckUpdateAuth(c, a, f, u)
      PROVE  Goal
  <2>0. auths[a].from \in Times /\ auths[a].until \in Times
    BY <1>b DEF Auth
  <2>1. PICK r : r = [NoRequest EXCEPT !.op = "update_auth", !.auth = a,
                                       !.from = Written(auths[a].from, f),
                                       !.until = Written(auths[a].until, u)]
    OBVIOUS
  <2>. DEFINE nf == Written(auths[a].from, f)
              nu == Written(auths[a].until, u)
  <2>2. nf \in Times \cup {NoTime} /\ nu \in Times \cup {NoTime}
    BY <2>0, WrittenMerges
  <2>3. r = [NoRequest EXCEPT !.op = "update_auth", !.auth = a, !.from = nf, !.until = nu]
    BY <2>1
  <2>4. /\ nf # NoTime \/ ~Sqlite
        /\ nu # NoTime \/ ~Sqlite
        /\ Sqlite => nf < nu
        /\ Merged(auths[a].from, nf) < Merged(auths[a].until, nu)
    BY <1>6, <2>0, WrittenMerges DEF CheckUpdateAuth
  <2>. HIDE DEF nf, nu
  <2>5. r \in Request /\ r.op = "update_auth" /\ r.auth = a /\ r.from = nf /\ r.until = nu
    BY <2>2, <2>3, AnyTarget DEF NoRequest, Request, Ops
  <2>6. Asks(c, r)
    BY <1>6, <2>1 DEF CheckUpdateAuth
  <2>7. Windowed(r)
    BY <2>4, <2>5 DEF Windowed
  <2>. QED BY <2>5, <2>6, <2>7 DEF Shaped, Homely, Proving
<1>7. ASSUME NEW a \in Auths, CheckDeleteAuth(c, a) PROVE Goal
  <2>1. PICK r : r = [NoRequest EXCEPT !.op = "delete_auth", !.auth = a]
    OBVIOUS
  <2>2. r \in Request /\ r.op = "delete_auth" /\ r.auth = a
    BY <2>1, AnyTarget DEF NoRequest, Request, Ops
  <2>3. Asks(c, r)
    BY <1>7, <2>1 DEF CheckDeleteAuth
  <2>. QED BY <2>2, <2>3 DEF Shaped, Windowed, Homely, Proving
<1>8. ASSUME NEW t \in Targets, NEW k \in Challenges, Verify(c, t, k) PROVE Goal
  <2>1. PICK r : r = [NoRequest EXCEPT !.op = "fetch", !.target = t, !.site = site[t], !.challenge = k]
    OBVIOUS
  <2>2. /\ r \in Request /\ r.op = "fetch" /\ r.site \in Sites /\ r.challenge = k
        /\ r.site \in had[r.target]
    BY <1>0, <2>1, AnyTarget DEF NoRequest, Request, Ops
  <2>3. Asks(c, r) /\ challenges[k].state # "unborn"
    BY <1>8, <2>1 DEF Verify
  <2>. QED BY <2>2, <2>3 DEF Shaped, Windowed, Homely, Proving
<1>9. ASSUME NEW t \in Targets, CheckEnqueue(c, t) PROVE Goal
  <2>. DEFINE o == {site[t]} \cup {scopes[i].site : i \in {h \in ScopesOf(t) : scopes[h].excluded = "no"}}
  <2>0. o \subseteq Sites /\ o \subseteq had[t]
    BY <1>0, <1>a DEF ScopesOf, Scope, HomeInv
  <2>1. Asks(c, [NoRequest EXCEPT !.op = "enqueue", !.target = t, !.site = site[t], !.origins = o])
    BY <1>9 DEF CheckEnqueue
  <2>. HIDE DEF o
  <2>2. PICK r : r = [NoRequest EXCEPT !.op = "enqueue", !.target = t, !.site = site[t], !.origins = o]
    OBVIOUS
  <2>3. r \in Request /\ r.op = "enqueue" /\ r.target = t /\ r.site \in Sites /\ r.origins = o
    BY <1>0, <2>0, <2>2, AnyTarget DEF NoRequest, Request, Ops
  <2>. QED BY <2>0, <2>1, <2>2, <2>3 DEF Shaped, Windowed, Homely, Proving
<1>. HIDE DEF Goal
<1>. QED BY <1>1, <1>2, <1>3, <1>4, <1>5, <1>6, <1>7, <1>8, <1>9 DEF Check

LEMMA OpShape ==
  ASSUME client \in [Clients -> Request], NEW c \in Clients, NEW op \in Ops,
         client' = [client EXCEPT ![c].op = op]
  PROVE  /\ client' \in [Clients -> Request]
         /\ client'[c].op = op /\ client'[c].challenge = client[c].challenge
         /\ client'[c].target = client[c].target
         /\ \A d \in Clients \ {c} : client'[d] = client[d]
<1>1. PICK r : r = [client[c] EXCEPT !.op = op]
  OBVIOUS
<1>2. r \in Request /\ r.op = op /\ r.challenge = client[c].challenge /\ r.target = client[c].target
  BY <1>1 DEF Request
<1>3. client' = [client EXCEPT ![c] = r]
  BY <1>1
<1>. QED BY <1>2, <1>3

(* Every step lets one client at most go on, and by one of these. *)
LEMMA ClientSteps ==
  ASSUME TypeOK, HomeInv, [Next]_vars
  PROVE  /\ client' \in [Clients -> Request]
         /\ \/ client' = client
            \/ \E c \in Clients :
                  /\ \A d \in Clients \ {c} : client'[d] = client[d]
                  /\ \/ client'[c] = NoRequest
                     \/ /\ UNCHANGED rows
                        /\ client'[c] \in Request /\ client'[c].op \notin {"none", "select", "consume"}
                        /\ Shaped(client'[c]) /\ Windowed(client'[c]) /\ Homely(client'[c])
                        /\ Proving(client'[c])
                     \/ /\ ProofSeen(c) \/ Select(c)
                        /\ client'[c].op \in {"select", "consume"}
                        /\ client'[c].op = "consume" <=> Select(c)
                        /\ client'[c].challenge = client[c].challenge
                        /\ client'[c].target = client[c].target
<1>. DEFINE Goes(c) ==
                  /\ \A d \in Clients \ {c} : client'[d] = client[d]
                  /\ \/ client'[c] = NoRequest
                     \/ /\ UNCHANGED rows
                        /\ client'[c] \in Request /\ client'[c].op \notin {"none", "select", "consume"}
                        /\ Shaped(client'[c]) /\ Windowed(client'[c]) /\ Homely(client'[c])
                        /\ Proving(client'[c])
                     \/ /\ ProofSeen(c) \/ Select(c)
                        /\ client'[c].op \in {"select", "consume"}
                        /\ client'[c].op = "consume" <=> Select(c)
                        /\ client'[c].challenge = client[c].challenge
                        /\ client'[c].target = client[c].target
            Goal == client' \in [Clients -> Request] /\ (client' = client \/ \E c \in Clients : Goes(c))
<1>. SUFFICES Goal OBVIOUS
<1>0. client \in [Clients -> Request]
  BY DEF TypeOK
<1>1. ASSUME NEW c \in Clients, Check(c) PROVE Goal
  <2>1. PICK r \in Request : /\ Asks(c, r) /\ Shaped(r) /\ Windowed(r) /\ Homely(r) /\ Proving(r)
                             /\ r.op \notin {"none", "select", "consume"}
    BY <1>1, CheckShape
  <2>2. /\ client' \in [Clients -> Request] /\ client'[c] = r
        /\ \A d \in Clients \ {c} : client'[d] = client[d]
        /\ UNCHANGED rows
    BY <1>0, <2>1, AsksShape
  <2>3. Goes(c)
    BY <2>1, <2>2
  <2>. HIDE DEF Goes
  <2>. QED BY <2>2, <2>3
<1>2. ASSUME NEW c \in Clients, client' = [client EXCEPT ![c] = NoRequest] PROVE Goal
  <2>1. Goes(c) /\ client' \in [Clients -> Request]
    BY <1>0, <1>2, CommitsShape
  <2>. HIDE DEF Goes
  <2>. QED BY <2>1
<1>3. ASSUME NEW c \in Clients, ProofSeen(c) \/ Select(c) PROVE Goal
  <2>1. PICK op \in {"select", "consume"} :
           client' = [client EXCEPT ![c].op = op] /\ (op = "consume" => Select(c)) /\ (op = "select" => ProofSeen(c))
    BY <1>3 DEF ProofSeen, Select
  <2>2. ProofSeen(c) => ~Select(c)
    BY DEF ProofSeen, Select
  <2>3. op \in Ops
    BY DEF Ops
  <2>4. Goes(c) /\ client' \in [Clients -> Request]
    BY <1>0, <1>3, <2>1, <2>2, <2>3, OpShape
  <2>. HIDE DEF Goes
  <2>. QED BY <2>4
<1>4. ASSUME NEW c \in Clients, Commit(c) \/ Rollback(c) PROVE Goal
  <2>1. \/ client' = [client EXCEPT ![c] = NoRequest]
        \/ ProofSeen(c) \/ Select(c)
    BY <1>4 DEF Commit, Rollback, Commits, UpdateTarget, UpdateScope, DeleteScope, UpdateAuth,
                DeleteAuth, Consume, CreateScope, CreateAuth, Enqueue
  <2>. HIDE DEF Goal
  <2>. QED BY <1>2, <1>3, <2>1
<1>5. CASE client' = client
  BY <1>0, <1>5
<1>. HIDE DEF Goal
<1>. QED BY <1>1, <1>4, <1>5 DEF Next, ExpireChallenge, CreateChallenge, JobEnds, vars

LEMMA ShapeStep == TypeOK /\ HomeInv /\ ShapeInv /\ [Next]_vars => ShapeInv'
<1>. SUFFICES ASSUME TypeOK, HomeInv, ShapeInv, [Next]_vars PROVE ShapeInv'
  OBVIOUS
<1>2. ASSUME NEW d \in Clients PROVE Shaped(client'[d])
  <2>1. CASE client'[d] = client[d]
    BY <2>1 DEF ShapeInv
  <2>2. CASE client'[d] # client[d]
    <3>1. \/ client'[d] = NoRequest
          \/ Shaped(client'[d])
          \/ /\ ProofSeen(d) \/ Select(d)
             /\ client'[d].op \in {"select", "consume"}
             /\ client'[d].challenge = client[d].challenge
      BY <2>2, ClientSteps
    <3>2. ASSUME ProofSeen(d) \/ Select(d), client'[d].op \in {"select", "consume"},
                 client'[d].challenge = client[d].challenge
          PROVE  Shaped(client'[d])
      <4>1. client[d].challenge \in Challenges
        BY <3>2 DEF ProofSeen, Select, ShapeInv, Shaped
      <4>. QED BY <3>2, <4>1 DEF Shaped
    <3>. QED BY <3>1, <3>2, NoRequestShape
  <2>. QED BY <2>1, <2>2
<1>. QED BY <1>2 DEF ShapeInv, Shaped

-----------------------------------------------------------------------------
(* Rows. *)

LEMMA UpdateScopeShape ==
  ASSUME TypeOK, ShapeInv, NEW c \in Clients, UpdateScope(c)
  PROVE  /\ client[c].op = "update_scope" /\ client[c].scope \in Scopes
         /\ scopes' \in [Scopes -> Scope]
         /\ scopes[client[c].scope].state = "present" /\ scopes'[client[c].scope].state = "present"
         /\ scopes'[client[c].scope].target = scopes[client[c].scope].target
         /\ \/ scopes'[client[c].scope].site = scopes[client[c].scope].site
            \/ client[c].site # Keep /\ scopes'[client[c].scope].site = client[c].site
         /\ \A i \in Scopes \ {client[c].scope} : scopes'[i] = scopes[i]
<1>0. /\ client[c].op = "update_scope" /\ client[c].scope \in Scopes /\ client[c] \in Request
      /\ scopes[client[c].scope].state = "present" /\ scopes \in [Scopes -> Scope]
  BY DEF UpdateScope, Commits, ShapeInv, Shaped, Present, TypeOK
<1>1. PICK i \in Scopes : i = client[c].scope
  BY <1>0
<1>2. PICK s \in Sites : s = IF client[c].site = Keep THEN scopes[i].site ELSE client[c].site
  BY <1>0, <1>1 DEF Request, Scope
<1>3. PICK ex \in {"yes", "no"} :
         ex = IF client[c].excluded = Keep THEN scopes[i].excluded ELSE client[c].excluded
  BY <1>0, <1>1 DEF Request, Scope
<1>4. PICK row : row = [scopes[i] EXCEPT !.site = s, !.excluded = ex]
  OBVIOUS
<1>5. row \in Scope /\ row.state = scopes[i].state /\ row.target = scopes[i].target /\ row.site = s
  BY <1>0, <1>4 DEF Scope
<1>6. scopes' = [scopes EXCEPT ![i].site = s, ![i].excluded = ex]
  BY <1>0, <1>1, <1>2, <1>3 DEF UpdateScope, Scope
<1>7. scopes' = [scopes EXCEPT ![i] = row]
  BY <1>0, <1>4, <1>6 DEF Scope
<1>. QED BY <1>0, <1>1, <1>2, <1>5, <1>7

LEMMA DeleteScopeShape ==
  ASSUME TypeOK, ShapeInv, NEW c \in Clients, DeleteScope(c)
  PROVE  /\ client[c].op = "delete_scope" /\ client[c].scope \in Scopes
         /\ scopes' \in [Scopes -> Scope]
         /\ scopes'[client[c].scope].state = "deleted"
         /\ scopes'[client[c].scope].target = scopes[client[c].scope].target
         /\ scopes'[client[c].scope].site = scopes[client[c].scope].site
         /\ \A i \in Scopes \ {client[c].scope} : scopes'[i] = scopes[i]
<1>0. client[c].op = "delete_scope" /\ client[c].scope \in Scopes /\ scopes \in [Scopes -> Scope]
  BY DEF DeleteScope, Commits, ShapeInv, Shaped, TypeOK
<1>1. PICK row : row = [scopes[client[c].scope] EXCEPT !.state = "deleted"]
  OBVIOUS
<1>2. /\ row \in Scope /\ row.state = "deleted" /\ row.target = scopes[client[c].scope].target
      /\ row.site = scopes[client[c].scope].site
  BY <1>0, <1>1 DEF Scope
<1>3. scopes' = [scopes EXCEPT ![client[c].scope] = row]
  BY <1>1 DEF DeleteScope
<1>. QED BY <1>0, <1>2, <1>3

LEMMA CreateScopeShape ==
  ASSUME TypeOK, ShapeInv, NEW c \in Clients, NEW i \in Scopes, CreateScope(c, i)
  PROVE  /\ client[c].op = "create_scope" /\ scopes' \in [Scopes -> Scope]
         /\ scopes'[i].target = client[c].target /\ scopes'[i].site = client[c].site
         /\ scopes'[i].state = "present" /\ scopes[i].state = "unborn"
         /\ \A h \in Scopes \ {i} : scopes'[h] = scopes[h]
<1>1. client[c].op = "create_scope" /\ client[c] \in Request /\ Shaped(client[c])
  BY DEF CreateScope, Commits, ShapeInv, TypeOK
<1>2. PICK row : row = [state |-> "present", target |-> client[c].target,
                        site |-> client[c].site, excluded |-> client[c].excluded]
  OBVIOUS
<1>3. row \in Scope /\ row.state = "present" /\ row.target = client[c].target /\ row.site = client[c].site
  BY <1>1, <1>2 DEF Scope, Request, Shaped
<1>4. scopes' = [scopes EXCEPT ![i] = row] /\ scopes[i].state = "unborn"
  BY <1>2 DEF CreateScope
<1>. QED BY <1>1, <1>3, <1>4 DEF TypeOK

LEMMA UpdateAuthShape ==
  ASSUME TypeOK, ShapeInv, NEW c \in Clients, UpdateAuth(c)
  PROVE  /\ client[c].op = "update_auth" /\ client[c].auth \in Auths
         /\ auths' \in [Auths -> Auth]
         /\ auths[client[c].auth].state = "present"
         /\ auths'[client[c].auth].from = Merged(auths[client[c].auth].from, client[c].from)
         /\ auths'[client[c].auth].until = Merged(auths[client[c].auth].until, client[c].until)
         /\ \A a \in Auths \ {client[c].auth} : auths'[a] = auths[a]
<1>0. /\ client[c].op = "update_auth" /\ client[c].auth \in Auths /\ client[c] \in Request
      /\ auths[client[c].auth].state = "present" /\ auths \in [Auths -> Auth]
  BY DEF UpdateAuth, Commits, ShapeInv, Shaped, Present, TypeOK
<1>1. PICK a \in Auths : a = client[c].auth
  BY <1>0
<1>2. /\ Merged(auths[a].from, client[c].from) \in Times
      /\ Merged(auths[a].until, client[c].until) \in Times
  BY <1>0, <1>1 DEF Request, Auth, Merged
<1>3. PICK f \in Times, u \in Times : /\ f = Merged(auths[a].from, client[c].from)
                                      /\ u = Merged(auths[a].until, client[c].until)
  BY <1>2
<1>4. PICK row : row = [auths[a] EXCEPT !.from = f, !.until = u]
  OBVIOUS
<1>5. row \in Auth /\ row.from = f /\ row.until = u
  BY <1>0, <1>4 DEF Auth
<1>6. auths' = [auths EXCEPT ![a].from = f, ![a].until = u]
  BY <1>0, <1>1, <1>3 DEF UpdateAuth, Auth
<1>7. auths' = [auths EXCEPT ![a] = row]
  BY <1>0, <1>4, <1>6 DEF Auth
<1>. QED BY <1>0, <1>1, <1>3, <1>5, <1>7

LEMMA DeleteAuthShape ==
  ASSUME TypeOK, ShapeInv, NEW c \in Clients, DeleteAuth(c)
  PROVE  /\ client[c].auth \in Auths /\ auths' \in [Auths -> Auth]
         /\ auths'[client[c].auth].state = "deleted"
         /\ \A a \in Auths \ {client[c].auth} : auths'[a] = auths[a]
<1>0. client[c].auth \in Auths /\ auths \in [Auths -> Auth]
  BY DEF DeleteAuth, Commits, ShapeInv, Shaped, TypeOK
<1>1. PICK row : row = [auths[client[c].auth] EXCEPT !.state = "deleted"]
  OBVIOUS
<1>2. row \in Auth /\ row.state = "deleted"
  BY <1>0, <1>1 DEF Auth
<1>3. auths' = [auths EXCEPT ![client[c].auth] = row]
  BY <1>1 DEF DeleteAuth
<1>. QED BY <1>0, <1>2, <1>3

LEMMA CreateAuthShape ==
  ASSUME TypeOK, ShapeInv, NEW c \in Clients, NEW a \in Auths, CreateAuth(c, a)
  PROVE  /\ client[c].op = "create_auth" /\ auths' \in [Auths -> Auth]
         /\ auths'[a].from = client[c].from /\ auths'[a].until = client[c].until
         /\ auths[a].state = "unborn"
         /\ \A b \in Auths \ {a} : auths'[b] = auths[b]
<1>1. client[c].op = "create_auth" /\ client[c] \in Request /\ Shaped(client[c])
  BY DEF CreateAuth, Commits, ShapeInv, TypeOK
<1>2. PICK row : row = [state |-> "present", target |-> client[c].target,
                        from |-> client[c].from, until |-> client[c].until]
  OBVIOUS
<1>3. row \in Auth /\ row.from = client[c].from /\ row.until = client[c].until
  BY <1>1, <1>2 DEF Auth, Request, Shaped
<1>4. auths' = [auths EXCEPT ![a] = row] /\ auths[a].state = "unborn"
  BY <1>2 DEF CreateAuth
<1>. QED BY <1>1, <1>3, <1>4 DEF TypeOK

LEMMA ChallengeShape ==
  ASSUME TypeOK, NEW k \in Challenges, NEW state \in {"expired", "consumed"},
         challenges' = [challenges EXCEPT ![k].state = state]
  PROVE  /\ challenges' \in [Challenges -> Challenge]
         /\ challenges'[k].state = state /\ challenges'[k].target = challenges[k].target
         /\ \A h \in Challenges \ {k} : challenges'[h] = challenges[h]
<1>1. PICK row : row = [challenges[k] EXCEPT !.state = state]
  OBVIOUS
<1>2. row \in Challenge /\ row.state = state /\ row.target = challenges[k].target
  BY <1>1 DEF Challenge, TypeOK
<1>3. challenges' = [challenges EXCEPT ![k] = row]
  BY <1>1
<1>. QED BY <1>2, <1>3 DEF TypeOK

LEMMA CreateChallengeShape ==
  ASSUME TypeOK, NEW t \in Targets, NEW k \in Challenges, CreateChallenge(t, k)
  PROVE  /\ challenges' \in [Challenges -> Challenge]
         /\ challenges[k].state = "unborn" /\ challenges'[k].state = "live"
         /\ \A h \in Challenges \ {k} : challenges'[h] = challenges[h]
BY DEF TypeOK, CreateChallenge, Challenge

(* Consuming: the challenge, the target and the counter change together. *)
LEMMA ConsumeShape ==
  ASSUME TypeOK, ShapeInv, NEW c \in Clients, Consume(c)
  PROVE  /\ client[c].op = "consume" /\ client[c].challenge \in Challenges
         /\ client[c].target \in Targets
         /\ challenges' \in [Challenges -> Challenge]
         /\ challenges'[client[c].challenge].state = "consumed"
         /\ challenges'[client[c].challenge].target = challenges[client[c].challenge].target
         /\ \A h \in Challenges \ {client[c].challenge} : challenges'[h] = challenges[h]
         /\ verified' = verified \cup {client[c].target} /\ proofs' = proofs
<1>1. client[c].op = "consume" /\ client[c].challenge \in Challenges /\ client[c].target \in Targets
  BY DEF Consume, Commits, ShapeInv, Shaped, TypeOK, Request
<1>2. challenges' = [challenges EXCEPT ![client[c].challenge].state = "consumed"]
  BY DEF Consume
<1>. QED BY <1>1, <1>2, ChallengeShape DEF Consume

LEMMA EnqueueShape ==
  ASSUME TypeOK, ShapeInv, NEW c \in Clients, NEW j \in Jobs, Enqueue(c, j)
  PROVE  /\ client[c].op = "enqueue" /\ jobs' \in [Jobs -> Job]
         /\ jobs'[j].target = client[c].target /\ jobs'[j].origins = client[c].origins
         /\ \A h \in Jobs \ {j} : jobs'[h] = jobs[h]
<1>1. client[c].op = "enqueue" /\ client[c] \in Request /\ Shaped(client[c])
  BY DEF Enqueue, Commits, ShapeInv, TypeOK
<1>2. PICK row : row = [state |-> "active", target |-> client[c].target,
                        base |-> client[c].site, origins |-> client[c].origins]
  OBVIOUS
<1>3. row \in Job /\ row.target = client[c].target /\ row.origins = client[c].origins
  BY <1>1, <1>2 DEF Job, Request, Shaped
<1>4. jobs' = [jobs EXCEPT ![j] = row]
  BY <1>2 DEF Enqueue
<1>. QED BY <1>1, <1>3, <1>4 DEF TypeOK

LEMMA JobEndsShape ==
  ASSUME TypeOK, NEW j \in Jobs, JobEnds(j)
  PROVE  /\ jobs' \in [Jobs -> Job] /\ jobs[j].state # "unborn"
         /\ jobs'[j].target = jobs[j].target /\ jobs'[j].origins = jobs[j].origins
         /\ \A h \in Jobs \ {j} : jobs'[h] = jobs[h]
<1>1. PICK row : row = [jobs[j] EXCEPT !.state = "done"]
  OBVIOUS
<1>2. row \in Job /\ row.target = jobs[j].target /\ row.origins = jobs[j].origins
  BY <1>1 DEF Job, TypeOK
<1>3. jobs' = [jobs EXCEPT ![j] = row] /\ jobs[j].state = "active"
  BY <1>1 DEF JobEnds
<1>. QED BY <1>2, <1>3 DEF TypeOK

(* The domains a target has had and the proofs seen of it are never forgotten. *)
LEMMA HistoryGrows ==
  ASSUME TypeOK, HomeInv, ShapeInv, [Next]_vars
  PROVE  /\ site' \in [Targets -> Sites]
         /\ had' \in [Targets -> SUBSET Sites] /\ proofs' \in [Targets -> SUBSET Sites]
         /\ \A t \in Targets : /\ had[t] \subseteq had'[t] /\ proofs[t] \subseteq proofs'[t]
                               /\ site'[t] \in had'[t] /\ proofs'[t] \subseteq had'[t] \cap Owned
<1>. DEFINE Goal == /\ site' \in [Targets -> Sites]
                    /\ had' \in [Targets -> SUBSET Sites] /\ proofs' \in [Targets -> SUBSET Sites]
                    /\ \A t \in Targets : /\ had[t] \subseteq had'[t] /\ proofs[t] \subseteq proofs'[t]
                                          /\ site'[t] \in had'[t] /\ proofs'[t] \subseteq had'[t] \cap Owned
<1>. SUFFICES Goal OBVIOUS
<1>0. /\ site \in [Targets -> Sites]
      /\ had \in [Targets -> SUBSET Sites] /\ proofs \in [Targets -> SUBSET Sites]
      /\ \A t \in Targets : site[t] \in had[t] /\ proofs[t] \subseteq had[t] \cap Owned
      /\ \A c \in Clients : client[c] \in Request
  BY DEF TypeOK
<1>1. CASE UNCHANGED <<site, had, proofs>>
  BY <1>0, <1>1
<1>2. ASSUME NEW c \in Clients, UpdateTarget(c) PROVE Goal
  <2>1. /\ client[c].target \in Targets /\ client[c].site \in Sites
        /\ site' = [site EXCEPT ![client[c].target] = client[c].site]
        /\ had' = [had EXCEPT ![client[c].target] = @ \cup {client[c].site}]
        /\ proofs' = proofs
    BY <1>0, <1>2 DEF UpdateTarget, Commits, ShapeInv, Shaped, Request
  <2>. QED BY <1>0, <2>1
<1>3. ASSUME NEW c \in Clients, ProofSeen(c) PROVE Goal
  <2>1. /\ client[c].target \in Targets
        /\ client[c].site \in Sites \cap Owned /\ client[c].site \in had[client[c].target]
        /\ proofs' = [proofs EXCEPT ![client[c].target] = @ \cup {client[c].site}]
        /\ site' = site /\ had' = had
    BY <1>0, <1>3 DEF ProofSeen, ShapeInv, HomeInv, Homely, Shaped, Request
  <2>. QED BY <1>0, <2>1
<1>4. \/ UNCHANGED <<site, had, proofs>>
      \/ \E c \in Clients : UpdateTarget(c) \/ ProofSeen(c)
  <2>1. ASSUME NEW c \in Clients, Check(c) PROVE UNCHANGED <<site, had, proofs>>
    BY <2>1, CheckShape DEF Asks, rows
  <2>2. ASSUME NEW c \in Clients, Commit(c), ~UpdateTarget(c), ~ProofSeen(c)
        PROVE  UNCHANGED <<site, had, proofs>>
    BY <2>2 DEF Commit, UpdateScope, DeleteScope, UpdateAuth, DeleteAuth, Select, rows, Consume,
                CreateScope, CreateAuth, Enqueue
  <2>. QED BY <2>1, <2>2 DEF Next, Rollback, rows, ExpireChallenge, CreateChallenge, JobEnds, vars
<1>. HIDE DEF Goal
<1>. QED BY <1>1, <1>2, <1>3, <1>4

(* Which handlers write which rows. *)
LEMMA WhoWrites ==
  ASSUME TypeOK, HomeInv, [Next]_vars
  PROVE  /\ \/ scopes' = scopes
            \/ \E c \in Clients : UpdateScope(c) \/ DeleteScope(c) \/ \E i \in Scopes : CreateScope(c, i)
         /\ \/ auths' = auths
            \/ \E c \in Clients : UpdateAuth(c) \/ DeleteAuth(c) \/ \E a \in Auths : CreateAuth(c, a)
         /\ \/ UNCHANGED <<challenges, uses>>
            \/ \E c \in Clients : Consume(c)
            \/ \E k \in Challenges : ExpireChallenge(k) \/ \E t \in Targets : CreateChallenge(t, k)
         /\ \/ jobs' = jobs
            \/ \E c \in Clients, j \in Jobs : Enqueue(c, j)
            \/ \E j \in Jobs : JobEnds(j)
         /\ verified' = verified \/ \E c \in Clients : Consume(c)
<1>1. ASSUME NEW c \in Clients, Check(c) PROVE UNCHANGED rows
  BY <1>1, CheckShape DEF Asks
<1>2. ASSUME NEW c \in Clients, Commit(c)
      PROVE  /\ scopes' = scopes \/ UpdateScope(c) \/ DeleteScope(c) \/ \E i \in Scopes : CreateScope(c, i)
             /\ auths' = auths \/ UpdateAuth(c) \/ DeleteAuth(c) \/ \E a \in Auths : CreateAuth(c, a)
             /\ UNCHANGED <<challenges, uses, verified>> \/ Consume(c)
             /\ jobs' = jobs \/ \E j \in Jobs : Enqueue(c, j)
  BY <1>2 DEF Commit, UpdateTarget, UpdateScope, DeleteScope, UpdateAuth, DeleteAuth, ProofSeen,
              Select, rows, Consume, CreateScope, CreateAuth, Enqueue
<1>3. CASE UNCHANGED rows
  BY <1>3 DEF rows
<1>4. ASSUME NEW k \in Challenges, ExpireChallenge(k) \/ \E t \in Targets : CreateChallenge(t, k)
      PROVE  UNCHANGED <<scopes, auths, jobs, verified>>
  BY <1>4 DEF ExpireChallenge, CreateChallenge
<1>5. ASSUME NEW j \in Jobs, JobEnds(j) PROVE UNCHANGED <<scopes, auths, challenges, uses, verified>>
  BY <1>5 DEF JobEnds
<1>6. ASSUME NEW c \in Clients, Rollback(c) PROVE UNCHANGED rows
  BY <1>6 DEF Rollback
<1>7. UNCHANGED vars => UNCHANGED rows
  BY DEF vars, rows
<1>. QED BY <1>1, <1>2, <1>3, <1>4, <1>5, <1>6, <1>7 DEF Next

LEMMA ScopeSteps ==
  ASSUME TypeOK, HomeInv, ShapeInv, [Next]_vars
  PROVE  /\ scopes' \in [Scopes -> Scope]
         /\ \A i \in Scopes :
               /\ scopes[i].state # "unborn" =>
                     scopes'[i].state # "unborn" /\ scopes'[i].target = scopes[i].target
               /\ scopes'[i].state # "unborn" => scopes'[i].site \in had'[scopes'[i].target]
<1>0. /\ \A i \in Scopes : scopes[i].target \in Targets
      /\ \A c \in Clients : client[c].target \in Targets
      /\ \A i \in Scopes : scopes[i].state # "unborn" => scopes[i].site \in had[scopes[i].target]
      /\ \A c \in Clients : Homely(client[c])
  BY DEF TypeOK, Scope, Request, HomeInv
<1>1. \A t \in Targets : had[t] \subseteq had'[t]
  BY HistoryGrows
<1>2. CASE scopes' = scopes
  BY <1>0, <1>1, <1>2 DEF TypeOK
<1>3. ASSUME NEW c \in Clients, UpdateScope(c) PROVE had' = had
  BY <1>3 DEF UpdateScope
<1>4. ASSUME NEW c \in Clients, UpdateScope(c)
      PROVE  /\ scopes' \in [Scopes -> Scope]
             /\ \A i \in Scopes :
                   /\ scopes[i].state # "unborn" =>
                         scopes'[i].state # "unborn" /\ scopes'[i].target = scopes[i].target
                   /\ scopes'[i].state # "unborn" => scopes'[i].site \in had'[scopes'[i].target]
  BY <1>0, <1>3, <1>4, UpdateScopeShape DEF Homely
<1>5. ASSUME NEW c \in Clients, DeleteScope(c)
      PROVE  /\ scopes' \in [Scopes -> Scope]
             /\ \A i \in Scopes :
                   /\ scopes[i].state # "unborn" =>
                         scopes'[i].state # "unborn" /\ scopes'[i].target = scopes[i].target
                   /\ scopes'[i].state # "unborn" => scopes'[i].site \in had'[scopes'[i].target]
  BY <1>0, <1>1, <1>5, DeleteScopeShape DEF Homely
<1>6. ASSUME NEW c \in Clients, NEW i \in Scopes, CreateScope(c, i)
      PROVE  /\ scopes' \in [Scopes -> Scope]
             /\ \A h \in Scopes :
                   /\ scopes[h].state # "unborn" =>
                         scopes'[h].state # "unborn" /\ scopes'[h].target = scopes[h].target
                   /\ scopes'[h].state # "unborn" => scopes'[h].site \in had'[scopes'[h].target]
  BY <1>0, <1>1, <1>6, CreateScopeShape DEF Homely
<1>. QED BY <1>2, <1>4, <1>5, <1>6, WhoWrites

LEMMA HomeStep == TypeOK /\ ShapeInv /\ HomeInv /\ [Next]_vars => HomeInv'
<1>. SUFFICES ASSUME TypeOK, ShapeInv, HomeInv, [Next]_vars PROVE HomeInv'
  OBVIOUS
<1>0. /\ \A j \in Jobs : jobs[j].target \in Targets
      /\ \A c \in Clients : client[c].target \in Targets
      /\ \A i \in Scopes : scopes[i].target \in Targets
      /\ \A c \in Clients : Homely(client[c])
  BY DEF TypeOK, Job, Request, Scope, HomeInv
<1>1. \A t \in Targets : had[t] \subseteq had'[t]
  BY HistoryGrows
<1>2. SnapshotsStayHome'
  <2>1. CASE jobs' = jobs
    BY <1>0, <1>1, <2>1 DEF HomeInv, SnapshotsStayHome
  <2>2. ASSUME NEW c \in Clients, NEW j \in Jobs, Enqueue(c, j) PROVE SnapshotsStayHome'
    <3>1. had' = had /\ client[c].origins \subseteq had[client[c].target]
      BY <1>0, <2>2, EnqueueShape DEF Enqueue, Homely
    <3>. QED BY <1>0, <2>2, <3>1, EnqueueShape DEF HomeInv, SnapshotsStayHome
  <2>3. ASSUME NEW j \in Jobs, JobEnds(j) PROVE SnapshotsStayHome'
    <3>1. had' = had
      BY <2>3 DEF JobEnds
    <3>. QED BY <1>0, <2>3, <3>1, JobEndsShape DEF HomeInv, SnapshotsStayHome
  <2>. QED BY <2>1, <2>2, <2>3, WhoWrites
<1>3. ASSUME NEW d \in Clients PROVE Homely(client[d])'
  <2>1. CASE client'[d] = client[d]
    <3>1. client[d].op \in {"update_scope", "delete_scope"} => client[d].scope \in Scopes
      BY DEF ShapeInv, Shaped
    <3>. QED BY <1>0, <1>1, <2>1, <3>1, ScopeSteps DEF Homely
  <2>2. CASE client'[d] = NoRequest
    BY <2>2, NoRequestShape DEF Homely
  <2>3. CASE UNCHANGED rows /\ Homely(client'[d])
    BY <2>3 DEF Homely, rows
  <2>4. CASE client'[d].op \in {"select", "consume"}
    BY <2>4 DEF Homely
  <2>. QED BY <2>1, <2>2, <2>3, <2>4, ClientSteps
<1>. QED BY <1>2, <1>3, ScopeSteps DEF HomeInv

-----------------------------------------------------------------------------
(* Windows.  Two requests that move the two ends of one window may each be right and
   together wrong, unless each of them writes both. *)
OneRequest == \A c, d \in Clients : c = d

LEMMA WindowStep ==
  ASSUME Sqlite \/ OneRequest
  PROVE  TypeOK /\ ShapeInv /\ HomeInv /\ WindowInv /\ [Next]_vars => WindowInv'
<1>. SUFFICES ASSUME TypeOK, ShapeInv, HomeInv, WindowInv, [Next]_vars PROVE WindowInv'
  OBVIOUS
<1>0. /\ \A c \in Clients : Windowed(client[c])
      /\ WindowsOrdered /\ auths \in [Auths -> Auth]
      /\ \A c \in Clients : client[c] \in Request
  BY DEF WindowInv, TypeOK
<1>1. WindowsOrdered'
  <2>1. CASE auths' = auths
    BY <1>0, <2>1 DEF WindowsOrdered
  <2>2. ASSUME NEW c \in Clients, UpdateAuth(c) PROVE WindowsOrdered'
    <3>. DEFINE a == client[c].auth
    <3>1. auths'[a].from < auths'[a].until
      <4>1. CASE Sqlite
        BY <1>0, <2>2, <4>1, UpdateAuthShape DEF Windowed, Merged
      <4>2. CASE ~Sqlite
        BY <1>0, <2>2, <4>2, UpdateAuthShape DEF Windowed, Present
      <4>. QED BY <4>1, <4>2
    <3>. QED BY <1>0, <2>2, <3>1, UpdateAuthShape DEF WindowsOrdered, Present
  <2>3. ASSUME NEW c \in Clients, DeleteAuth(c) PROVE WindowsOrdered'
    BY <1>0, <2>3, DeleteAuthShape DEF WindowsOrdered, Present
  <2>4. ASSUME NEW c \in Clients, NEW a \in Auths, CreateAuth(c, a) PROVE WindowsOrdered'
    BY <1>0, <2>4, CreateAuthShape DEF WindowsOrdered, Present, Windowed
  <2>. QED BY <2>1, <2>2, <2>3, <2>4, WhoWrites
<1>2. ASSUME NEW d \in Clients PROVE Windowed(client[d])'
  <2>1. CASE client'[d] = client[d] /\ (Sqlite \/ auths' = auths)
    BY <1>0, <2>1 DEF Windowed, Present
  <2>2. CASE client'[d] = NoRequest
    BY <2>2, NoRequestShape DEF Windowed
  <2>3. CASE UNCHANGED rows /\ Windowed(client'[d])
    BY <2>3 DEF Windowed, rows, Present
  <2>4. CASE client'[d].op \in {"select", "consume"}
    BY <2>4 DEF Windowed
  <2>5. CASE client'[d] = client[d] /\ ~Sqlite /\ auths' # auths
    <3>1. PICK c \in Clients : UpdateAuth(c) \/ DeleteAuth(c) \/ \E a \in Auths : CreateAuth(c, a)
      BY <2>5, WhoWrites
    <3>2. client' = [client EXCEPT ![c] = NoRequest] /\ c = d
      BY <2>5, <3>1 DEF OneRequest, UpdateAuth, DeleteAuth, CreateAuth, Commits
    <3>3. client'[d] = NoRequest
      BY <3>2, CommitsShape DEF TypeOK
    <3>. QED BY <3>3, NoRequestShape DEF Windowed
  <2>. QED BY <2>1, <2>2, <2>3, <2>4, <2>5, ClientSteps
<1>. QED BY <1>1, <1>2 DEF WindowInv

-----------------------------------------------------------------------------
(* Challenges. *)

LEMMA ChallengeSteps ==
  ASSUME TypeOK, HomeInv, ShapeInv, [Next]_vars
  PROVE  /\ challenges' \in [Challenges -> Challenge]
         /\ \A k \in Challenges :
               /\ challenges[k].state # "unborn" =>
                     challenges'[k].state # "unborn" /\ challenges'[k].target = challenges[k].target
               /\ challenges[k].state = "consumed" => challenges'[k].state = "consumed"
<1>1. CASE challenges' = challenges
  BY <1>1 DEF TypeOK
<1>2. ASSUME NEW c \in Clients, Consume(c)
      PROVE  /\ challenges' \in [Challenges -> Challenge]
             /\ \A k \in Challenges :
                   /\ challenges[k].state # "unborn" =>
                         challenges'[k].state # "unborn" /\ challenges'[k].target = challenges[k].target
                   /\ challenges[k].state = "consumed" => challenges'[k].state = "consumed"
  BY <1>2, ConsumeShape
<1>3. ASSUME NEW k \in Challenges, ExpireChallenge(k)
      PROVE  /\ challenges' \in [Challenges -> Challenge]
             /\ \A h \in Challenges :
                   /\ challenges[h].state # "unborn" =>
                         challenges'[h].state # "unborn" /\ challenges'[h].target = challenges[h].target
                   /\ challenges[h].state = "consumed" => challenges'[h].state = "consumed"
  BY <1>3, ChallengeShape DEF ExpireChallenge
<1>4. ASSUME NEW t \in Targets, NEW k \in Challenges, CreateChallenge(t, k)
      PROVE  /\ challenges' \in [Challenges -> Challenge]
             /\ \A h \in Challenges :
                   /\ challenges[h].state # "unborn" =>
                         challenges'[h].state # "unborn" /\ challenges'[h].target = challenges[h].target
                   /\ challenges[h].state = "consumed" => challenges'[h].state = "consumed"
  BY <1>4, CreateChallengeShape
<1>. QED BY <1>1, <1>2, <1>3, <1>4, WhoWrites

LEMMA ProofStep == TypeOK /\ ShapeInv /\ HomeInv /\ ProofInv /\ [Next]_vars => ProofInv'
<1>. SUFFICES ASSUME TypeOK, ShapeInv, HomeInv, ProofInv, [Next]_vars PROVE ProofInv'
  OBVIOUS
<1>0. /\ verified \subseteq Targets
      /\ \A c \in Clients : client[c].target \in Targets
      /\ \A c \in Clients : Proving(client[c])
      /\ \A c \in Clients : client[c].op \in {"fetch", "select", "consume"} => client[c].challenge \in Challenges
  BY DEF TypeOK, Request, ProofInv, ShapeInv, Shaped
<1>1. \A t \in Targets : proofs[t] \subseteq proofs'[t] /\ had[t] \subseteq had'[t]
  BY HistoryGrows
<1>h. \A t \in Targets : proofs[t] \subseteq had[t]
  BY DEF TypeOK
<1>2. VerifiedByProof'
  <2>1. ASSUME NEW t \in verified
        PROVE  /\ proofs'[t] \cap had'[t] # {}
               /\ \E k \in Challenges : challenges'[k].state = "consumed" /\ challenges'[k].target = t
    <3>1. proofs[t] \cap had[t] # {} /\ t \in Targets
      BY <1>0, <2>1 DEF ProofInv, VerifiedByProof
    <3>2. proofs'[t] \cap had'[t] # {}
      BY <1>1, <3>1
    <3>3. PICK k \in Challenges : challenges[k].state = "consumed" /\ challenges[k].target = t
      BY <2>1 DEF ProofInv, VerifiedByProof
    <3>4. challenges'[k].state = "consumed" /\ challenges'[k].target = t
      BY <3>3, ChallengeSteps
    <3>. QED BY <3>2, <3>4
  <2>2. ASSUME NEW c \in Clients, Consume(c) PROVE VerifiedByProof'
    <3>1. verified' = verified \cup {client[c].target}
      BY <2>2 DEF Consume
    <3>2. /\ proofs'[client[c].target] \cap had'[client[c].target] # {}
          /\ challenges'[client[c].challenge].state = "consumed"
          /\ challenges'[client[c].challenge].target = client[c].target
          /\ client[c].challenge \in Challenges
      BY <1>0, <1>1, <1>h, <2>2, ConsumeShape DEF Proving
    <3>. QED BY <2>1, <3>1, <3>2 DEF VerifiedByProof
  <2>3. CASE verified' = verified
    BY <2>1, <2>3 DEF VerifiedByProof
  <2>. QED BY <2>2, <2>3, WhoWrites
<1>3. ASSUME NEW d \in Clients PROVE Proving(client[d])'
  <2>1. CASE client'[d] = client[d]
    BY <1>0, <1>1, <2>1, ChallengeSteps DEF Proving
  <2>2. CASE client'[d] = NoRequest
    BY <2>2, NoRequestShape DEF Proving
  <2>3. CASE UNCHANGED rows /\ Proving(client'[d])
    BY <2>3 DEF Proving, rows
  <2>4. ASSUME ProofSeen(d) \/ Select(d), client'[d].op \in {"select", "consume"},
               client'[d].op = "consume" <=> Select(d),
               client'[d].challenge = client[d].challenge, client'[d].target = client[d].target
        PROVE  Proving(client[d])'
    <3>1. challenges' = challenges /\ challenges[client[d].challenge].state # "unborn"
      BY <1>0, <2>4 DEF ProofSeen, Select, rows, Proving
    <3>2. CASE ProofSeen(d)
      <4>1. /\ client[d].op = "fetch" /\ proofs \in [Targets -> SUBSET Sites]
            /\ proofs' = [proofs EXCEPT ![client[d].target] = @ \cup {client[d].site}]
        BY <3>2 DEF ProofSeen, TypeOK
      <4>2. proofs'[client[d].target] # {} /\ client'[d].op = "select"
        BY <1>0, <2>4, <4>1 DEF Select
      <4>. QED BY <2>4, <3>1, <4>2 DEF Proving
    <3>3. CASE Select(d)
      BY <1>0, <2>4, <3>1, <3>3 DEF Proving, Select, rows
    <3>. QED BY <2>4, <3>2, <3>3
  <2>. QED BY <2>1, <2>2, <2>3, <2>4, ClientSteps
<1>. QED BY <1>2, <1>3 DEF ProofInv

LEMMA ConsumingFinite ==
  ASSUME NEW k
  PROVE  /\ IsFiniteSet(Consuming(k)) /\ Cardinality(Consuming(k)) \in Nat
         /\ Cardinality(Clients) \in Nat /\ Cardinality(Consuming(k)) <= Cardinality(Clients)
<1>1. Consuming(k) \in SUBSET Clients
  BY DEF Consuming
<1>. QED BY <1>1, SetupAssumption, FS_Subset, FS_CardinalityType

(* Only a live challenge gains a request that is about to consume it. *)
LEMMA UsesStep == TypeOK /\ ShapeInv /\ HomeInv /\ UsesInv /\ [Next]_vars => UsesInv'
<1>. SUFFICES ASSUME TypeOK, ShapeInv, HomeInv, UsesInv, [Next]_vars, NEW k \in Challenges
              PROVE  /\ uses'[k] + Cardinality(Consuming(k)') <= Cardinality(Clients)
                     /\ challenges'[k].state \in {"unborn", "live"} => uses'[k] = 0
  BY DEF UsesInv
<1>0. /\ uses[k] \in Nat /\ uses \in [Challenges -> 0 .. Cardinality(Clients)]
      /\ uses[k] + Cardinality(Consuming(k)) <= Cardinality(Clients)
      /\ challenges[k].state \in {"unborn", "live"} => uses[k] = 0
  BY ConsumingFinite DEF TypeOK, UsesInv
<1>1. Consuming(k)' = {c \in Clients : client'[c].op = "consume" /\ client'[c].challenge = k}
  BY DEF Consuming
<1>2. Consuming(k)' \in SUBSET Clients /\ Cardinality(Consuming(k)') \in Nat
      /\ Cardinality(Consuming(k)') <= Cardinality(Clients)
  <2>1. Consuming(k)' \in SUBSET Clients
    BY <1>1
  <2>. QED BY <2>1, SetupAssumption, FS_Subset, FS_CardinalityType
<1>3. ASSUME NEW c \in Clients, Consume(c), client[c].challenge = k
      PROVE  /\ uses'[k] + Cardinality(Consuming(k)') <= Cardinality(Clients)
             /\ challenges'[k].state \notin {"unborn", "live"}
  <2>1. c \in Consuming(k)
    BY <1>3, ConsumeShape DEF Consuming
  <2>2. client' = [client EXCEPT ![c] = NoRequest]
    BY <1>3 DEF Consume, Commits
  <2>3. client'[c] = NoRequest /\ \A d \in Clients \ {c} : client'[d] = client[d]
    BY <2>2, CommitsShape DEF TypeOK
  <2>4. Consuming(k)' = Consuming(k) \ {c}
    BY <1>1, <2>3, NoRequestShape DEF Consuming
  <2>5. Cardinality(Consuming(k)') = Cardinality(Consuming(k)) - 1
    BY <2>1, <2>4, ConsumingFinite, FS_RemoveElement
  <2>6. uses'[k] = uses[k] + 1
    BY <1>0, <1>3 DEF Consume
  <2>. QED BY <1>0, <1>2, <1>3, <2>5, <2>6, ConsumingFinite, ConsumeShape
<1>4. ASSUME NEW c \in Clients, Select(c), client[c].challenge = k
      PROVE  /\ uses'[k] + Cardinality(Consuming(k)') <= Cardinality(Clients)
             /\ challenges'[k].state \in {"unborn", "live"} => uses'[k] = 0
  <2>1. uses' = uses /\ challenges[k].state = "live"
    BY <1>4 DEF Select, rows
  <2>. QED BY <1>0, <1>2, <2>1
<1>5. ASSUME \A c \in Clients : ~(Consume(c) /\ client[c].challenge = k)
      PROVE  uses'[k] = uses[k] /\ (challenges'[k].state \in {"unborn", "live"} =>
                                    challenges[k].state \in {"unborn", "live"})
  <2>1. CASE UNCHANGED <<challenges, uses>>
    BY <2>1
  <2>2. ASSUME NEW c \in Clients, Consume(c) PROVE uses'[k] = uses[k] /\ challenges'[k] = challenges[k]
    <3>1. client[c].challenge \in Challenges \ {k}
      BY <1>5, <2>2, ConsumeShape
    <3>. QED BY <1>0, <2>2, <3>1, ConsumeShape DEF Consume
  <2>3. ASSUME NEW h \in Challenges, ExpireChallenge(h)
        PROVE  uses' = uses /\ (challenges'[k].state \in {"unborn", "live"} =>
                                challenges[k].state \in {"unborn", "live"})
    BY <2>3, ChallengeShape DEF ExpireChallenge
  <2>4. ASSUME NEW h \in Challenges, NEW t \in Targets, CreateChallenge(t, h)
        PROVE  uses' = uses /\ (challenges'[k].state \in {"unborn", "live"} =>
                                challenges[k].state \in {"unborn", "live"})
    <3>1. uses' = uses
      BY <2>4 DEF CreateChallenge
    <3>. QED BY <2>4, <3>1, CreateChallengeShape
  <2>. QED BY <2>1, <2>2, <2>3, <2>4, WhoWrites
<1>6. ASSUME \A c \in Clients : ~(Select(c) /\ client[c].challenge = k)
      PROVE  Cardinality(Consuming(k)') <= Cardinality(Consuming(k))
  <2>1. ASSUME NEW d \in Clients, client'[d].op = "consume", client'[d].challenge = k
        PROVE  client[d].op = "consume" /\ client[d].challenge = k
    <3>1. CASE client'[d] = client[d]
      BY <2>1, <3>1
    <3>2. CASE client'[d] # client[d]
      BY <1>6, <2>1, <3>2, ClientSteps, NoRequestShape
    <3>. QED BY <3>1, <3>2
  <2>2. Consuming(k)' \in SUBSET Consuming(k)
    BY <1>1, <2>1 DEF Consuming
  <2>. QED BY <2>2, ConsumingFinite, FS_Subset
<1>7. CASE \A c \in Clients : /\ ~(Consume(c) /\ client[c].challenge = k)
                              /\ ~(Select(c) /\ client[c].challenge = k)
  <2>1. uses'[k] = uses[k] /\ (challenges'[k].state \in {"unborn", "live"} =>
                               challenges[k].state \in {"unborn", "live"})
    BY <1>5, <1>7
  <2>2. Cardinality(Consuming(k)') <= Cardinality(Consuming(k))
    BY <1>6, <1>7
  <2>. QED BY <1>0, <1>2, <2>1, <2>2, ConsumingFinite
<1>. QED BY <1>3, <1>4, <1>7

-----------------------------------------------------------------------------
(* Types. *)

LEMMA TypeStep == TypeOK /\ ShapeInv /\ UsesInv /\ HomeInv /\ [Next]_vars => TypeOK'
<1>. SUFFICES ASSUME TypeOK, ShapeInv, UsesInv, HomeInv, [Next]_vars PROVE TypeOK'
  OBVIOUS
<1>1. verified' \subseteq Targets
  BY WhoWrites, ConsumeShape DEF TypeOK
<1>2. auths' \in [Auths -> Auth]
  BY WhoWrites, UpdateAuthShape, DeleteAuthShape, CreateAuthShape DEF TypeOK
<1>3. jobs' \in [Jobs -> Job]
  BY WhoWrites, EnqueueShape, JobEndsShape DEF TypeOK
<1>4. uses' \in [Challenges -> 0 .. Cardinality(Clients)]
  <2>1. uses' = uses \/ \E k \in Challenges : uses' = [uses EXCEPT ![k] = @ + 1]
    BY WhoWrites, ConsumeShape DEF Consume, ExpireChallenge, CreateChallenge
  <2>2. ASSUME NEW k \in Challenges, uses' = [uses EXCEPT ![k] = @ + 1]
        PROVE  uses' \in [Challenges -> 0 .. Cardinality(Clients)]
    <3>0. Cardinality(Clients) \in Nat
      BY SetupAssumption, FS_CardinalityType
    <3>1. uses[k] \in Nat /\ uses'[k] = uses[k] + 1
      BY <2>2, <3>0 DEF TypeOK
    <3>2. uses'[k] + Cardinality(Consuming(k)') <= Cardinality(Clients)
      BY UsesStep DEF UsesInv
    <3>3. Cardinality(Consuming(k)') \in Nat
      <4>1. Consuming(k)' \in SUBSET Clients
        BY DEF Consuming
      <4>. QED BY <4>1, SetupAssumption, FS_Subset, FS_CardinalityType
    <3>4. uses'[k] \in 0 .. Cardinality(Clients)
      BY <3>0, <3>1, <3>2, <3>3
    <3>. QED BY <2>2, <3>4 DEF TypeOK
  <2>. QED BY <2>1, <2>2 DEF TypeOK
<1>. QED BY <1>1, <1>2, <1>3, <1>4, ScopeSteps, ChallengeSteps, HistoryGrows, ClientSteps DEF TypeOK

Inv == TypeOK /\ ShapeInv /\ UsesInv /\ HomeInv /\ ProofInv

LEMMA InitInv == Init => Inv
<1>. SUFFICES ASSUME Init PROVE Inv
  OBVIOUS
<1>1. Cardinality(Clients) \in Nat
  BY SetupAssumption, FS_CardinalityType
<1>2. /\ \A c \in Clients : client[c] = NoRequest
      /\ client \in [Clients -> Request]
  BY NoRequestShape DEF Init
<1>3. TypeOK
  BY <1>1, <1>2, AnyTarget, SetupAssumption DEF Init, TypeOK, Scope, Auth, Challenge, Job, Times
<1>4. ShapeInv
  BY <1>2, NoRequestShape DEF ShapeInv
<1>5. UsesInv
  <2>1. ASSUME NEW k \in Challenges PROVE Consuming(k) = {}
    BY <1>2, NoRequestShape DEF Consuming
  <2>2. \A k \in Challenges : uses[k] = 0
    BY DEF Init
  <2>3. ASSUME NEW k \in Challenges PROVE Cardinality(Consuming(k)) = 0
    BY <2>1, FS_EmptySet
  <2>. QED BY <1>1, <2>2, <2>3 DEF UsesInv
<1>6. HomeInv
  BY <1>2, NoRequestShape DEF Init, HomeInv, SnapshotsStayHome
<1>7. ProofInv
  BY <1>2, NoRequestShape DEF Init, ProofInv, VerifiedByProof
<1>. QED BY <1>3, <1>4, <1>5, <1>6, <1>7 DEF Inv

LEMMA InvStep == Inv /\ [Next]_vars => Inv'
  BY TypeStep, ShapeStep, UsesStep, HomeStep, ProofStep DEF Inv

(* Rows and requests keep their types, a target's address and its proofs stay inside its
   history, and a challenge is consumed at most once by each concurrent request. *)
THEOREM TypeCorrect == Spec => []TypeOK
<1>1. Inv => TypeOK
  BY DEF Inv
<1>. QED BY <1>1, InitInv, InvStep, PTL DEF Spec

(* A scan is never allowed an origin outside the domains its target has had, however the
   scopes and the address change while its request is between check and commit
   (apps/api/main.py, enqueue_passive_scan, update_scope and update_target). *)
THEOREM SnapshotsStay == Spec => []SnapshotsStayHome
<1>1. Inv => SnapshotsStayHome
  BY DEF Inv, HomeInv
<1>. QED BY <1>1, InitInv, InvStep, PTL DEF Spec

(* A target that is verified was proved at a domain it has had, with a challenge made for
   it, although consume_challenge writes without looking again and the target may move
   while its proof is fetched (models/repository.py, models/verification.py). *)
THEOREM VerifiedWasProved == Spec => []VerifiedByProof
<1>1. Inv => VerifiedByProof
  BY DEF Inv, ProofInv
<1>. QED BY <1>1, InitInv, InvStep, PTL DEF Spec

(* Every authorization ends after it starts, whichever requests move its two ends, where
   each writes both (SQLite) or where they come one after another.  On PostgreSQL two
   concurrent requests may move one end each (SetupSplitWindow.cfg). *)
THEOREM WindowsStayOrdered ==
  ASSUME Sqlite \/ OneRequest
  PROVE  Spec => []WindowsOrdered
<1>1. Init => WindowInv
  BY NoRequestShape DEF Init, WindowInv, WindowsOrdered, Present
<1>2. WindowInv => WindowsOrdered
  BY DEF WindowInv
<1>3. Inv /\ WindowInv /\ [Next]_vars => WindowInv'
  BY WindowStep DEF Inv
<1>. QED BY <1>1, <1>2, <1>3, InitInv, InvStep, PTL DEF Spec
=============================================================================
