---------------------------- MODULE PolicyDecision ----------------------------
(***************************************************************************)
(* One policy decided in two places: ScanPolicyEngine (policy/engine.py)   *)
(* freezes what a target and its signed authorization (ROE) allow, and     *)
(* RequestGate.evaluate (policy/gate.py) reads that snapshot before every  *)
(* request, while the target, the ROE and the clock have moved on.         *)
(***************************************************************************)
EXTENDS Integers

CONSTANTS
    Scanners,      \* scanner descriptors: [risk, destructive]
    Requests,      \* request descriptors the scanners may submit
    Roes,          \* the authorizations that may be signed for the target
    NoRoe,         \* "no authorization"
    Origins, Paths,\* a URL is an origin and a path
    Base,          \* the origin of the target's base_url
    Aliases,       \* the origins whose host is root_domain or www.root_domain
    ScopeOrigins,  \* the origins the target's scopes may include or exclude
    Types, Payloads, Absent,   \* media types, payload ids, and "none given"
    PassiveBudget, \* max_requests without authorization (300 in the code)
    MaxRedirects,  \* RequestGate.MAX_REDIRECT_DEPTH (5 in the code)
    Horizon        \* bound on the clock, for model checking

Risks == {"PASSIVE", "LIGHT", "ACTIVE", "DESTRUCTIVE"}
RiskIndex == [PASSIVE |-> 0, LIGHT |-> 1, ACTIVE |-> 2, DESTRUCTIVE |-> 3]   \* _RISK_ORDER

Modes == {"PASSIVE", "GUIDED", "AGGRESSIVE"}
MaxRisk == [PASSIVE |-> "PASSIVE", GUIDED |-> "LIGHT", AGGRESSIVE |-> "DESTRUCTIVE"]

ReadVerbs  == {"GET", "HEAD"}
WriteVerbs == {"POST", "PUT", "PATCH", "DELETE"}
Verbs      == ReadVerbs \cup WriteVerbs

Urls    == [origin : Origins, path : Paths]
Request == [method : Verbs, url : Urls, web : BOOLEAN, depth : Nat, type : Types \cup {Absent},
            probe : BOOLEAN, payload : Payloads \cup {Absent}]
Scanner == [risk : Risks, destructive : BOOLEAN]
Target  == [verified : BOOLEAN, mode : Modes]

(* AuthorizationSpec; excluded and writable are the URLs its patterns match. *)
Roe == [opens : Nat, closes : Nat, origins : SUBSET Origins, excluded : SUBSET Urls,
        verbs : SUBSET Verbs, types : SUBSET Types, payloads : SUBSET Payloads,
        mutations : BOOLEAN, active : BOOLEAN, max : Nat, writable : SUBSET Urls]

ASSUME PolicyAssumption ==
    /\ Scanners \subseteq Scanner /\ Requests \subseteq Request /\ Roes \subseteq Roe
    /\ NoRoe \notin Roe
    /\ Base \in Origins /\ Aliases \subseteq Origins /\ ScopeOrigins \subseteq Origins
    /\ Absent \notin Types \cup Payloads
    /\ PassiveBudget \in Nat /\ MaxRedirects \in Nat /\ Horizon \in Nat

VARIABLES
    clock,      \* datetime.now(), in ticks
    target,     \* the TargetSpec the next freeze would get
    roe,        \* the AuthorizationSpec the next freeze would get, or NoRoe
    snap,       \* the snapshot of the current scan
    gate,       \* its RequestGate: _requests_made, and the KillSwitch it reads
    ledger,     \* its ResourceLedger: what it owns, what it has the state before of
    agreed,     \* history: the target, the ROE and the scopes the snapshot was frozen from
    permitted   \* history: the last request the gate permitted in this scan, and when

vars == <<clock, target, roe, snap, gate, ledger, agreed, permitted>>

-----------------------------------------------------------------------------
(* ScanPolicyEngine *)

(* Mutant: a scanner must match the ceiling instead of staying under it. *)
AtCeiling(s, mode) == RiskIndex[s.risk] = RiskIndex[MaxRisk[mode]]

UnderCeiling(s, mode) == RiskIndex[s.risk] <= RiskIndex[MaxRisk[mode]]

IsLive(r, now) == r.opens <= now /\ now <= r.closes

(* Steps 4 to 8 of _evaluate_risk. *)
Granted(s, r, now) ==
    /\ r # NoRoe
    /\ IsLive(r, now)
    /\ Base \in r.origins
    /\ s.risk \in {"ACTIVE", "DESTRUCTIVE"} => r.active
    /\ (s.destructive \/ s.risk = "DESTRUCTIVE") => r.mutations

(* _evaluate_risk, which can_execute returns. *)
CanExecute(s, t, r, now) ==
    /\ UnderCeiling(s, t.mode)
    /\ s.risk = "PASSIVE" \/ (t.verified /\ Granted(s, r, now))

(* What freeze() writes for a scan without authorization; the window is then null. *)
PassiveTerms == [opens |-> 0, closes |-> 0, origins |-> {Base}, excluded |-> {},
                 verbs |-> ReadVerbs, types |-> {}, payloads |-> {}, mutations |-> FALSE,
                 active |-> FALSE, max |-> PassiveBudget, writable |-> {}]

Terms(r) == IF r = NoRoe THEN PassiveTerms ELSE r

Freeze(t, r, now) ==
    [mode |-> t.mode, authorized |-> r # NoRoe, terms |-> Terms(r),
     scanners |-> {s \in Scanners : CanExecute(s, t, r, now)}]

(* A scan gets its own gate, kill switch and ledger. *)
FreshScan ==
    /\ gate' = [made |-> 0, killed |-> FALSE]
    /\ ledger' = [created |-> {}, before |-> {}]
    /\ permitted' = {}

(* freeze() of a scan under the authorization at hand, if there is one. *)
StartAuthorized ==
    /\ snap' = Freeze(target, roe, clock)
    /\ agreed' = [target |-> target, roe |-> roe, scopes |-> {}]
    /\ FreshScan
    /\ UNCHANGED <<clock, target, roe>>

(* enqueue_passive_scan: no authorization, and the target's scopes replace two keys. *)
StartPassive(included, excluded) ==
    LET t == [target EXCEPT !.mode = "PASSIVE"]
        frozen == Freeze(t, NoRoe, clock)
    IN  /\ snap' = [frozen EXCEPT !.terms.origins = {Base} \cup included,
                                  !.terms.excluded = excluded]
        /\ agreed' = [target |-> t, roe |-> NoRoe, scopes |-> included]
        /\ FreshScan
        /\ UNCHANGED <<clock, target, roe>>

-----------------------------------------------------------------------------
(* RequestGate.evaluate *)

(* Mutant: the window is checked for the requests that carry a probe. *)
InWindowWhenProbing(req) == (snap.authorized /\ req.probe) => IsLive(snap.terms, clock)

InWindow(req) == snap.authorized => IsLive(snap.terms, clock)

IsPassiveRootAlias(origin) == snap.mode = "PASSIVE" /\ ~snap.authorized /\ origin \in Aliases

InScope(url) ==
    /\ url.origin \in snap.terms.origins \/ IsPassiveRootAlias(url.origin)
    /\ url \notin snap.terms.excluded

(* Mutant: a probe that names no payload passes as a baseline request. *)
ContentAllowedUnnamed(req) ==
    /\ req.type # Absent => req.type \in snap.terms.types
    /\ req.probe /\ req.payload # Absent => req.payload \in snap.terms.payloads

ContentAllowed(req) ==
    /\ req.type # Absent => req.type \in snap.terms.types
    /\ req.probe => req.payload # Absent /\ req.payload \in snap.terms.payloads

MayWrite(req) ==
    /\ snap.terms.mutations
    /\ req.method = "DELETE" => req.url \in ledger.created
    /\ \/ req.url \in ledger.created
       \/ /\ req.url \in snap.terms.writable
          /\ req.method \in {"PUT", "PATCH"} => req.url \in ledger.before

(* Mutant: the budget is compared with > instead of >=. *)
BudgetLeftOneMore == gate.made <= snap.terms.max

BudgetLeft == gate.made < snap.terms.max

Permits(req) ==
    /\ ~gate.killed
    /\ BudgetLeft
    /\ InWindow(req)
    /\ req.depth <= MaxRedirects
    /\ req.web
    /\ InScope(req.url)
    /\ req.method \in snap.terms.verbs
    /\ ContentAllowed(req)
    /\ req.method \in WriteVerbs => MayWrite(req)

(* A refusal changes nothing. *)
Evaluate(req) ==
    /\ Permits(req)
    /\ gate' = [gate EXCEPT !.made = @ + 1]
    /\ permitted' = {[request |-> req, at |-> clock]}
    /\ UNCHANGED <<clock, target, roe, snap, ledger, agreed>>

-----------------------------------------------------------------------------
(* ResourceLedger, as MutationPlan fills it before it submits a write. *)

RecordCreate(url) ==
    /\ ledger' = [ledger EXCEPT !.created = @ \cup {url}]
    /\ UNCHANGED <<clock, target, roe, snap, gate, agreed, permitted>>

Snapshot(url) ==
    /\ ledger' = [ledger EXCEPT !.before = @ \cup {url}]
    /\ UNCHANGED <<clock, target, roe, snap, gate, agreed, permitted>>

(* engage() and disengage() of the kill switch. *)
SwitchKill(on) ==
    /\ gate' = [gate EXCEPT !.killed = on]
    /\ UNCHANGED <<clock, target, roe, snap, ledger, agreed, permitted>>

-----------------------------------------------------------------------------
(* What moves under a running scan. *)

ChangeTarget(t) ==
    /\ target' = t
    /\ UNCHANGED <<clock, roe, snap, gate, ledger, agreed, permitted>>

ChangeRoe(r) ==
    /\ roe' = r
    /\ UNCHANGED <<clock, target, snap, gate, ledger, agreed, permitted>>

Tick ==
    /\ clock < Horizon
    /\ clock' = clock + 1
    /\ UNCHANGED <<target, roe, snap, gate, ledger, agreed, permitted>>

Init ==
    /\ clock = 0
    /\ target \in Target
    /\ roe = NoRoe
    /\ snap = Freeze(target, NoRoe, 0)
    /\ gate = [made |-> 0, killed |-> FALSE]
    /\ ledger = [created |-> {}, before |-> {}]
    /\ agreed = [target |-> target, roe |-> NoRoe, scopes |-> {}]
    /\ permitted = {}

Next ==
    \/ StartAuthorized
    \/ \E included \in SUBSET ScopeOrigins, excluded \in SUBSET {u \in Urls : u.origin \in ScopeOrigins} :
           StartPassive(included, excluded)
    \/ \E req \in Requests : Evaluate(req)
    \/ \E req \in Requests : req.method \in WriteVerbs /\ (RecordCreate(req.url) \/ Snapshot(req.url))
    \/ \E on \in BOOLEAN : SwitchKill(on)
    \/ \E t \in Target : ChangeTarget(t)
    \/ \E r \in Roes \cup {NoRoe} : ChangeRoe(r)
    \/ Tick

Spec == Init /\ [][Next]_vars

-----------------------------------------------------------------------------
(* The variables have their types, and a scan stays within its budget (gate.py:152). *)
TypeOK ==
    /\ clock \in Nat
    /\ target \in Target
    /\ roe \in Roes \cup {NoRoe}
    /\ snap \in [mode : Modes, authorized : BOOLEAN, terms : Roe, scanners : SUBSET Scanners]
    /\ gate \in [made : Nat, killed : BOOLEAN]
    /\ gate.made <= snap.terms.max
    /\ ledger \in [created : SUBSET Urls, before : SUBSET Urls]
    /\ agreed \in [target : Target, roe : Roes \cup {NoRoe}, scopes : SUBSET Origins]
    /\ permitted \in SUBSET [request : Requests, at : Nat]

Intrusive(scanners) == {s \in scanners : s.risk # "PASSIVE"}

(* A scan whose snapshot lists anything but passive scanners was frozen for a verified
   target under an authorization, and every request it ever gets permitted is inside
   that authorization at that moment: its window, origins, exclusions and verbs, and its
   mutation flag if the request writes.  docs/03-MODOS-E-POLITICA.md:17-20: the engine
   checks the first part once, the gate the second before each request. *)
IntrusiveStaysInsideRoe ==
    Intrusive(snap.scanners) # {} =>
        /\ agreed.target.verified
        /\ agreed.target.mode # "PASSIVE"
        /\ agreed.roe # NoRoe
        /\ \A p \in permitted :
              /\ IsLive(agreed.roe, p.at)
              /\ p.request.url.origin \in agreed.roe.origins
              /\ p.request.url \notin agreed.roe.excluded
              /\ p.request.method \in agreed.roe.verbs
              /\ p.request.method \in WriteVerbs => agreed.roe.mutations

(* A scan frozen without an authorization only reads: no write, nothing of a declared
   content type (gate.py:207 does not look at the body), no probe, and nothing but the
   target's origin, the scopes it was enqueued with and the apex/www aliases, however the
   target and the ROE change while it runs
   (docs/03-MODOS-E-POLITICA.md:5; main.py:792-800 replaces the origins after freeze). *)
UnauthorizedOnlyReads ==
    agreed.roe = NoRoe =>
        /\ Intrusive(snap.scanners) = {}
        /\ \A p \in permitted :
              /\ p.request.method \in ReadVerbs
              /\ p.request.type = Absent
              /\ ~p.request.probe
              /\ p.request.url.origin \in {Base} \cup agreed.scopes \cup Aliases

ModeIndex == [PASSIVE |-> 0, GUIDED |-> 1, AGGRESSIVE |-> 2]

(* q grants at least what r grants. *)
Covers(q, r) ==
    \/ r = NoRoe
    \/ /\ r # NoRoe /\ q # NoRoe
       /\ q.opens <= r.opens /\ r.closes <= q.closes
       /\ r.origins \subseteq q.origins
       /\ r.mutations => q.mutations
       /\ r.active => q.active

Executable(t, r, now) == {s \in Scanners : CanExecute(s, t, r, now)}

(* Widening never forbids: raising the mode, verifying the target or signing a wider
   authorization takes no scanner away from those can_execute allows at that moment
   (engine.py:215-275 decides in eight steps, each with its own early return). *)
WideningForbidsNothing ==
    [][(/\ clock' = clock
        /\ ModeIndex[target.mode] <= ModeIndex[target'.mode]
        /\ target.verified => target'.verified
        /\ Covers(roe', roe))
       => Executable(target, roe, clock) \subseteq Executable(target', roe', clock)]_vars

(* ledger.py:3-4: a write passes only for a resource in the ledger, or on the allowed
   write paths with its state captured. *)
WritesAreAccounted ==
    \A p \in permitted :
        p.request.method \in WriteVerbs =>
            p.request.url \in ledger.created \cup ledger.before
=============================================================================
