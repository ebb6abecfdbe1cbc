------------------------- MODULE PolicyDecision_proofs -------------------------
(* What PolicyDecision's runs show on small instances, for every set of scanners,
   requests and authorizations.  The argument: a snapshot stays what freeze() made of
   the target and the ROE recorded in "agreed" (Frozen), so that what the gate checks
   against the snapshot (PermittedInside) is a check against the ROE itself. *)
EXTENDS PolicyDecision, TLAPS

Frozen ==
    /\ snap.mode = agreed.target.mode
    /\ snap.authorized <=> agreed.roe # NoRoe
    /\ agreed.roe # NoRoe => snap.terms = agreed.roe
    /\ agreed.roe = NoRoe =>
          /\ snap.terms.origins \subseteq {Base} \cup agreed.scopes
          /\ snap.terms.verbs = ReadVerbs
          /\ snap.terms.types = {}
          /\ snap.terms.payloads = {}
    /\ Intrusive(snap.scanners) # {} =>
          /\ agreed.target.verified
          /\ agreed.target.mode # "PASSIVE"
          /\ agreed.roe # NoRoe

Inside(req, now) ==
    /\ snap.authorized => IsLive(snap.terms, now)
    /\ InScope(req.url)
    /\ req.method \in snap.terms.verbs
    /\ ContentAllowed(req)
    /\ req.method \in WriteVerbs => snap.terms.mutations

PermittedInside == \A p \in permitted : Inside(p.request, p.at)

IInv == TypeOK /\ Frozen /\ PermittedInside

-----------------------------------------------------------------------------
LEMMA PassiveTermsFields ==
    /\ PassiveTerms \in Roe
    /\ PassiveTerms.origins = {Base} /\ PassiveTerms.verbs = ReadVerbs
    /\ PassiveTerms.types = {} /\ PassiveTerms.payloads = {}
BY PolicyAssumption DEF PassiveTerms, Roe, Verbs, ReadVerbs

(* The terms of a snapshot are an authorization's, or those of a passive scan. *)
LEMMA TermsType == \A r \in Roes \cup {NoRoe} : Terms(r) \in Roe
BY PassiveTermsFields, PolicyAssumption DEF Terms

(* freeze() returns a snapshot (engine.py:173-213). *)
LEMMA FreezeType ==
    ASSUME NEW t \in Target, NEW r \in Roes \cup {NoRoe}, NEW now \in Nat
    PROVE  /\ Freeze(t, r, now) \in
                  [mode : Modes, authorized : BOOLEAN, terms : Roe, scanners : SUBSET Scanners]
           /\ Freeze(t, r, now).mode = t.mode
           /\ Freeze(t, r, now).authorized = (r # NoRoe)
           /\ Freeze(t, r, now).terms = Terms(r)
           /\ Freeze(t, r, now).scanners = {s \in Scanners : CanExecute(s, t, r, now)}
<1>1. Terms(r) \in Roe  BY TermsType
<1>2. t.mode \in Modes  BY DEF Target
<1>. QED  BY <1>1, <1>2 DEF Freeze

(* Under the ceiling of the passive mode there are only passive scanners. *)
LEMMA PassiveCeiling ==
    ASSUME NEW s \in Scanner, UnderCeiling(s, "PASSIVE")
    PROVE  s.risk = "PASSIVE"
BY DEF Scanner, Risks, UnderCeiling, RiskIndex, MaxRisk

(* Nothing but a passive scanner is listed without a verified target in another mode
   than PASSIVE and an authorization (steps 1 to 4 of _evaluate_risk). *)
LEMMA IntrusiveNeedsRoe ==
    ASSUME NEW t \in Target, NEW r \in Roes \cup {NoRoe}, NEW now \in Nat,
           Intrusive({s \in Scanners : CanExecute(s, t, r, now)}) # {}
    PROVE  t.verified /\ t.mode # "PASSIVE" /\ r # NoRoe
<1>1. PICK s \in Scanners : CanExecute(s, t, r, now) /\ s.risk # "PASSIVE"
  BY DEF Intrusive
<1>2. t.verified /\ r # NoRoe
  BY <1>1 DEF CanExecute, Granted
<1>3. s \in Scanner /\ UnderCeiling(s, t.mode)
  BY <1>1, PolicyAssumption DEF CanExecute
<1>4. t.mode # "PASSIVE"
  BY <1>1, <1>3, PassiveCeiling
<1>. QED  BY <1>2, <1>4

(* The facts a fresh scan establishes, whichever way it starts. *)
LEMMA FreshScanInv ==
    ASSUME TypeOK, FreshScan,
           snap' \in [mode : Modes, authorized : BOOLEAN, terms : Roe, scanners : SUBSET Scanners],
           agreed' \in [target : Target, roe : Roes \cup {NoRoe}, scopes : SUBSET Origins],
           UNCHANGED <<clock, target, roe>>
    PROVE  TypeOK' /\ PermittedInside'
<1>1. snap'.terms.max \in Nat  BY DEF Roe
<1>. QED  BY <1>1 DEF TypeOK, FreshScan, PermittedInside

LEMMA InitInv == Init => IInv
<1>. SUFFICES ASSUME Init PROVE IInv
  OBVIOUS
<1>1. TypeOK
  <2>1. snap.terms.max \in Nat
    BY FreezeType DEF Init, Roe
  <2>2. agreed \in [target : Target, roe : Roes \cup {NoRoe}, scopes : SUBSET Origins]
    BY DEF Init
  <2>3. snap \in [mode : Modes, authorized : BOOLEAN, terms : Roe, scanners : SUBSET Scanners]
    BY FreezeType DEF Init
  <2>. QED  BY <2>1, <2>2, <2>3 DEF Init, TypeOK
<1>2. Frozen
  <2>1. /\ snap.mode = target.mode /\ snap.authorized = FALSE /\ snap.terms = PassiveTerms
        /\ snap.scanners = {s \in Scanners : CanExecute(s, target, NoRoe, 0)}
    BY FreezeType DEF Init, Terms
  <2>2. Intrusive(snap.scanners) = {}
    BY <2>1, IntrusiveNeedsRoe DEF Init
  <2>3. agreed.target = target /\ agreed.roe = NoRoe /\ agreed.scopes = {}
    BY DEF Init
  <2>. HIDE DEF Init
  <2>. QED  BY <2>1, <2>2, <2>3, PassiveTermsFields DEF Frozen
<1>3. PermittedInside
  BY DEF Init, PermittedInside
<1>. QED  BY <1>1, <1>2, <1>3 DEF IInv

LEMMA StartAuthorizedInv == IInv /\ StartAuthorized => IInv'
<1>. SUFFICES ASSUME IInv, StartAuthorized PROVE IInv'
  OBVIOUS
<1>0. target \in Target /\ roe \in Roes \cup {NoRoe} /\ clock \in Nat /\ TypeOK
  BY DEF IInv, TypeOK
<1>1. /\ snap' \in [mode : Modes, authorized : BOOLEAN, terms : Roe, scanners : SUBSET Scanners]
      /\ snap'.mode = target.mode /\ snap'.authorized = (roe # NoRoe) /\ snap'.terms = Terms(roe)
      /\ snap'.scanners = {s \in Scanners : CanExecute(s, target, roe, clock)}
  BY <1>0, FreezeType DEF StartAuthorized
<1>2. agreed' = [target |-> target, roe |-> roe, scopes |-> {}]
  BY DEF StartAuthorized
<1>3. TypeOK' /\ PermittedInside'
  BY <1>0, <1>1, <1>2, FreshScanInv DEF StartAuthorized
<1>4. Frozen'
  <2>1. Intrusive(snap'.scanners) # {} =>
            target.verified /\ target.mode # "PASSIVE" /\ roe # NoRoe
    BY <1>0, <1>1, IntrusiveNeedsRoe
  <2>. QED  BY <1>1, <1>2, <2>1 DEF Frozen, Terms, PassiveTerms
<1>. QED  BY <1>3, <1>4 DEF IInv

LEMMA StartPassiveInv ==
    ASSUME IInv, NEW included \in SUBSET ScopeOrigins, NEW excluded \in SUBSET Urls,
           StartPassive(included, excluded)
    PROVE  IInv'
<1>. DEFINE t == [target EXCEPT !.mode = "PASSIVE"]
            frozen == Freeze(t, NoRoe, clock)
<1>0. t \in Target /\ t.mode = "PASSIVE" /\ clock \in Nat /\ TypeOK
  BY DEF IInv, TypeOK, Target, Modes
<1>. HIDE DEF t
<1>1. /\ frozen \in [mode : Modes, authorized : BOOLEAN, terms : Roe, scanners : SUBSET Scanners]
      /\ frozen.mode = t.mode /\ frozen.authorized = FALSE /\ frozen.terms = PassiveTerms
      /\ frozen.scanners = {s \in Scanners : CanExecute(s, t, NoRoe, clock)}
  BY <1>0, FreezeType DEF Terms
<1>. USE DEF t
<1>2. /\ snap' = [frozen EXCEPT !.terms.origins = {Base} \cup included,
                                !.terms.excluded = excluded]
      /\ agreed' = [target |-> t, roe |-> NoRoe, scopes |-> included]
  BY DEF StartPassive
<1>. HIDE DEF t, frozen
<1>3. included \subseteq Origins
  BY PolicyAssumption
<1>4. /\ snap'.mode = t.mode /\ snap'.authorized = FALSE
      /\ snap'.scanners = frozen.scanners
      /\ snap'.terms = [PassiveTerms EXCEPT !.origins = {Base} \cup included, !.excluded = excluded]
  BY <1>1, <1>2
<1>5. snap'.terms \in Roe
  <2>1. [PassiveTerms EXCEPT !.origins = {Base} \cup included, !.excluded = excluded] \in Roe
    BY <1>3, PassiveTermsFields, PolicyAssumption DEF Roe
  <2>. QED  BY <1>4, <2>1
<1>6. snap' \in [mode : Modes, authorized : BOOLEAN, terms : Roe, scanners : SUBSET Scanners]
  <2>1. snap' = [mode |-> frozen.mode, authorized |-> frozen.authorized,
                 terms |-> snap'.terms, scanners |-> frozen.scanners]
    BY <1>1, <1>2
  <2>. QED  BY <2>1, <1>1, <1>5
<1>7. TypeOK' /\ PermittedInside'
  <2>1. agreed' \in [target : Target, roe : Roes \cup {NoRoe}, scopes : SUBSET Origins]
    BY <1>0, <1>2, <1>3
  <2>. QED  BY <1>0, <1>6, <2>1, FreshScanInv DEF StartPassive
<1>8. Frozen'
  <2>1. Intrusive(frozen.scanners) = {}
    BY ZenonT(40), <1>0, <1>1, IntrusiveNeedsRoe
  <2>2. /\ snap'.terms.origins = {Base} \cup included /\ snap'.terms.verbs = ReadVerbs
        /\ snap'.terms.types = {} /\ snap'.terms.payloads = {}
    BY <1>4 DEF PassiveTerms
  <2>3. agreed'.target = t /\ agreed'.roe = NoRoe /\ agreed'.scopes = included
    BY <1>2
  <2>. QED  BY <2>3, <1>4, <2>1, <2>2 DEF Frozen
<1>. QED  BY <1>7, <1>8 DEF IInv

LEMMA EvaluateInv ==
    ASSUME IInv, NEW req \in Requests, Evaluate(req)
    PROVE  IInv'
<1>1. TypeOK'
  <2>1. /\ gate' = [gate EXCEPT !.made = @ + 1] /\ gate.made < snap.terms.max
        /\ UNCHANGED <<clock, target, roe, snap, ledger, agreed>>
        /\ permitted' = {[request |-> req, at |-> clock]}
    BY DEF Evaluate, Permits, BudgetLeft
  <2>2. TypeOK /\ snap.terms.max \in Nat
    BY DEF IInv, TypeOK, Roe
  <2>3. gate' \in [made : Nat, killed : BOOLEAN] /\ gate'.made <= snap'.terms.max
    BY <2>1, <2>2 DEF TypeOK
  <2>4. permitted' \in SUBSET [request : Requests, at : Nat]
    BY <2>1, <2>2 DEF TypeOK
  <2>. QED  BY <2>1, <2>2, <2>3, <2>4 DEF TypeOK
<1>2. Frozen'
  BY DEF Evaluate, IInv, Frozen
<1>3. Inside(req, clock)
  BY DEF Evaluate, Permits, Inside, InWindow, MayWrite
<1>4. PermittedInside'
  <2>1. permitted' = {[request |-> req, at |-> clock]} /\ snap' = snap
    BY DEF Evaluate
  <2>2. Inside(req, clock)'
    BY <1>3, <2>1 DEF Inside, InScope, IsPassiveRootAlias, ContentAllowed, Evaluate
  <2>3. SUFFICES ASSUME NEW p \in permitted' PROVE Inside(p.request, p.at)'
    BY DEF PermittedInside
  <2>4. p.request = req /\ p.at = clock
    BY <2>1, <2>3
  <2>. QED  BY <2>1, <2>4, <1>3 DEF Inside, InScope, IsPassiveRootAlias, ContentAllowed
<1>. QED  BY <1>1, <1>2, <1>4 DEF IInv

(* Nothing else touches the snapshot, what it was frozen from or what was permitted. *)
LEMMA OtherInv ==
    ASSUME IInv, TypeOK', UNCHANGED <<snap, agreed, permitted>>
    PROVE  IInv'
<1>1. Frozen'  BY DEF IInv, Frozen
<1>2. PermittedInside'
  BY DEF IInv, PermittedInside, Inside, InScope, IsPassiveRootAlias, ContentAllowed
<1>. QED  BY <1>1, <1>2 DEF IInv

LEMMA NextInv == IInv /\ [Next]_vars => IInv'
<1>. SUFFICES ASSUME IInv, [Next]_vars PROVE IInv'
  OBVIOUS
<1>0. TypeOK  BY DEF IInv
<1>1. CASE StartAuthorized
  BY <1>1, StartAuthorizedInv
<1>2. ASSUME NEW included \in SUBSET ScopeOrigins,
             NEW excluded \in SUBSET {u \in Urls : u.origin \in ScopeOrigins},
             StartPassive(included, excluded)
      PROVE  IInv'
  BY <1>2, StartPassiveInv
<1>3. ASSUME NEW req \in Requests, Evaluate(req) PROVE IInv'
  BY <1>3, EvaluateInv
<1>4. ASSUME NEW req \in Requests, RecordCreate(req.url) \/ Snapshot(req.url) PROVE IInv'
  <2>1. req.url \in Urls  BY PolicyAssumption DEF Request
  <2>2. ledger' \in [created : SUBSET Urls, before : SUBSET Urls]
    BY <1>0, <1>4, <2>1 DEF TypeOK, RecordCreate, Snapshot
  <2>3. TypeOK'
    BY <1>0, <1>4, <2>2 DEF TypeOK, RecordCreate, Snapshot
  <2>. QED  BY <1>4, <2>3, OtherInv DEF RecordCreate, Snapshot
<1>5. ASSUME NEW on \in BOOLEAN, SwitchKill(on) PROVE IInv'
  <2>1. gate' \in [made : Nat, killed : BOOLEAN] /\ gate'.made = gate.made
    BY <1>0, <1>5 DEF TypeOK, SwitchKill
  <2>2. TypeOK'  BY <1>0, <1>5, <2>1 DEF TypeOK, SwitchKill
  <2>. QED  BY <1>5, <2>2, OtherInv DEF SwitchKill
<1>6. ASSUME NEW t \in Target, ChangeTarget(t) PROVE IInv'
  <2>1. TypeOK'  BY <1>0, <1>6 DEF TypeOK, ChangeTarget
  <2>. QED  BY <1>6, <2>1, OtherInv DEF ChangeTarget
<1>7. ASSUME NEW r \in Roes \cup {NoRoe}, ChangeRoe(r) PROVE IInv'
  <2>1. TypeOK'  BY <1>0, <1>7 DEF TypeOK, ChangeRoe
  <2>. QED  BY <1>7, <2>1, OtherInv DEF ChangeRoe
<1>8. CASE Tick
  <2>1. TypeOK'  BY <1>0, <1>8 DEF TypeOK, Tick
  <2>. QED  BY <1>8, <2>1, OtherInv DEF Tick
<1>9. CASE UNCHANGED vars
  <2>1. TypeOK'  BY <1>0, <1>9 DEF TypeOK, vars
  <2>. QED  BY <1>9, <2>1, OtherInv DEF vars
<1>. QED  BY <1>1, <1>2, <1>3, <1>4, <1>5, <1>6, <1>7, <1>8, <1>9 DEF Next

LEMMA InvHolds == Spec => []IInv
BY InitInv, NextInv, PTL DEF Spec

-----------------------------------------------------------------------------
(* The variables keep their types and no scan exceeds its budget. *)
THEOREM TypeCorrect == Spec => []TypeOK
BY InvHolds, PTL DEF IInv

(* Whatever an intrusive scan gets permitted is inside the authorization it was
   frozen under, however the target, the ROE and the clock change afterwards. *)
THEOREM IntrusiveInsideRoe == Spec => []IntrusiveStaysInsideRoe
<1>1. IInv => IntrusiveStaysInsideRoe
  <2>. SUFFICES ASSUME IInv, Intrusive(snap.scanners) # {}
                PROVE  /\ agreed.target.verified /\ agreed.target.mode # "PASSIVE"
                       /\ agreed.roe # NoRoe
                       /\ \A p \in permitted :
                             /\ IsLive(agreed.roe, p.at)
                             /\ p.request.url.origin \in agreed.roe.origins
                             /\ p.request.url \notin agreed.roe.excluded
                             /\ p.request.method \in agreed.roe.verbs
                             /\ p.request.method \in WriteVerbs => agreed.roe.mutations
    BY DEF IntrusiveStaysInsideRoe
  <2>1. /\ agreed.target.verified /\ agreed.target.mode # "PASSIVE" /\ agreed.roe # NoRoe
        /\ snap.authorized /\ snap.terms = agreed.roe
    BY DEF IInv, Frozen
  <2>2. ASSUME NEW p \in permitted
        PROVE  /\ IsLive(agreed.roe, p.at)
               /\ p.request.url.origin \in agreed.roe.origins
               /\ p.request.url \notin agreed.roe.excluded
               /\ p.request.method \in agreed.roe.verbs
               /\ p.request.method \in WriteVerbs => agreed.roe.mutations
    BY <2>1 DEF IInv, PermittedInside, Inside, InScope, IsPassiveRootAlias
  <2>. QED  BY <2>1, <2>2
<1>. QED  BY <1>1, InvHolds, PTL

(* A scan frozen without an authorization only reads the target, its scopes and its
   apex/www aliases. *)
THEOREM UnauthorizedReads == Spec => []UnauthorizedOnlyReads
<1>1. IInv => UnauthorizedOnlyReads
  <2>. SUFFICES ASSUME IInv, agreed.roe = NoRoe
                PROVE  /\ Intrusive(snap.scanners) = {}
                       /\ \A p \in permitted :
                             /\ p.request.method \in ReadVerbs
                             /\ p.request.type = Absent
                             /\ ~p.request.probe
                             /\ p.request.url.origin \in {Base} \cup agreed.scopes \cup Aliases
    BY DEF UnauthorizedOnlyReads
  <2>1. /\ snap.terms.origins \subseteq {Base} \cup agreed.scopes
        /\ snap.terms.verbs = ReadVerbs /\ snap.terms.types = {} /\ snap.terms.payloads = {}
        /\ Intrusive(snap.scanners) = {}
    BY DEF IInv, Frozen
  <2>2. ASSUME NEW p \in permitted
        PROVE  /\ p.request.method \in ReadVerbs
               /\ p.request.type = Absent
               /\ ~p.request.probe
               /\ p.request.url.origin \in {Base} \cup agreed.scopes \cup Aliases
    <3>1. Inside(p.request, p.at)
      BY DEF IInv, PermittedInside
    <3>2. p.request.probe \in BOOLEAN
      BY PolicyAssumption DEF IInv, TypeOK, Request
    <3>. QED  BY <2>1, <3>1, <3>2 DEF Inside, InScope, IsPassiveRootAlias, ContentAllowed
  <2>. QED  BY <2>1, <2>2
<1>. QED  BY <1>1, InvHolds, PTL

-----------------------------------------------------------------------------
(* A wider mode has no lower ceiling. *)
LEMMA CeilingMonotone ==
    ASSUME NEW m \in Modes, NEW n \in Modes, ModeIndex[m] <= ModeIndex[n],
           NEW s \in Scanner, UnderCeiling(s, m)
    PROVE  UnderCeiling(s, n)
BY DEF Modes, ModeIndex, Scanner, Risks, UnderCeiling, RiskIndex, MaxRisk

(* What an authorization grants, a wider one grants. *)
LEMMA GrantedMonotone ==
    ASSUME NEW r \in Roes \cup {NoRoe}, NEW q \in Roes \cup {NoRoe}, NEW now \in Nat,
           Covers(q, r), NEW s \in Scanner, Granted(s, r, now)
    PROVE  Granted(s, q, now)
<1>1. r # NoRoe /\ q # NoRoe
  BY DEF Granted, Covers
<1>2. r.opens \in Nat /\ r.closes \in Nat /\ q.opens \in Nat /\ q.closes \in Nat
  BY <1>1, PolicyAssumption DEF Roe
<1>3. IsLive(q, now)
  BY <1>1, <1>2 DEF Granted, Covers, IsLive
<1>. QED  BY <1>1, <1>3 DEF Granted, Covers

(* Raising the mode, verifying the target or widening the ROE takes no scanner away. *)
THEOREM WideningIsMonotone == Spec => WideningForbidsNothing
<1>1. TypeOK /\ TypeOK' =>
        ((/\ clock' = clock
          /\ ModeIndex[target.mode] <= ModeIndex[target'.mode]
          /\ target.verified => target'.verified
          /\ Covers(roe', roe))
         => Executable(target, roe, clock) \subseteq Executable(target', roe', clock))
  <2>. SUFFICES ASSUME TypeOK, TypeOK', clock' = clock,
                       ModeIndex[target.mode] <= ModeIndex[target'.mode],
                       target.verified => target'.verified, Covers(roe', roe),
                       NEW s \in Scanners, CanExecute(s, target, roe, clock)
                PROVE  CanExecute(s, target', roe', clock)
    BY DEF Executable
  <2>1. /\ s \in Scanner /\ clock \in Nat
        /\ roe \in Roes \cup {NoRoe} /\ roe' \in Roes \cup {NoRoe}
        /\ target.mode \in Modes /\ target'.mode \in Modes
    BY PolicyAssumption DEF TypeOK, Target
  <2>2. UnderCeiling(s, target'.mode)
    BY <2>1, CeilingMonotone DEF CanExecute
  <2>3. CASE s.risk = "PASSIVE"
    BY <2>2, <2>3 DEF CanExecute
  <2>4. CASE s.risk # "PASSIVE"
    <3>1. target'.verified /\ Granted(s, roe, clock)
      BY <2>4 DEF CanExecute
    <3>2. Granted(s, roe', clock)
      BY <3>1, <2>1, GrantedMonotone
    <3>. QED  BY <2>2, <3>1, <3>2 DEF CanExecute
  <2>. QED  BY <2>3, <2>4
<1>. QED  BY <1>1, TypeCorrect, PTL DEF WideningForbidsNothing
=============================================================================
