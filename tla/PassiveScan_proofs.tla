--------------------------- MODULE PassiveScan_proofs ---------------------------
(***************************************************************************)
(* Machine-checked safety of PassiveScan, for any facts, alerts, denials   *)
(* and numbers of scans, changes and decisions.                            *)
(*                                                                         *)
(* Each property is strengthened until a step keeps it.  JobInv ties the   *)
(* worker to the last job claimed.  HeardInv says what the worker has      *)
(* heard by its place in the plan.  ReportInv extends what is asked of     *)
(* evidence to what the worker has not committed.  SeenInv says what is    *)
(* found already, by the same place, of what the site has all the time.    *)
(* Discovery, which has no state in common with a scan, is at the end.     *)
(***************************************************************************)
EXTENDS PassiveScan, FiniteSetTheorems, WellFoundedInduction, TLAPS

(* What a title, a row of either table and an Evidence row may be. *)
AllTitles == DOMAIN Rules \cup ZapFacts
Status    == {"OPEN", "ACKNOWLEDGED", "FIXED", "ACCEPTED_RISK"}
Rating    == [severity : DOMAIN Deduction, confidence : Nat]
Finding   == [severity : DOMAIN Deduction, confidence : Nat, status : Status]
Tables(R) == UNION {[titles -> R] : titles \in SUBSET AllTitles}
Addresses == PublicFiles \cup {"/"} \cup {Alerts[i].uri : i \in DOMAIN Alerts}
Evidence  == [job : Jobs, source : {Plan[i][1] : i \in DOMAIN Plan}, title : AllTitles,
              url : Addresses]

Job     == [status : {"ABSENT", "PENDING", "RUNNING", "COMPLETED", "FAILED"}, zap : BOOLEAN]
Worker  == [at : 0 .. 14, job : Jobs \cup {NoJob}, heard : SUBSET Facts,
            found : Tables(Rating), shown : SUBSET Evidence]
History == [job : Jobs \cup {NoJob}, ever : SUBSET Facts, always : SUBSET Facts,
            failed : SUBSET {"probe", "head"}, killed : BOOLEAN]

TypeOK ==
    /\ https \in BOOLEAN /\ denied \in Denials
    /\ site \subseteq Facts /\ changes \in Nat /\ triages \in Nat
    /\ jobs \in [Jobs -> Job] /\ findings \in Tables(Finding) /\ evidence \subseteq Evidence
    /\ worker \in Worker /\ history \in History
    /\ worker.at # 0 => worker.job \in Jobs
    /\ child \in BOOLEAN /\ engine \in BOOLEAN

-----------------------------------------------------------------------------
(* The invariants. *)

IsActive(j) == jobs[j].status \in {"PENDING", "RUNNING"}

(* One job is active at most, and the worker's is the last one claimed; only the evidence
   of completed jobs is committed. *)
JobInv ==
    /\ \A i, j \in Jobs : IsActive(i) /\ IsActive(j) => i = j
    /\ \A e \in evidence : jobs[e.job].status = "COMPLETED"
    /\ history.job # NoJob => jobs[history.job].status \in {"RUNNING", "COMPLETED", "FAILED"}
    /\ worker.at = 0 => worker = Idle
    /\ worker.at # 0 => /\ worker.job = history.job /\ history.job \in Jobs
                        /\ jobs[history.job].status = "RUNNING" /\ ~history.killed
    /\ history.killed => history.job \in Jobs /\ jobs[history.job].status = "RUNNING"
    /\ \A e \in worker.shown : e.job = worker.job
    /\ worker.at = 13 => jobs[worker.job].zap

(* What a scanner has heard was so, and of what it has asked for it has heard whatever was
   so all the time. *)
HeardInv ==
    /\ worker.at # 0 => history.always \subseteq site /\ site \subseteq history.ever
    /\ worker.heard \subseteq history.ever \ Unreachable
    /\ worker.at = 2 => /\ history.always \cap Unreachable = {}
                        /\ \A fact \in history.always : fact[1] = "tls" => fact \in worker.heard
    /\ \A i \in 9 .. 12 : worker.at > i =>
           worker.at > 12 \/ history.always \cap {<<"file", Plan[i][2]>>} \subseteq worker.heard

ReportInv == ReportedWasSeen /\ \A e \in worker.shown : Justified(e.title)

(* A title is in the open transaction, as a finding and as evidence. *)
Noted(title) == title \in DOMAIN worker.found /\ \E e \in worker.shown : e.title = title

(* The facts the scanners before one place of the plan have to tell. *)
Owed(place) ==
    CASE place = 4  -> DOMAIN HeaderRules
      [] place = 6  -> DOMAIN CorsRules
      [] place = 7  -> {<<"missing", "caa">>}
      [] place = 8  -> {<<"page", "technology">>}
      [] place = 9  -> {<<"page", "references">>}
      [] place = 13 -> About("file", PublicFiles)
      [] place = 14 -> {fact \in ZapFacts : jobs[worker.job].zap}
      [] OTHER -> {}

(* What the worker owes, at its place in the plan, to a fact that was so all the time. *)
Due(fact) ==
    /\ worker.at >= 3 =>
          /\ fact \in Unreachable => Noted(<<"tls", "failed">>)
          /\ fact = <<"tls", "expiring">> => Noted(fact) \/ Noted(<<"tls", "failed">>)
          /\ fact = <<"hsts", "short">> => Noted(fact) \/ history.failed # {}
    /\ \A place \in 4 .. 14 : worker.at >= place /\ fact \in Owed(place) => Noted(fact)

SeenInv == SeenIsReported /\ \A fact \in history.always : Due(fact)

-----------------------------------------------------------------------------
(* Lemmas about the plan, the rules and the tables. *)

LEMMA PlanIs ==
  /\ Finished = 14 /\ Len(Plan) = 13 /\ DOMAIN Plan = 1 .. 13
  /\ Plan[1] = <<"tls-check", "probe">> /\ Plan[2] = <<"tls-check", "head">>
  /\ Plan[3] = <<"security-headers", "page">> /\ Plan[4] = <<"cookie-flags", "page">>
  /\ Plan[5] = <<"cors-policy", "page">> /\ Plan[6] = <<"dns-hygiene", "none">>
  /\ Plan[7] = <<"technology-fingerprint", "page">>
  /\ Plan[8] = <<"javascript-references", "page">>
  /\ Plan[9] = <<"public-metadata", "/robots.txt">>
  /\ Plan[10] = <<"public-metadata", "/sitemap.xml">>
  /\ Plan[11] = <<"public-metadata", "/security.txt">>
  /\ Plan[12] = <<"public-metadata", "/.well-known/security.txt">>
  /\ Plan[13] = <<"zap-baseline", "process">>
  BY DEF Plan, Finished

(* A table from titles to ratings. *)
Rated(rules) == \A title \in DOMAIN rules : rules[title] \in Rating

LEMMA JoinedIs ==
  ASSUME NEW tables
  PROVE  /\ \A title : title \in DOMAIN Joined(tables) <=>
                           \E table \in tables : title \in DOMAIN table
         /\ (\A table \in tables : Rated(table)) => Rated(Joined(tables))
  BY DEF Joined, Rated

LEMMA UpdatedIs ==
  ASSUME NEW rows, NEW new
  PROVE  /\ DOMAIN Updated(rows, new) = DOMAIN rows \cup DOMAIN new
         /\ \A title \in DOMAIN new : Updated(rows, new)[title] = new[title]
         /\ \A title \in DOMAIN rows \ DOMAIN new : Updated(rows, new)[title] = rows[title]
  BY DEF Updated

LEMMA Severities == DOMAIN Deduction = {"CRITICAL", "HIGH", "MEDIUM", "LOW", "INFO"}
  BY DEF Deduction

LEMMA RuleIs ==
  ASSUME NEW kind, NEW names, NEW confidence \in Nat,
         NEW severity \in {"CRITICAL", "HIGH", "MEDIUM", "LOW", "INFO"}
  PROVE  Rated(Rule(kind, names, severity, confidence))
  BY Severities DEF Rule, Rating, Rated

LEMMA TLSRulesAre ==
  /\ DOMAIN TLSRules =
        Unreachable
        \cup {<<"tls", "expiring">>, <<"hsts", "missing">>, <<"hsts", "short">>}
  /\ Rated(TLSRules)
<1>. DEFINE a == Rule("tls", {"failed", "expired"}, "CRITICAL", 100)
            b == Rule("tls", {"self-signed", "old protocol", "weak cipher"}, "HIGH", 100)
            c == Rule("tls", {"expiring"}, "MEDIUM", 100)
            d == Rule("hsts", {"missing"}, "MEDIUM", 100)
            e == Rule("hsts", {"short"}, "LOW", 90)
<1>1. TLSRules = Joined({a, b, c, d, e})
  BY DEF TLSRules
<1>2. Rated(a) /\ Rated(b) /\ Rated(c) /\ Rated(d) /\ Rated(e)
  <2>1. Rated(a)
    BY RuleIs
  <2>2. Rated(b)
    BY RuleIs
  <2>3. Rated(c)
    BY RuleIs
  <2>4. Rated(d)
    BY RuleIs
  <2>5. Rated(e)
    BY RuleIs
  <2>. QED BY <2>1, <2>2, <2>3, <2>4, <2>5
<1>3. DOMAIN a = About("tls", {"failed", "expired"})
  BY DEF Rule
<1>4. DOMAIN b = About("tls", {"self-signed", "old protocol", "weak cipher"})
  BY DEF Rule
<1>5. DOMAIN c = About("tls", {"expiring"})
  BY DEF Rule
<1>6. DOMAIN d = About("hsts", {"missing"})
  BY DEF Rule
<1>7. DOMAIN e = About("hsts", {"short"})
  BY DEF Rule
<1>. HIDE DEF a, b, c, d, e
<1>8. \A x : x \in DOMAIN TLSRules <=> x \in DOMAIN a \/ x \in DOMAIN b \/ x \in DOMAIN c \/ x \in DOMAIN d \/ x \in DOMAIN e
  BY <1>1, JoinedIs
<1>9. Rated(TLSRules)
  BY <1>1, <1>2, JoinedIs
<1>10. ASSUME NEW x \in DOMAIN TLSRules
      PROVE  \/ x \in Unreachable
             \/ x \in {<<"tls", "expiring">>, <<"hsts", "missing">>, <<"hsts", "short">>}
  <2>1. CASE x \in DOMAIN a
    <3>1. PICK name \in {"failed", "expired"} : x = <<"tls", name>>
      BY <2>1, <1>3 DEF About
    <3>. QED BY <3>1 DEF About, Unreachable
  <2>2. CASE x \in DOMAIN b
    <3>1. PICK name \in {"self-signed", "old protocol", "weak cipher"} : x = <<"tls", name>>
      BY <2>2, <1>4 DEF About
    <3>. QED BY <3>1 DEF About, Unreachable
  <2>3. CASE x \in DOMAIN c
    <3>1. PICK name \in {"expiring"} : x = <<"tls", name>>
      BY <2>3, <1>5 DEF About
    <3>. QED BY <3>1 DEF About, Unreachable
  <2>4. CASE x \in DOMAIN d
    <3>1. PICK name \in {"missing"} : x = <<"hsts", name>>
      BY <2>4, <1>6 DEF About
    <3>. QED BY <3>1 DEF About, Unreachable
  <2>5. CASE x \in DOMAIN e
    <3>1. PICK name \in {"short"} : x = <<"hsts", name>>
      BY <2>5, <1>7 DEF About
    <3>. QED BY <3>1 DEF About, Unreachable
  <2>. QED BY <2>1, <2>2, <2>3, <2>4, <2>5, <1>8
<1>11. ASSUME NEW x \in Unreachable PROVE x \in DOMAIN TLSRules
  BY <1>3, <1>4, <1>5, <1>6, <1>7, <1>8 DEF About, Unreachable
<1>12. ASSUME NEW x \in {<<"tls", "expiring">>, <<"hsts", "missing">>, <<"hsts", "short">>} PROVE x \in DOMAIN TLSRules
  BY <1>3, <1>4, <1>5, <1>6, <1>7, <1>8 DEF About, Unreachable
<1>. QED BY <1>9, <1>10, <1>11, <1>12

LEMMA HeaderRulesAre ==
  /\ DOMAIN HeaderRules =
        {<<"hsts", "missing">>}
        \cup About("missing", {"csp", "frame options", "nosniff", "referrer policy",
                              "permissions policy", "cache-control"})
        \cup About("csp", {"unsafe-inline", "unsafe-eval", "data:", "*"})
        \cup About("leak", {"server", "x-powered-by", "x-aspnet-version", "x-aspnetmvc-version"})
        \cup About("deprecated", {"x-xss-protection"})
  /\ Rated(HeaderRules)
<1>. DEFINE a == Rule("hsts", {"missing"}, "MEDIUM", 100)
            b == Rule("missing", {"csp"}, "HIGH", 100)
            c == Rule("missing", {"frame options"}, "MEDIUM", 100)
            d == Rule("missing", {"nosniff", "referrer policy", "permissions policy"}, "LOW", 100)
            e == Rule("csp", {"unsafe-inline", "unsafe-eval", "data:", "*"}, "MEDIUM", 90)
            f == Rule("leak", {"server", "x-powered-by", "x-aspnet-version", "x-aspnetmvc-version"}, "LOW", 90)
            g == Rule("deprecated", {"x-xss-protection"}, "INFO", 80)
            h == Rule("missing", {"cache-control"}, "INFO", 60)
<1>1. HeaderRules = Joined({a, b, c, d, e, f, g, h})
  BY DEF HeaderRules
<1>2. Rated(a) /\ Rated(b) /\ Rated(c) /\ Rated(d) /\ Rated(e) /\ Rated(f) /\ Rated(g) /\ Rated(h)
  <2>1. Rated(a)
    BY RuleIs
  <2>2. Rated(b)
    BY RuleIs
  <2>3. Rated(c)
    BY RuleIs
  <2>4. Rated(d)
    BY RuleIs
  <2>5. Rated(e)
    BY RuleIs
  <2>6. Rated(f)
    BY RuleIs
  <2>7. Rated(g)
    BY RuleIs
  <2>8. Rated(h)
    BY RuleIs
  <2>. QED BY <2>1, <2>2, <2>3, <2>4, <2>5, <2>6, <2>7, <2>8
<1>3. DOMAIN a = About("hsts", {"missing"})
  BY DEF Rule
<1>4. DOMAIN b = About("missing", {"csp"})
  BY DEF Rule
<1>5. DOMAIN c = About("missing", {"frame options"})
  BY DEF Rule
<1>6. DOMAIN d = About("missing", {"nosniff", "referrer policy", "permissions policy"})
  BY DEF Rule
<1>7. DOMAIN e = About("csp", {"unsafe-inline", "unsafe-eval", "data:", "*"})
  BY DEF Rule
<1>8. DOMAIN f = About("leak", {"server", "x-powered-by", "x-aspnet-version", "x-aspnetmvc-version"})
  BY DEF Rule
<1>9. DOMAIN g = About("deprecated", {"x-xss-protection"})
  BY DEF Rule
<1>10. DOMAIN h = About("missing", {"cache-control"})
  BY DEF Rule
<1>. HIDE DEF a, b, c, d, e, f, g, h
<1>11. \A x : x \in DOMAIN HeaderRules <=> x \in DOMAIN a \/ x \in DOMAIN b \/ x \in DOMAIN c \/ x \in DOMAIN d \/ x \in DOMAIN e \/ x \in DOMAIN f \/ x \in DOMAIN g \/ x \in DOMAIN h
  BY <1>1, JoinedIs
<1>12. Rated(HeaderRules)
  BY <1>1, <1>2, JoinedIs
<1>13. ASSUME NEW x \in DOMAIN HeaderRules
      PROVE  \/ x \in {<<"hsts", "missing">>}
             \/ x \in About("missing", {"csp", "frame options", "nosniff", "referrer policy",
                              "permissions policy", "cache-control"})
             \/ x \in About("csp", {"unsafe-inline", "unsafe-eval", "data:", "*"})
             \/ x \in About("leak", {"server", "x-powered-by", "x-aspnet-version", "x-aspnetmvc-version"})
             \/ x \in About("deprecated", {"x-xss-protection"})
  <2>1. CASE x \in DOMAIN a
    <3>1. PICK name \in {"missing"} : x = <<"hsts", name>>
      BY <2>1, <1>3 DEF About
    <3>. QED BY <3>1 DEF About
  <2>2. CASE x \in DOMAIN b
    <3>1. PICK name \in {"csp"} : x = <<"missing", name>>
      BY <2>2, <1>4 DEF About
    <3>. QED BY <3>1 DEF About
  <2>3. CASE x \in DOMAIN c
    <3>1. PICK name \in {"frame options"} : x = <<"missing", name>>
      BY <2>3, <1>5 DEF About
    <3>. QED BY <3>1 DEF About
  <2>4. CASE x \in DOMAIN d
    <3>1. PICK name \in {"nosniff", "referrer policy", "permissions policy"} : x = <<"missing", name>>
      BY <2>4, <1>6 DEF About
    <3>. QED BY <3>1 DEF About
  <2>5. CASE x \in DOMAIN e
    <3>1. PICK name \in {"unsafe-inline", "unsafe-eval", "data:", "*"} : x = <<"csp", name>>
      BY <2>5, <1>7 DEF About
    <3>. QED BY <3>1 DEF About
  <2>6. CASE x \in DOMAIN f
    <3>1. PICK name \in {"server", "x-powered-by", "x-aspnet-version", "x-aspnetmvc-version"} : x = <<"leak", name>>
      BY <2>6, <1>8 DEF About
    <3>. QED BY <3>1 DEF About
  <2>7. CASE x \in DOMAIN g
    <3>1. PICK name \in {"x-xss-protection"} : x = <<"deprecated", name>>
      BY <2>7, <1>9 DEF About
    <3>. QED BY <3>1 DEF About
  <2>8. CASE x \in DOMAIN h
    <3>1. PICK name \in {"cache-control"} : x = <<"missing", name>>
      BY <2>8, <1>10 DEF About
    <3>. QED BY <3>1 DEF About
  <2>. QED BY <2>1, <2>2, <2>3, <2>4, <2>5, <2>6, <2>7, <2>8, <1>11
<1>14. ASSUME NEW x \in {<<"hsts", "missing">>} PROVE x \in DOMAIN HeaderRules
  BY <1>3, <1>4, <1>5, <1>6, <1>7, <1>8, <1>9, <1>10, <1>11 DEF About
<1>15. ASSUME NEW x \in About("missing", {"csp", "frame options", "nosniff", "referrer policy",
                              "permissions policy", "cache-control"}) PROVE x \in DOMAIN HeaderRules
  BY <1>3, <1>4, <1>5, <1>6, <1>7, <1>8, <1>9, <1>10, <1>11 DEF About
<1>16. ASSUME NEW x \in About("csp", {"unsafe-inline", "unsafe-eval", "data:", "*"}) PROVE x \in DOMAIN HeaderRules
  BY <1>3, <1>4, <1>5, <1>6, <1>7, <1>8, <1>9, <1>10, <1>11 DEF About
<1>17. ASSUME NEW x \in About("leak", {"server", "x-powered-by", "x-aspnet-version", "x-aspnetmvc-version"}) PROVE x \in DOMAIN HeaderRules
  BY <1>3, <1>4, <1>5, <1>6, <1>7, <1>8, <1>9, <1>10, <1>11 DEF About
<1>18. ASSUME NEW x \in About("deprecated", {"x-xss-protection"}) PROVE x \in DOMAIN HeaderRules
  BY <1>3, <1>4, <1>5, <1>6, <1>7, <1>8, <1>9, <1>10, <1>11 DEF About
<1>. QED BY <1>12, <1>13, <1>14, <1>15, <1>16, <1>17, <1>18

LEMMA CookieRulesAre ==
  /\ DOMAIN CookieRules =
        About("cookie", {"secure", "httponly", "samesite"})
  /\ Rated(CookieRules)
<1>. DEFINE a == Rule("cookie", {"secure", "httponly"}, "MEDIUM", 90)
            b == Rule("cookie", {"samesite"}, "LOW", 90)
<1>1. CookieRules = Joined({a, b})
  BY DEF CookieRules
<1>2. Rated(a) /\ Rated(b)
  <2>1. Rated(a)
    BY RuleIs
  <2>2. Rated(b)
    BY RuleIs
  <2>. QED BY <2>1, <2>2
<1>3. DOMAIN a = About("cookie", {"secure", "httponly"})
  BY DEF Rule
<1>4. DOMAIN b = About("cookie", {"samesite"})
  BY DEF Rule
<1>. HIDE DEF a, b
<1>5. \A x : x \in DOMAIN CookieRules <=> x \in DOMAIN a \/ x \in DOMAIN b
  BY <1>1, JoinedIs
<1>6. Rated(CookieRules)
  BY <1>1, <1>2, JoinedIs
<1>7. ASSUME NEW x \in DOMAIN CookieRules
      PROVE  x \in About("cookie", {"secure", "httponly", "samesite"})
  <2>1. CASE x \in DOMAIN a
    <3>1. PICK name \in {"secure", "httponly"} : x = <<"cookie", name>>
      BY <2>1, <1>3 DEF About
    <3>. QED BY <3>1 DEF About
  <2>2. CASE x \in DOMAIN b
    <3>1. PICK name \in {"samesite"} : x = <<"cookie", name>>
      BY <2>2, <1>4 DEF About
    <3>. QED BY <3>1 DEF About
  <2>. QED BY <2>1, <2>2, <1>5
<1>8. ASSUME NEW x \in About("cookie", {"secure", "httponly", "samesite"}) PROVE x \in DOMAIN CookieRules
  BY <1>3, <1>4, <1>5 DEF About
<1>. QED BY <1>6, <1>7, <1>8

LEMMA CorsRulesAre ==
  /\ DOMAIN CorsRules =
        About("cors", {"any origin", "with credentials"})
  /\ Rated(CorsRules)
<1>. DEFINE a == Rule("cors", {"any origin"}, "LOW", 100)
            b == Rule("cors", {"with credentials"}, "HIGH", 90)
<1>1. CorsRules = Joined({a, b})
  BY DEF CorsRules
<1>2. Rated(a) /\ Rated(b)
  <2>1. Rated(a)
    BY RuleIs
  <2>2. Rated(b)
    BY RuleIs
  <2>. QED BY <2>1, <2>2
<1>3. DOMAIN a = About("cors", {"any origin"})
  BY DEF Rule
<1>4. DOMAIN b = About("cors", {"with credentials"})
  BY DEF Rule
<1>. HIDE DEF a, b
<1>5. \A x : x \in DOMAIN CorsRules <=> x \in DOMAIN a \/ x \in DOMAIN b
  BY <1>1, JoinedIs
<1>6. Rated(CorsRules)
  BY <1>1, <1>2, JoinedIs
<1>7. ASSUME NEW x \in DOMAIN CorsRules
      PROVE  x \in About("cors", {"any origin", "with credentials"})
  <2>1. CASE x \in DOMAIN a
    <3>1. PICK name \in {"any origin"} : x = <<"cors", name>>
      BY <2>1, <1>3 DEF About
    <3>. QED BY <3>1 DEF About
  <2>2. CASE x \in DOMAIN b
    <3>1. PICK name \in {"with credentials"} : x = <<"cors", name>>
      BY <2>2, <1>4 DEF About
    <3>. QED BY <3>1 DEF About
  <2>. QED BY <2>1, <2>2, <1>5
<1>8. ASSUME NEW x \in About("cors", {"any origin", "with credentials"}) PROVE x \in DOMAIN CorsRules
  BY <1>3, <1>4, <1>5 DEF About
<1>. QED BY <1>6, <1>7, <1>8

LEMMA MetadataRulesAre ==
  /\ DOMAIN MetadataRules =
        About("file", PublicFiles)
        \cup {<<"missing", "security.txt">>}
  /\ Rated(MetadataRules)
<1>. DEFINE a == Rule("file", PublicFiles, "INFO", 100)
            b == Rule("missing", {"security.txt"}, "INFO", 90)
<1>1. MetadataRules = Joined({a, b})
  BY DEF MetadataRules
<1>2. Rated(a) /\ Rated(b)
  <2>1. Rated(a)
    BY RuleIs
  <2>2. Rated(b)
    BY RuleIs
  <2>. QED BY <2>1, <2>2
<1>3. DOMAIN a = About("file", PublicFiles)
  BY DEF Rule
<1>4. DOMAIN b = About("missing", {"security.txt"})
  BY DEF Rule
<1>. HIDE DEF a, b
<1>5. \A x : x \in DOMAIN MetadataRules <=> x \in DOMAIN a \/ x \in DOMAIN b
  BY <1>1, JoinedIs
<1>6. Rated(MetadataRules)
  BY <1>1, <1>2, JoinedIs
<1>7. ASSUME NEW x \in DOMAIN MetadataRules
      PROVE  \/ x \in About("file", PublicFiles)
             \/ x \in {<<"missing", "security.txt">>}
  <2>1. CASE x \in DOMAIN a
    <3>1. PICK name \in PublicFiles : x = <<"file", name>>
      BY <2>1, <1>3 DEF About
    <3>. QED BY <3>1 DEF About
  <2>2. CASE x \in DOMAIN b
    <3>1. PICK name \in {"security.txt"} : x = <<"missing", name>>
      BY <2>2, <1>4 DEF About
    <3>. QED BY <3>1 DEF About
  <2>. QED BY <2>1, <2>2, <1>5
<1>8. ASSUME NEW x \in About("file", PublicFiles) PROVE x \in DOMAIN MetadataRules
  BY <1>3, <1>4, <1>5 DEF About
<1>9. ASSUME NEW x \in {<<"missing", "security.txt">>} PROVE x \in DOMAIN MetadataRules
  BY <1>3, <1>4, <1>5 DEF About
<1>. QED BY <1>6, <1>7, <1>8, <1>9

LEMMA RulesAre ==
  /\ DOMAIN Rules = DOMAIN TLSRules \cup DOMAIN HeaderRules \cup DOMAIN CookieRules
        \cup DOMAIN CorsRules \cup DOMAIN MetadataRules
        \cup {<<"missing", "caa">>, <<"page", "technology">>, <<"page", "references">>,
              <<"adequate", "tls">>, <<"adequate", "headers">>}
  /\ Rated(Rules)
<1>. DEFINE a == Rule("missing", {"caa"}, "INFO", 70)
            b == Rule("page", {"technology"}, "INFO", 70)
            c == Rule("page", {"references"}, "INFO", 100)
            d == Rule("adequate", {"tls", "headers"}, "INFO", 100)
<1>1. Rules = Joined({TLSRules, HeaderRules, CookieRules, CorsRules, MetadataRules, a, b, c, d})
  BY DEF Rules
<1>2. Rated(a) /\ Rated(b) /\ Rated(c) /\ Rated(d)
  <2>1. Rated(a)
    BY RuleIs
  <2>2. Rated(b)
    BY RuleIs
  <2>3. Rated(c)
    BY RuleIs
  <2>4. Rated(d)
    BY RuleIs
  <2>. QED BY <2>1, <2>2, <2>3, <2>4
<1>3. DOMAIN a = About("missing", {"caa"})
  BY DEF Rule
<1>4. DOMAIN b = About("page", {"technology"}) /\ DOMAIN c = About("page", {"references"})
  BY DEF Rule
<1>5. DOMAIN d = About("adequate", {"tls", "headers"})
  BY DEF Rule
<1>. HIDE DEF a, b, c, d
<1>6. \A x : x \in DOMAIN Rules <=>
               \/ x \in DOMAIN TLSRules \/ x \in DOMAIN HeaderRules \/ x \in DOMAIN CookieRules
               \/ x \in DOMAIN CorsRules \/ x \in DOMAIN MetadataRules
               \/ x \in DOMAIN a \/ x \in DOMAIN b \/ x \in DOMAIN c \/ x \in DOMAIN d
  BY <1>1, JoinedIs
<1>7. Rated(Rules)
  BY <1>1, <1>2, JoinedIs, TLSRulesAre, HeaderRulesAre, CookieRulesAre, CorsRulesAre, MetadataRulesAre
<1>8. \A x : /\ x \in DOMAIN a <=> x = <<"missing", "caa">>
             /\ x \in DOMAIN b <=> x = <<"page", "technology">>
             /\ x \in DOMAIN c <=> x = <<"page", "references">>
             /\ x \in DOMAIN d <=> x \in {<<"adequate", "tls">>, <<"adequate", "headers">>}
  BY <1>3, <1>4, <1>5 DEF About
<1>. QED BY <1>6, <1>7, <1>8

-----------------------------------------------------------------------------
(* The least and the greatest of the places of a sequence. *)

LEMMA LeastIs ==
  ASSUME NEW S, S # {}, S \subseteq Nat
  PROVE  Min(S) \in S /\ \A x \in S : Min(S) <= x
<1>1. PICK x \in S : \A y \in S : ~ (<<y, x>> \in OpToRel(<, Nat))
  BY WFMin, NatLessThanWellFounded
<1>2. ASSUME NEW y \in S PROVE x <= y
  <2>1. CASE y < x
    <3>1. <<y, x>> \in OpToRel(<, Nat)
      BY <2>1 DEF OpToRel
    <3>. QED BY <1>1, <3>1
  <2>. QED BY <2>1
<1>. QED BY <1>2 DEF Min

LEMMA GreatestIs ==
  ASSUME NEW S, S # {}, S \subseteq Nat, NEW n \in Nat, \A x \in S : x <= n
  PROVE  Max(S) \in S /\ \A x \in S : x <= Max(S)
<1>. DEFINE Bounds == {m \in Nat : \A x \in S : x <= m}
<1>1. Min(Bounds) \in Bounds /\ \A m \in Bounds : Min(Bounds) <= m
  <2>1. n \in Bounds /\ Bounds \subseteq Nat
    OBVIOUS
  <2>. HIDE DEF Bounds
  <2>. QED BY <2>1, LeastIs
<1>2. PICK m \in Nat : (\A x \in S : x <= m) /\ \A k \in Bounds : m <= k
  BY <1>1
<1>3. m \in S
  <2>. SUFFICES ASSUME m \notin S PROVE FALSE
    OBVIOUS
  <2>1. \A x \in S : x \in Nat /\ x < m
    BY <1>2
  <2>2. PICK s \in S : TRUE
    OBVIOUS
  <2>. HIDE DEF Bounds
  <2>4. \A x \in S : x <= m - 1
    BY <2>1
  <2>5. m - 1 \in Nat
    BY <2>1, <2>2
  <2>3. m - 1 \in Bounds
    BY <2>4, <2>5 DEF Bounds
  <2>. QED BY <1>2, <2>3
<1>. QED BY <1>2, <1>3 DEF Max

-----------------------------------------------------------------------------
(* Lemmas about the scanners. *)

Scanners == {Plan[i][1] : i \in 1 .. 12}

LEMMA TitlesAre ==
  ASSUME NEW heard
  PROVE  /\ Titles("tls-check", heard) = analyze_tls(heard)
         /\ Titles("security-headers", heard) = analyze_headers(heard)
         /\ Titles("cookie-flags", heard) = heard \cap DOMAIN CookieRules
         /\ Titles("cors-policy", heard) = heard \cap DOMAIN CorsRules
         /\ Titles("dns-hygiene", heard) = {<<"missing", "caa">>}
         /\ Titles("technology-fingerprint", heard) = heard \cap {<<"page", "technology">>}
         /\ Titles("javascript-references", heard) = heard \cap {<<"page", "references">>}
         /\ Titles("public-metadata", heard) = public_metadata(heard)
  BY DEF Titles

LEMMA ScannersAre ==
  Scanners = {"tls-check", "security-headers", "cookie-flags", "cors-policy", "dns-hygiene",
              "technology-fingerprint", "javascript-references", "public-metadata"}
<1>1. \A i \in 1 .. 12 : i \in {1, 2, 3, 4, 5, 6, 7, 8, 9, 10, 11, 12}
  OBVIOUS
<1>. QED BY <1>1, PlanIs DEF Scanners

LEMMA TitlesHaveRules ==
  ASSUME NEW scanner \in Scanners, NEW heard
  PROVE  Titles(scanner, heard) \subseteq DOMAIN Rules
<1>1. <<"tls", "failed">> \in DOMAIN TLSRules
  BY TLSRulesAre DEF Unreachable, About
<1>2. analyze_tls(heard) \subseteq DOMAIN Rules
  BY <1>1, RulesAre DEF analyze_tls, Or
<1>3. analyze_headers(heard) \subseteq DOMAIN Rules
  BY RulesAre DEF analyze_headers, Or
<1>4. public_metadata(heard) \subseteq DOMAIN Rules
  BY RulesAre, MetadataRulesAre DEF public_metadata
<1>5. /\ heard \cap DOMAIN CookieRules \subseteq DOMAIN Rules
      /\ heard \cap DOMAIN CorsRules \subseteq DOMAIN Rules
  BY RulesAre
<1>6. {<<"missing", "caa">>, <<"page", "technology">>, <<"page", "references">>} \subseteq DOMAIN Rules
  BY RulesAre
<1>. QED BY <1>2, <1>3, <1>4, <1>5, <1>6, ScannersAre, TitlesAre

(* What is observed of some titles rates each of them and places it somewhere. *)
Observed(observations, titles) ==
    /\ titles \subseteq AllTitles
    /\ DOMAIN observations.rated = titles
    /\ \A title \in titles : observations.rated[title] \in Rating
    /\ \A place \in observations.places : place.title \in titles /\ place.url \in Addresses
    /\ \A title \in titles : \E place \in observations.places : place.title = title

LEMMA AboutIs ==
  ASSUME NEW kind, NEW names, NEW title \in About(kind, names)
  PROVE  title[1] = kind /\ title[2] \in names /\ title = <<title[1], title[2]>>
  BY DEF About

(* What the rules of each scanner are about. *)
LEMMA KindsAre ==
  /\ \A title \in DOMAIN TLSRules : title[1] \in {"tls", "hsts"}
  /\ \A title \in DOMAIN HeaderRules : title[1] \in {"hsts", "missing", "csp", "leak", "deprecated"}
  /\ \A title \in DOMAIN CookieRules : title[1] = "cookie"
  /\ \A title \in DOMAIN CorsRules : title[1] = "cors"
<1>1. ASSUME NEW title \in DOMAIN TLSRules PROVE title[1] \in {"tls", "hsts"}
  <2>1. CASE title \in Unreachable
    <3>1. title[1] = "tls"
      BY <2>1, AboutIs, Zenon DEF Unreachable
    <3>. QED BY <3>1
  <2>. QED BY <2>1, TLSRulesAre
<1>2. ASSUME NEW title \in DOMAIN HeaderRules
      PROVE  title[1] \in {"hsts", "missing", "csp", "leak", "deprecated"}
  <2>. DEFINE missing == {"csp", "frame options", "nosniff", "referrer policy",
                          "permissions policy", "cache-control"}
              csp == {"unsafe-inline", "unsafe-eval", "data:", "*"}
              leak == {"server", "x-powered-by", "x-aspnet-version", "x-aspnetmvc-version"}
  <2>1. \/ title = <<"hsts", "missing">> \/ title \in About("missing", missing)
        \/ title \in About("csp", csp) \/ title \in About("leak", leak)
        \/ title \in About("deprecated", {"x-xss-protection"})
    BY HeaderRulesAre
  <2>. HIDE DEF missing, csp, leak
  <2>. QED BY <2>1, AboutIs
<1>3. ASSUME NEW title \in DOMAIN CookieRules PROVE title[1] = "cookie"
  BY AboutIs, CookieRulesAre, Zenon
<1>4. ASSUME NEW title \in DOMAIN CorsRules PROVE title[1] = "cors"
  BY AboutIs, CorsRulesAre, Zenon
<1>. QED BY <1>1, <1>2, <1>3, <1>4

LEMMA FilesArePublic ==
  ASSUME NEW title \in DOMAIN Rules, title[1] = "file"
  PROVE  title[2] \in PublicFiles
<1>1. CASE title \in About("file", PublicFiles)
  BY <1>1, AboutIs, Zenon
<1>2. CASE title \in {<<"missing", "security.txt">>, <<"missing", "caa">>, <<"page", "technology">>,
                      <<"page", "references">>, <<"adequate", "tls">>, <<"adequate", "headers">>}
  BY <1>2
<1>. QED BY <1>1, <1>2, RulesAre, MetadataRulesAre, KindsAre

LEMMA ScannersObserve ==
  ASSUME NEW scanner \in Scanners, NEW heard
  PROVE  Observed(Observations(scanner, heard), Titles(scanner, heard))
<1>. DEFINE titles == Titles(scanner, heard)
            o == Observations(scanner, heard)
<1>1. titles \subseteq DOMAIN Rules
  BY TitlesHaveRules
<1>2. o = [rated |-> [title \in titles |-> Rules[title]],
           places |-> {[title |-> title, url |-> IF title[1] = "file" THEN title[2] ELSE "/"] :
                          title \in titles}]
  BY DEF Observations
<1>. HIDE DEF titles, o
<1>3. /\ o.rated = [title \in titles |-> Rules[title]]
      /\ o.places = {[title |-> title, url |-> IF title[1] = "file" THEN title[2] ELSE "/"] :
                        title \in titles}
  BY <1>2
<1>4. \A title \in titles : o.rated[title] \in Rating
  BY <1>1, <1>3, RulesAre DEF Rated
<1>5. \A place \in o.places : place.title \in titles /\ place.url \in Addresses
  <2>. TAKE place \in o.places
  <2>1. PICK title \in titles :
           place = [title |-> title, url |-> IF title[1] = "file" THEN title[2] ELSE "/"]
    BY <1>3
  <2>2. place.title = title /\ place.url = IF title[1] = "file" THEN title[2] ELSE "/"
    BY <2>1
  <2>3. title[1] = "file" => title[2] \in PublicFiles
    BY <1>1, FilesArePublic
  <2>. QED BY <2>2, <2>3 DEF Addresses
<1>6. ASSUME NEW title \in titles PROVE \E place \in o.places : place.title = title
  <2>. DEFINE place == [title |-> title, url |-> IF title[1] = "file" THEN title[2] ELSE "/"]
  <2>1. place \in o.places /\ place.title = title
    BY <1>3
  <2>. QED BY <2>1
<1>7. Observed(o, titles)
  BY <1>1, <1>3, <1>4, <1>5, <1>6 DEF Observed, AllTitles
<1>. QED BY <1>7 DEF titles, o

(* normalize_observations keeps an observation of each title, and only observations. *)
LEMMA NormalizedIs ==
  ASSUME NEW observations, DOMAIN observations \subseteq Nat,
         \A i \in DOMAIN observations : observations[i].confidence \in 0 .. 100
  PROVE  /\ DOMAIN normalize_observations(observations) \subseteq DOMAIN observations
         /\ \A i \in DOMAIN normalize_observations(observations) :
               \E j \in DOMAIN observations : normalize_observations(observations)[i] = observations[j]
         /\ \A j \in DOMAIN observations : \E i \in DOMAIN normalize_observations(observations) :
               normalize_observations(observations)[i].title = observations[j].title
<1>. DEFINE Same(i)   == {j \in DOMAIN observations : /\ observations[j].title = observations[i].title
                                                      /\ observations[j].url = observations[i].url}
            Surest(i) == {j \in Same(i) : \A k \in Same(i) :
                                              observations[k].confidence <= observations[j].confidence}
            kept == normalize_observations(observations)
<1>1. kept = [i \in {i \in DOMAIN observations : i = Min(Same(i))} |-> observations[Min(Surest(i))]]
  BY DEF normalize_observations
<1>2. ASSUME NEW i \in DOMAIN observations PROVE Min(Surest(i)) \in Same(i)
  <2>. DEFINE sure == {observations[k].confidence : k \in Same(i)}
  <2>1. i \in Same(i) /\ Same(i) \subseteq DOMAIN observations
    OBVIOUS
  <2>2. sure # {} /\ sure \subseteq Nat /\ \A x \in sure : x <= 100
    BY <2>1
  <2>3. Max(sure) \in sure /\ \A x \in sure : x <= Max(sure)
    <3>. HIDE DEF sure
    <3>. QED BY <2>2, GreatestIs
  <2>4. PICK j \in Same(i) : Max(sure) = observations[j].confidence
    BY <2>3
  <2>5. j \in Surest(i)
    BY <2>3, <2>4
  <2>6. Surest(i) # {} /\ Surest(i) \subseteq Nat
    BY <2>5, <2>1
  <2>7. Min(Surest(i)) \in Surest(i)
    <3>. HIDE DEF Surest
    <3>. QED BY <2>6, LeastIs
  <2>. QED BY <2>7
<1>3. ASSUME NEW j \in DOMAIN observations
      PROVE  Min(Same(j)) \in Same(j) /\ Same(Min(Same(j))) = Same(j)
  <2>1. Same(j) # {} /\ Same(j) \subseteq Nat
    OBVIOUS
  <2>2. Min(Same(j)) \in Same(j)
    <3>. HIDE DEF Same
    <3>. QED BY <2>1, LeastIs
  <2>. QED BY <2>2
<1>4. ASSUME NEW j \in DOMAIN observations
      PROVE \E i \in DOMAIN kept : kept[i].title = observations[j].title
  <2>1. PICK i \in DOMAIN observations : i = Min(Same(j)) /\ i \in Same(j) /\ i = Min(Same(i))
    BY <1>3
  <2>2. i \in DOMAIN kept /\ kept[i] = observations[Min(Surest(i))]
    <3>. HIDE DEF Same, Surest, kept
    <3>. QED BY <1>1, <2>1
  <2>3. observations[Min(Surest(i))].title = observations[i].title
    BY <1>2
  <2>. QED BY <2>1, <2>2, <2>3
<1>5. ASSUME NEW i \in DOMAIN kept PROVE \E j \in DOMAIN observations : kept[i] = observations[j]
  <2>1. i \in DOMAIN observations /\ kept[i] = observations[Min(Surest(i))]
    BY <1>1
  <2>2. Min(Surest(i)) \in DOMAIN observations
    BY <1>2, <2>1
  <2>. QED BY <2>1, <2>2
<1>6. DOMAIN kept \subseteq DOMAIN observations
  BY <1>1
<1>. QED BY <1>4, <1>5, <1>6

LEMMA ZapObserves ==
  ASSUME NEW here \in SUBSET DOMAIN Alerts
  PROVE  Observed(ZapObservations([i \in here |-> Alerts[i]]), {<<"zap", Alerts[i].alert>> : i \in here})
<1>. DEFINE alerts == [i \in here |-> Alerts[i]]
            titles == {<<"zap", Alerts[i].alert>> : i \in here}
            parsed == parse_zap_report(alerts)
            kept   == normalize_observations(parsed)
            o      == ZapObservations(alerts)
<1>1. PICK n \in Nat : DOMAIN Alerts = 1 .. n
  BY PassiveScanAssumption
<1>2. /\ DOMAIN parsed = here
      /\ \A i \in here :
            parsed[i] = [title |-> <<"zap", alerts[i].alert>>,
                         severity |-> zap_severity(alerts[i]), confidence |-> zap_confidence(alerts[i]),
                         url |-> IF alerts[i].uri = NoAddress THEN "/" ELSE alerts[i].uri]
  BY DEF parse_zap_report
<1>3. \A i \in here : /\ parsed[i].title = <<"zap", Alerts[i].alert>>
                      /\ parsed[i].severity \in DOMAIN Deduction
                      /\ parsed[i].confidence \in 0 .. 100
                      /\ parsed[i].url \in Addresses
  <2>. TAKE i \in here
  <2>1. alerts[i] = Alerts[i]
    OBVIOUS
  <2>. HIDE DEF alerts, parsed
  <2>2. /\ parsed[i].title = <<"zap", Alerts[i].alert>>
        /\ parsed[i].severity = zap_severity(Alerts[i])
        /\ parsed[i].confidence = zap_confidence(Alerts[i])
        /\ parsed[i].url = IF Alerts[i].uri = NoAddress THEN "/" ELSE Alerts[i].uri
    BY <1>2, <2>1
  <2>3. zap_severity(Alerts[i]) \in DOMAIN Deduction
    BY Severities DEF zap_severity, RiskOf
  <2>4. zap_confidence(Alerts[i]) \in 0 .. 100
    BY DEF zap_confidence
  <2>. QED BY <2>2, <2>3, <2>4 DEF Addresses
<1>. HIDE DEF alerts, parsed
<1>4. /\ DOMAIN kept \subseteq here
      /\ \A i \in DOMAIN kept : \E j \in here : kept[i] = parsed[j]
      /\ \A j \in here : \E i \in DOMAIN kept : kept[i].title = parsed[j].title
  BY <1>1, <1>2, <1>3, NormalizedIs
<1>5. o = [rated |-> [title \in {kept[i].title : i \in DOMAIN kept} |->
                         LET last == kept[Max({i \in DOMAIN kept : kept[i].title = title})]
                         IN  [severity |-> last.severity, confidence |-> last.confidence]],
           places |-> {[title |-> kept[i].title, url |-> kept[i].url] : i \in DOMAIN kept}]
  BY DEF ZapObservations, parsed
<1>. HIDE DEF kept, o
<1>6. /\ o.rated = [title \in {kept[i].title : i \in DOMAIN kept} |->
                       LET last == kept[Max({i \in DOMAIN kept : kept[i].title = title})]
                       IN  [severity |-> last.severity, confidence |-> last.confidence]]
      /\ o.places = {[title |-> kept[i].title, url |-> kept[i].url] : i \in DOMAIN kept}
  BY <1>5
<1>7. {kept[i].title : i \in DOMAIN kept} = titles
  <2>1. ASSUME NEW i \in DOMAIN kept PROVE kept[i].title \in titles
    <3>1. PICK j \in here : kept[i] = parsed[j]
      BY <1>4
    <3>2. kept[i].title = <<"zap", Alerts[j].alert>>
      BY <1>3, <3>1
    <3>. QED BY <3>2
  <2>2. ASSUME NEW j \in here
        PROVE <<"zap", Alerts[j].alert>> \in {kept[i].title : i \in DOMAIN kept}
    BY <1>3, <1>4
  <2>. QED BY <2>1, <2>2
<1>8. ASSUME NEW title \in titles PROVE o.rated[title] \in Rating
  <2>. DEFINE those == {i \in DOMAIN kept : kept[i].title = title}
              last == kept[Max(those)]
  <2>1. those # {}
    BY <1>7
  <2>5. those \subseteq 1 .. n
    BY <1>1, <1>4
  <2>6. those \subseteq Nat /\ \A i \in those : i <= n
    <3>. HIDE DEF those
    <3>1. \A i \in 1 .. n : i \in Nat /\ i <= n
      OBVIOUS
    <3>. QED BY <2>5, <3>1
  <2>2. Max(those) \in those
    <3>. HIDE DEF those
    <3>. QED BY <2>1, <2>6, GreatestIs
  <2>3. PICK j \in here : last = parsed[j]
    BY <1>4, <2>2
  <2>4. last.severity \in DOMAIN Deduction /\ last.confidence \in Nat
    BY <1>3, <2>3
  <2>7. o.rated[title] = [severity |-> last.severity, confidence |-> last.confidence]
    BY <1>6, <1>7
  <2>. HIDE DEF last
  <2>. QED BY <2>4, <2>7 DEF Rating
<1>9. \A place \in o.places : place.title \in titles /\ place.url \in Addresses
  <2>. TAKE place \in o.places
  <2>1. PICK i \in DOMAIN kept : place = [title |-> kept[i].title, url |-> kept[i].url]
    BY <1>6
  <2>2. PICK j \in here : kept[i] = parsed[j]
    BY <1>4
  <2>3. place.title = parsed[j].title /\ place.url = parsed[j].url
    BY <2>1, <2>2
  <2>. QED BY <1>3, <2>3
<1>10. ASSUME NEW title \in titles PROVE \E place \in o.places : place.title = title
  <2>1. PICK i \in DOMAIN kept : kept[i].title = title
    BY <1>7
  <2>2. PICK place : place = [title |-> kept[i].title, url |-> kept[i].url]
    OBVIOUS
  <2>3. place \in o.places /\ place.title = title
    BY <1>6, <2>1, <2>2
  <2>. QED BY <2>3
<1>11. titles \subseteq AllTitles
  BY DEF AllTitles, ZapFacts
<1>12. DOMAIN o.rated = titles
  BY <1>6, <1>7
<1>13. Observed(o, titles)
  BY <1>8, <1>9, <1>10, <1>11, <1>12 DEF Observed
<1>. QED BY <1>13 DEF o, alerts

-----------------------------------------------------------------------------
(* The types. *)

LEMMA TablesAre ==
  ASSUME NEW R, NEW rows \in Tables(R)
  PROVE  DOMAIN rows \subseteq AllTitles /\ \A title \in DOMAIN rows : rows[title] \in R
  BY DEF Tables

LEMMA TableOf ==
  ASSUME NEW R, NEW titles \in SUBSET AllTitles, NEW rows \in [titles -> R]
  PROVE  rows \in Tables(R)
  BY DEF Tables

LEMMA UpdatedTable ==
  ASSUME NEW R, NEW rows \in Tables(R), NEW new, DOMAIN new \subseteq AllTitles,
         \A title \in DOMAIN new : new[title] \in R
  PROVE  Updated(rows, new) \in Tables(R)
<1>1. Updated(rows, new) \in [DOMAIN rows \cup DOMAIN new -> R]
  BY TablesAre DEF Updated
<1>2. DOMAIN rows \cup DOMAIN new \in SUBSET AllTitles
  BY TablesAre
<1>. QED BY <1>1, <1>2, TableOf

LEMMA IdleIs ==
  /\ Idle \in Worker /\ Idle.at = 0 /\ Idle.job = NoJob /\ Idle.heard = {} /\ Idle.shown = {}
  /\ DOMAIN Idle.found = {}
<1>1. <<>> \in [{} -> Rating]
  OBVIOUS
<1>2. <<>> \in Tables(Rating)
  BY <1>1, TableOf
<1>3. Idle = [at |-> 0, job |-> NoJob, heard |-> {}, found |-> <<>>, shown |-> {}]
  BY DEF Idle
<1>. QED BY <1>2, <1>3 DEF Worker

LEMMA WorkerIs ==
  ASSUME TypeOK
  PROVE  /\ worker.at \in 0 .. 14 /\ worker.job \in Jobs \cup {NoJob} /\ worker.heard \subseteq Facts
         /\ worker.found \in Tables(Rating) /\ worker.shown \subseteq Evidence
         /\ worker \in Worker
         /\ Scanning <=> worker.at \in 1 .. 13
         /\ Scanning => worker.job \in Jobs
<1>1. worker \in Worker /\ (worker.at # 0 => worker.job \in Jobs)
  BY DEF TypeOK
<1>2. Scanning <=> worker.at \in 1 .. 13
  BY PlanIs DEF Scanning
<1>. QED BY <1>1, <1>2 DEF Worker

(* A scanner has returned what it has found about some titles. *)
Returned(next, titles) ==
    /\ worker' \in Worker
    /\ worker'.at = next /\ worker'.job = worker.job /\ worker'.heard = {}
    /\ DOMAIN worker'.found = DOMAIN worker.found \cup titles
    /\ worker.shown \subseteq worker'.shown
    /\ \A e \in worker'.shown : e \in worker.shown \/ (e.job = worker.job /\ e.title \in titles)
    /\ \A title \in titles : \E e \in worker'.shown : e.title = title

LEMMA ReturnsIs ==
  ASSUME TypeOK, Scanning, NEW next \in 0 .. 14, NEW titles, NEW observations,
         Observed(observations, titles), Returns(next, observations)
  PROVE  Returned(next, titles)
<1>. DEFINE Row(place) == [job |-> worker.job, source |-> Scanner, title |-> place.title, url |-> place.url]
            found == Updated(worker.found, observations.rated)
            shown == worker.shown \cup {Row(place) : place \in observations.places}
<1>1. worker.at \in 1 .. 13 /\ worker.job \in Jobs
  BY WorkerIs
<1>2. Scanner \in {Plan[i][1] : i \in DOMAIN Plan}
  BY <1>1, PlanIs DEF Scanner
<1>3. \A place \in observations.places : Row(place) \in Evidence
  BY <1>1, <1>2 DEF Observed, Evidence
<1>4. \A place \in observations.places :
          Row(place).job = worker.job /\ Row(place).title = place.title
  OBVIOUS
<1>5. found \in Tables(Rating)
  BY WorkerIs, UpdatedTable DEF Observed
<1>6. DOMAIN found = DOMAIN worker.found \cup titles
  BY UpdatedIs DEF Observed
<1>. HIDE DEF Row
<1>7. shown \subseteq Evidence
  BY <1>3, WorkerIs
<1>8. \A e \in shown : e \in worker.shown \/ (e.job = worker.job /\ e.title \in titles)
  BY <1>4 DEF Observed
<1>9. \A title \in titles : \E e \in shown : e.title = title
  BY <1>4 DEF Observed
<1>10. worker' = [worker EXCEPT !.at = next, !.heard = {}, !.found = found, !.shown = shown]
  BY DEF Returns, Row
<1>11. worker.shown \subseteq shown
  OBVIOUS
<1>. HIDE DEF found, shown
<1>12. /\ worker'.at = next /\ worker'.job = worker.job /\ worker'.heard = {}
       /\ worker'.found = found /\ worker'.shown = shown
  BY <1>10, WorkerIs
<1>13. worker' \in Worker
  BY <1>1, <1>5, <1>7, <1>10, WorkerIs DEF Worker
<1>. QED BY <1>6, <1>8, <1>9, <1>11, <1>12, <1>13 DEF Returned

(* A scanner that has heard an answer asks on, or returns. *)
Asks(facts) == worker' = [worker EXCEPT !.at = @ + 1, !.heard = @ \cup facts]

LEMMA AtIs ==
  ASSUME TypeOK, Scanning
  PROVE  /\ LastRequest <=> worker.at \notin {1, 9, 10, 11}
         /\ worker.at <= 11 => StepAfter(worker.at) = worker.at + 1
         /\ worker.at = 12 => StepAfter(worker.at) = IF jobs[worker.job].zap THEN 13 ELSE 14
         /\ Request = "probe" <=> worker.at = 1
         /\ Request = "head" <=> worker.at = 2
         /\ Request = "page" <=> worker.at \in {3, 4, 5, 7, 8}
         /\ Request = "none" <=> worker.at = 6
         /\ Request \in PublicFiles <=> worker.at \in {9, 10, 11, 12}
         /\ Request = "process" <=> worker.at = 13
         /\ worker.at \in 1 .. 12 => Scanner \in Scanners
<1>. DEFINE at == worker.at
<1>1. at \in {1, 2, 3, 4, 5, 6, 7, 8, 9, 10, 11, 12, 13}
  BY WorkerIs
<1>2. LastRequest <=> at \notin {1, 9, 10, 11}
  BY <1>1, PlanIs DEF LastRequest, Scanner
<1>3. /\ at <= 11 => StepAfter(at) = at + 1
      /\ at = 12 => StepAfter(at) = IF jobs[worker.job].zap THEN 13 ELSE 14
  BY <1>1, PlanIs DEF StepAfter
<1>4. /\ Request = "probe" <=> at = 1
      /\ Request = "head" <=> at = 2
      /\ Request = "page" <=> at \in {3, 4, 5, 7, 8}
      /\ Request = "none" <=> at = 6
      /\ Request \in PublicFiles <=> at \in {9, 10, 11, 12}
      /\ Request = "process" <=> at = 13
  BY <1>1, PlanIs DEF Request, PublicFiles
<1>5. at \in 1 .. 12 => Scanner \in Scanners
  BY DEF Scanner, Scanners
<1>. QED BY <1>2, <1>3, <1>4, <1>5

LEMMA HearsIs ==
  ASSUME TypeOK, worker.at \in 1 .. 12, NEW facts, Hears(facts)
  PROVE  /\ worker.at \in {1, 9, 10, 11} => Asks(facts)
         /\ worker.at \notin {1, 9, 10, 11} =>
               Returned(StepAfter(worker.at), Titles(Scanner, worker.heard \cup facts))
<1>1. Scanning
  BY WorkerIs
<1>2. CASE worker.at \in {1, 9, 10, 11}
  BY <1>1, <1>2, AtIs DEF Hears, Asks
<1>3. CASE worker.at \notin {1, 9, 10, 11}
  <2>1. Returns(StepAfter(worker.at), Observations(Scanner, worker.heard \cup facts))
    BY <1>1, <1>3, AtIs DEF Hears
  <2>2. Observed(Observations(Scanner, worker.heard \cup facts), Titles(Scanner, worker.heard \cup facts))
    BY <1>1, AtIs, ScannersObserve
  <2>3. StepAfter(worker.at) \in 0 .. 14
    BY <1>1, AtIs
  <2>. QED BY <1>1, <1>3, <2>1, <2>2, <2>3, ReturnsIs
<1>. QED BY <1>2, <1>3

LEMMA AnswerIs ==
  ASSUME NEW request, NEW facts
  PROVE  Answer(request, facts) \subseteq facts
  BY DEF Answer, Sanitized

LEMMA HearsType ==
  ASSUME TypeOK, worker.at \in 1 .. 12, NEW facts, Hears(facts),
         worker.at \in {1, 9, 10, 11} => facts \subseteq Facts
  PROVE  worker' \in Worker /\ worker'.job \in Jobs
<1>1. worker \in Worker /\ worker.job \in Jobs /\ worker.heard \subseteq Facts
  BY WorkerIs
<1>2. CASE worker.at \in {1, 9, 10, 11}
  <2>1. worker' = [worker EXCEPT !.at = @ + 1, !.heard = @ \cup facts]
    BY <1>2, HearsIs DEF Asks
  <2>2. worker.at + 1 \in 0 .. 14 /\ worker.heard \cup facts \subseteq Facts
    BY <1>1, <1>2
  <2>. QED BY <1>1, <2>1, <2>2 DEF Worker
<1>3. CASE worker.at \notin {1, 9, 10, 11}
  BY <1>1, <1>3, HearsIs DEF Returned
<1>. QED BY <1>2, <1>3

(* Setting the status of the worker's job changes nothing else of the table. *)
LEMMA SetJobIs ==
  ASSUME TypeOK, worker.job \in Jobs, NEW s \in {"COMPLETED", "FAILED"}, SetJob(s)
  PROVE  /\ jobs' \in [Jobs -> Job]
         /\ jobs'[worker.job].status = s /\ jobs'[worker.job].zap = jobs[worker.job].zap
         /\ \A j \in Jobs \ {worker.job} : jobs'[j] = jobs[j]
<1>1. jobs[worker.job] \in Job /\ jobs' = [jobs EXCEPT ![worker.job].status = s]
  BY DEF TypeOK, SetJob
<1>2. PICK row : row = [jobs[worker.job] EXCEPT !.status = s]
  OBVIOUS
<1>3. row \in Job /\ row.status = s /\ row.zap = jobs[worker.job].zap
  BY <1>1, <1>2 DEF Job
<1>4. jobs' = [jobs EXCEPT ![worker.job] = row]
  BY <1>1, <1>2
<1>. QED BY <1>3, <1>4 DEF TypeOK

LEMMA FailsIs ==
  ASSUME TypeOK, Scanning, Fails
  PROVE  /\ worker' = Idle /\ UNCHANGED <<findings, evidence>>
         /\ jobs' \in [Jobs -> Job]
         /\ jobs'[worker.job].status \in {jobs[worker.job].status, "FAILED"}
         /\ jobs'[worker.job].zap = jobs[worker.job].zap
         /\ \A j \in Jobs \ {worker.job} : jobs'[j] = jobs[j]
<1>1. worker.job \in Jobs
  BY WorkerIs
<1>2. CASE jobs' = jobs
  BY <1>1, <1>2 DEF Fails, TypeOK
<1>3. CASE SetJob("FAILED")
  BY <1>1, <1>3, SetJobIs DEF Fails
<1>. QED BY <1>2, <1>3 DEF Fails

LEMMA ClaimIs ==
  ASSUME TypeOK, Claim
  PROVE  \E j \in Jobs :
            /\ jobs[j].status = "PENDING" /\ jobs' \in [Jobs -> Job]
            /\ jobs'[j].status = "RUNNING" /\ \A i \in Jobs \ {j} : jobs'[i] = jobs[i]
            /\ worker = Idle /\ worker' \in Worker /\ worker'.at = 1 /\ worker'.job = j
            /\ worker'.heard = {} /\ worker'.shown = {}
            /\ history' = [job |-> j, ever |-> site, always |-> site, failed |-> {}, killed |-> FALSE]
            /\ history' \in History
            /\ UNCHANGED <<target, site, changes, findings, evidence, triages, zap>>
<1>1. PICK j \in Jobs :
         /\ worker = Idle /\ jobs[j].status = "PENDING"
         /\ jobs' = [jobs EXCEPT ![j].status = "RUNNING"]
         /\ worker' = [Idle EXCEPT !.at = 1, !.job = j]
         /\ history' = [job |-> j, ever |-> site, always |-> site, failed |-> {}, killed |-> FALSE]
         /\ UNCHANGED <<target, site, changes, findings, evidence, triages, zap>>
  BY DEF Claim
<1>2. PICK row : row = [jobs[j] EXCEPT !.status = "RUNNING"]
  OBVIOUS
<1>3. row \in Job /\ row.status = "RUNNING" /\ jobs' = [jobs EXCEPT ![j] = row]
  BY <1>1, <1>2 DEF TypeOK, Job
<1>4. /\ jobs' \in [Jobs -> Job] /\ jobs'[j].status = "RUNNING"
      /\ \A i \in Jobs \ {j} : jobs'[i] = jobs[i]
  BY <1>3 DEF TypeOK
<1>5. /\ worker' \in Worker /\ worker'.at = 1 /\ worker'.job = j
      /\ worker'.heard = {} /\ worker'.shown = {}
  <2>1. PICK local : local = [Idle EXCEPT !.at = 1, !.job = j]
    OBVIOUS
  <2>2. /\ local.at = 1 /\ local.job = j /\ local.heard = Idle.heard /\ local.shown = Idle.shown
        /\ local.found = Idle.found
    BY <2>1, IdleIs DEF Worker
  <2>4. /\ Idle.heard \in SUBSET Facts /\ Idle.found \in Tables(Rating)
        /\ Idle.shown \in SUBSET Evidence
    BY IdleIs DEF Worker
  <2>5. local = [at |-> 1, job |-> j, heard |-> Idle.heard, found |-> Idle.found, shown |-> Idle.shown]
    BY <2>1 DEF Idle
  <2>3. local \in Worker
    BY <2>4, <2>5 DEF Worker
  <2>. QED BY <1>1, <2>1, <2>2, <2>3, IdleIs
<1>6. history' \in History
  BY <1>1 DEF History, TypeOK
<1>. QED BY <1>1, <1>4, <1>5, <1>6

LEMMA EnqueueIs ==
  ASSUME TypeOK, Enqueue
  PROVE  \E j \in Jobs :
            /\ jobs[j].status = "ABSENT" /\ jobs' \in [Jobs -> Job]
            /\ jobs'[j].status = "PENDING" /\ \A i \in Jobs \ {j} : jobs'[i] = jobs[i]
            /\ \A i \in Jobs : jobs[i].status \notin {"PENDING", "RUNNING"}
            /\ UNCHANGED <<target, world, findings, evidence, triages, worker, zap>>
<1>1. PICK j \in Jobs, withZap \in BOOLEAN :
         jobs[j].status = "ABSENT" /\ jobs' = [jobs EXCEPT ![j] = [status |-> "PENDING", zap |-> withZap]]
  BY DEF Enqueue
<1>2. PICK row : row = [status |-> "PENDING", zap |-> withZap]
  OBVIOUS
<1>3. row \in Job /\ row.status = "PENDING" /\ jobs' = [jobs EXCEPT ![j] = row]
  BY <1>1, <1>2 DEF Job
<1>. QED BY <1>1, <1>3 DEF Enqueue, TypeOK

LEMMA TriageIs ==
  ASSUME TypeOK, Triage
  PROVE  /\ findings' \in Tables(Finding) /\ DOMAIN findings' = DOMAIN findings
         /\ triages' = triages + 1
         /\ UNCHANGED <<target, world, jobs, evidence, worker, zap>>
<1>1. PICK title \in DOMAIN findings, status \in Status :
         findings' = [findings EXCEPT ![title].status = status]
  BY DEF Triage, Status
<1>2. PICK titles \in SUBSET AllTitles : findings \in [titles -> Finding]
  BY DEF TypeOK, Tables
<1>3. PICK row : row = [findings[title] EXCEPT !.status = status]
  OBVIOUS
<1>4. row \in Finding /\ findings' = [findings EXCEPT ![title] = row]
  BY <1>1, <1>2, <1>3 DEF Finding
<1>5. findings' \in [titles -> Finding]
  BY <1>2, <1>4
<1>. QED BY <1>2, <1>5, TableOf DEF Triage

(* The rows of the commit. *)
LEMMA CompleteIs ==
  ASSUME TypeOK, Complete
  PROVE  /\ findings' \in Tables(Finding) /\ evidence' = evidence \cup worker.shown
         /\ DOMAIN findings' = DOMAIN findings \cup DOMAIN worker.found
         /\ \A title \in DOMAIN findings : findings'[title].status = findings[title].status
         /\ worker.at = 14 /\ worker.job \in Jobs /\ worker' = Idle
         /\ jobs' \in [Jobs -> Job] /\ jobs'[worker.job].status = "COMPLETED"
         /\ jobs'[worker.job].zap = jobs[worker.job].zap
         /\ \A j \in Jobs \ {worker.job} : jobs'[j] = jobs[j]
         /\ UNCHANGED <<target, world, triages, zap>>
<1>. DEFINE rows == [title \in DOMAIN worker.found |->
               [severity |-> worker.found[title].severity,
                confidence |-> worker.found[title].confidence,
                status |-> IF title \in DOMAIN findings THEN findings[title].status ELSE "OPEN"]]
<1>1. /\ worker.at = 14 /\ worker.job \in Jobs /\ worker.found \in Tables(Rating)
      /\ findings \in Tables(Finding)
  BY WorkerIs, PlanIs DEF Complete, TypeOK
<1>2. \A title \in DOMAIN worker.found : worker.found[title] \in Rating
  BY <1>1, TablesAre
<1>3. \A title \in DOMAIN findings : findings[title] \in Finding
  BY <1>1, TablesAre
<1>4. \A title \in DOMAIN worker.found :
         /\ rows[title] \in Finding
         /\ title \in DOMAIN findings => rows[title].status = findings[title].status
  BY <1>2, <1>3 DEF Rating, Finding, Status
<1>5. DOMAIN rows = DOMAIN worker.found /\ DOMAIN worker.found \subseteq AllTitles
  BY <1>1, TablesAre
<1>6. findings' = Updated(findings, rows)
  BY DEF Complete
<1>. HIDE DEF rows
<1>7. findings' \in Tables(Finding)
  BY <1>1, <1>4, <1>5, <1>6, UpdatedTable
<1>8. DOMAIN findings' = DOMAIN findings \cup DOMAIN worker.found
  BY <1>5, <1>6 DEF Updated
<1>9. \A title \in DOMAIN findings : findings'[title].status = findings[title].status
  BY <1>4, <1>5, <1>6 DEF Updated
<1>10. SetJob("COMPLETED")
  BY DEF Complete
<1>. QED BY <1>1, <1>7, <1>8, <1>9, <1>10, SetJobIs DEF Complete

(* Every variable keeps its type: the tables rate titles of rules and alerts, the worker is
   at a place of its plan with a job of its own, and nothing is heard that is no fact. *)
THEOREM TypeCorrect == Spec => []TypeOK
<1>1. Init => TypeOK
  <2>. SUFFICES ASSUME Init PROVE TypeOK
    OBVIOUS
  <2>1. jobs \in [Jobs -> Job]
    BY DEF Init, Job
  <2>2. findings \in Tables(Finding)
    <3>1. <<>> \in [{} -> Finding]
      OBVIOUS
    <3>. QED BY <3>1, TableOf DEF Init
  <2>3. history \in History
    BY DEF Init, History
  <2>4. worker \in Worker /\ worker.at = 0
    BY IdleIs DEF Init
  <2>. QED BY <2>1, <2>2, <2>3, <2>4 DEF Init, TypeOK
<1>2. TypeOK /\ [Next]_vars => TypeOK'
  <2>. SUFFICES ASSUME TypeOK, [Next]_vars PROVE TypeOK'
    OBVIOUS
  <2>. USE DEF target, world, database, zap
  <2>1. ASSUME NEW facts, worker.at \in 1 .. 12, Hears(facts),
               worker.at \in {1, 9, 10, 11} => facts \subseteq Facts,
               history' = history \/ history' = [history EXCEPT !.failed = @ \cup {"head"}],
               UNCHANGED <<target, site, changes, database, triages, zap>>
        PROVE  TypeOK'
    <3>1. worker' \in Worker /\ worker'.job \in Jobs
      BY <2>1, HearsType
    <3>2. history' \in History
      BY <2>1 DEF TypeOK, History
    <3>. QED BY <2>1, <3>1, <3>2 DEF TypeOK
  <2>2. CASE Probe \/ ReadHsts \/ Get
    <3>1. /\ worker.at \in 1 .. 12 /\ Hears(Answer(Request, site))
          /\ UNCHANGED <<target, world, database, triages, zap>>
      BY <2>2, AtIs, WorkerIs DEF Probe, ReadHsts, Get
    <3>2. Answer(Request, site) \subseteq Facts
      BY AnswerIs DEF TypeOK
    <3>. QED BY <2>1, <3>1, <3>2
  <2>3. CASE ReadMetadata
    <3>1. worker.at = 6 /\ Hears({}) /\ UNCHANGED <<target, world, database, triages, zap>>
      BY <2>3, AtIs DEF ReadMetadata
    <3>. QED BY <2>1, <3>1
  <2>4. CASE HstsUnread
    <3>1. worker.at = 2 /\ Hears({<<"hsts", "missing">>})
      BY <2>4, AtIs DEF HstsUnread
    <3>. QED BY <2>1, <2>4, <3>1 DEF HstsUnread
  <2>5. CASE ProbeFails
    <3>1. Scanning /\ worker.at = 1 /\ "tls-check" \in Scanners
      BY <2>5, AtIs, ScannersAre DEF ProbeFails
    <3>2. Returned(3, Titles("tls-check", {<<"tls", "failed">>}))
      BY <2>5, <3>1, ScannersObserve, ReturnsIs DEF ProbeFails
    <3>3. worker' \in Worker /\ worker'.job \in Jobs
      BY <3>1, <3>2, WorkerIs DEF Returned
    <3>4. history' \in History
      BY <2>5 DEF ProbeFails, TypeOK, History
    <3>. QED BY <2>5, <3>3, <3>4 DEF TypeOK, ProbeFails
  <2>6. CASE ZapReports
    <3>. DEFINE here == {i \in DOMAIN Alerts : <<"zap", Alerts[i].alert>> \in site}
                titles == {<<"zap", Alerts[i].alert>> : i \in here}
    <3>1. Scanning /\ Returns(14, ZapObservations([i \in here |-> Alerts[i]]))
      BY <2>6, PlanIs DEF ZapReports, AtZap
    <3>2. Observed(ZapObservations([i \in here |-> Alerts[i]]), titles)
      BY ZapObserves
    <3>. HIDE DEF here, titles
    <3>3. Returned(14, titles)
      BY <3>1, <3>2, ReturnsIs
    <3>4. worker' \in Worker /\ worker'.job \in Jobs
      BY <3>1, <3>3, WorkerIs DEF Returned
    <3>. QED BY <2>6, <3>4 DEF TypeOK, ZapReports
  <2>7. CASE Raises \/ ZapUnavailable \/ ZapFails \/ ZapTimesOut
    <3>1. Scanning /\ Fails
      BY <2>7 DEF Raises, ZapUnavailable, ZapFails, ZapTimesOut, AtZap
    <3>2. worker' = Idle /\ jobs' \in [Jobs -> Job] /\ UNCHANGED <<findings, evidence>>
      BY <3>1, FailsIs
    <3>3. child' \in BOOLEAN /\ engine' \in BOOLEAN
      BY <2>7 DEF Raises, ZapUnavailable, ZapFails, ZapTimesOut, TypeOK
    <3>. QED BY <2>7, <3>2, <3>3, IdleIs DEF TypeOK, Raises, ZapUnavailable, ZapFails, ZapTimesOut
  <2>8. CASE StorageFails \/ Crash
    <3>1. worker' = Idle /\ UNCHANGED <<target, site, changes, database, triages, zap>>
      BY <2>8 DEF StorageFails, Crash
    <3>2. history' \in History
      BY <2>8 DEF StorageFails, Crash, TypeOK, History
    <3>. QED BY <3>1, <3>2, IdleIs DEF TypeOK
  <2>9. CASE Claim
    <3>1. /\ jobs' \in [Jobs -> Job] /\ worker' \in Worker /\ worker'.job \in Jobs
          /\ history' \in History
          /\ UNCHANGED <<target, site, changes, findings, evidence, triages, zap>>
      BY <2>9, ClaimIs
    <3>. QED BY <3>1 DEF TypeOK
  <2>10. CASE Complete
    <3>1. evidence' \subseteq Evidence
      BY <2>10, CompleteIs, WorkerIs DEF TypeOK
    <3>. QED BY <2>10, <3>1, CompleteIs, IdleIs DEF TypeOK
  <2>11. CASE Enqueue
    BY <2>11, EnqueueIs DEF TypeOK
  <2>12. CASE Triage
    <3>1. triages' \in Nat
      BY <2>12, TriageIs DEF TypeOK
    <3>. QED BY <2>12, <3>1, TriageIs DEF TypeOK
  <2>13. CASE SiteChanges
    <3>1. PICK next \in SUBSET Facts :
             /\ site' = next
             /\ history' = IF worker = Idle THEN history
                           ELSE [history EXCEPT !.ever = @ \cup next, !.always = @ \cap next]
      BY <2>13 DEF SiteChanges, TypeOK
    <3>2. history' \in History
      BY <3>1 DEF TypeOK, History
    <3>3. changes' \in Nat
      BY <2>13 DEF SiteChanges, TypeOK
    <3>. QED BY <2>13, <3>1, <3>2, <3>3 DEF TypeOK, SiteChanges
  <2>14. CASE StartZap \/ OrphanEnds
    BY <2>14 DEF TypeOK, StartZap, OrphanEnds
  <2>15. CASE UNCHANGED vars
    BY <2>15 DEF TypeOK, vars
  <2>. QED BY <2>2, <2>3, <2>4, <2>5, <2>6, <2>7, <2>8, <2>9, <2>10, <2>11, <2>12, <2>13, <2>14, <2>15
       DEF Next, RunOnce, Zap
<1>. QED BY <1>1, <1>2, PTL DEF Spec

-----------------------------------------------------------------------------
(* The steps of the scanners. *)

(* What a scanner finds when it returns, at each place of the plan. *)
Finds(next, titles) ==
    \/ /\ worker.at = 1 /\ next = 3 /\ titles = {<<"tls", "failed">>}
       /\ history'.failed = history.failed \cup {"probe"}
    \/ /\ worker.at = 2 /\ next = 3 /\ Handshake
       /\ titles = analyze_tls(worker.heard \cup Answer("head", site))
    \/ /\ worker.at = 2 /\ next = 3
       /\ titles = analyze_tls(worker.heard \cup {<<"hsts", "missing">>})
       /\ history'.failed = history.failed \cup {"head"}
    \/ /\ worker.at \in 3 .. 8 \cup {12} /\ next = StepAfter(worker.at)
       /\ titles = Titles(Scanner, worker.heard \cup Answer(Request, site))
    \/ /\ worker.at = 13 /\ next = 14
       /\ titles = {fact \in ZapFacts : fact \in site}

Scans == Probe \/ ProbeFails \/ ReadHsts \/ HstsUnread \/ Get \/ ReadMetadata \/ ZapReports

LEMMA HistoryIs ==
  ASSUME TypeOK, NEW requests, history' = [history EXCEPT !.failed = @ \cup requests]
  PROVE  /\ history'.job = history.job /\ history'.killed = history.killed
         /\ history'.ever = history.ever /\ history'.always = history.always
         /\ history'.failed = history.failed \cup requests
  BY DEF TypeOK, History

LEMMA ScansAre ==
  ASSUME TypeOK, Scans
  PROVE  /\ UNCHANGED <<target, site, changes, database, triages>>
         /\ history'.job = history.job /\ history'.killed = history.killed
         /\ history'.ever = history.ever /\ history'.always = history.always
         /\ history.failed \subseteq history'.failed
         /\ worker.at \in 1 .. 13
         /\ worker.at # 13 => UNCHANGED zap
         /\ worker.at = 13 => child' = FALSE
         /\ \/ /\ worker.at \in {1, 9, 10, 11} /\ Asks(Answer(Request, site))
               /\ worker.at = 1 => Handshake
            \/ \E next, titles : Returned(next, titles) /\ Finds(next, titles)
<1>. DEFINE Same == /\ UNCHANGED <<target, site, changes, database, triages>>
                    /\ history'.job = history.job /\ history'.killed = history.killed
                    /\ history'.ever = history.ever /\ history'.always = history.always
                    /\ history.failed \subseteq history'.failed
                    /\ worker.at # 13 => UNCHANGED zap
                    /\ worker.at = 13 => child' = FALSE
            Step == \/ /\ worker.at \in {1, 9, 10, 11} /\ Asks(Answer(Request, site))
                       /\ worker.at = 1 => Handshake
                    \/ \E next, titles : Returned(next, titles) /\ Finds(next, titles)
<1>. SUFFICES Same /\ worker.at \in 1 .. 13 /\ Step
  OBVIOUS
<1>. USE DEF world
<1>1. Scanning
  BY DEF Scans, Probe, ProbeFails, ReadHsts, HstsUnread, Get, ReadMetadata, ZapReports, AtZap
<1>2. worker.at \in 1 .. 13
  BY <1>1, WorkerIs
<1>3. CASE Probe
  <2>1. /\ worker.at = 1 /\ Handshake /\ Hears(Answer(Request, site))
        /\ UNCHANGED <<target, world, database, triages, zap>>
    BY <1>1, <1>3, AtIs DEF Probe
  <2>. QED BY <1>2, <2>1, HearsIs
<1>4. CASE ProbeFails
  <2>1. worker.at = 1 /\ "tls-check" \in Scanners
    BY <1>1, <1>4, AtIs, ScannersAre DEF ProbeFails
  <2>2. Observed(Observations("tls-check", {<<"tls", "failed">>}), Titles("tls-check", {<<"tls", "failed">>}))
    BY <2>1, ScannersObserve
  <2>3. Titles("tls-check", {<<"tls", "failed">>}) = {<<"tls", "failed">>}
    BY TitlesAre DEF analyze_tls
  <2>4. Returned(3, {<<"tls", "failed">>})
    BY <1>1, <1>4, <2>1, <2>2, <2>3, ReturnsIs DEF ProbeFails
  <2>5. Same /\ history'.failed = history.failed \cup {"probe"}
    BY <1>4, <2>1, HistoryIs DEF ProbeFails
  <2>6. Finds(3, {<<"tls", "failed">>})
    BY <2>1, <2>5 DEF Finds
  <2>. QED BY <1>2, <2>4, <2>5, <2>6
<1>5. CASE ReadHsts
  <2>1. /\ worker.at = 2 /\ Handshake /\ Hears(Answer("head", site))
        /\ UNCHANGED <<target, world, database, triages, zap>>
    BY <1>1, <1>5, AtIs DEF ReadHsts
  <2>2. Returned(3, analyze_tls(worker.heard \cup Answer("head", site)))
    BY <1>1, <2>1, AtIs, HearsIs, PlanIs, TitlesAre DEF Scanner
  <2>3. Finds(3, analyze_tls(worker.heard \cup Answer("head", site)))
    BY <2>1 DEF Finds
  <2>. QED BY <1>2, <2>1, <2>2, <2>3
<1>6. CASE HstsUnread
  <2>1. worker.at = 2 /\ Hears({<<"hsts", "missing">>})
    BY <1>1, <1>6, AtIs DEF HstsUnread
  <2>2. Returned(3, analyze_tls(worker.heard \cup {<<"hsts", "missing">>}))
    BY <1>1, <2>1, AtIs, HearsIs, PlanIs, TitlesAre DEF Scanner
  <2>3. Same /\ history'.failed = history.failed \cup {"head"}
    BY <1>6, <2>1, HistoryIs DEF HstsUnread
  <2>4. Finds(3, analyze_tls(worker.heard \cup {<<"hsts", "missing">>}))
    BY <2>1, <2>3 DEF Finds
  <2>. QED BY <1>2, <2>2, <2>3, <2>4
<1>7. CASE Get \/ ReadMetadata
  <2>1. /\ worker.at \in 3 .. 12 /\ Hears(Answer(Request, site))
        /\ UNCHANGED <<target, world, database, triages, zap>>
    <3>1. CASE Get
      BY <1>1, <3>1, AtIs DEF Get
    <3>2. CASE ReadMetadata
      <4>1. worker.at = 6 /\ Answer(Request, site) = {}
        BY <1>1, <3>2, AtIs DEF ReadMetadata, Answer, PublicFiles
      <4>. QED BY <3>2, <4>1 DEF ReadMetadata
    <3>. QED BY <1>7, <3>1, <3>2
  <2>4. Same
    BY <2>1
  <2>2. CASE worker.at \in {9, 10, 11}
    <3>1. worker.at \in 1 .. 12 /\ worker.at \in {1, 9, 10, 11} /\ worker.at # 1
      BY <2>2
    <3>2. Asks(Answer(Request, site))
      BY <2>1, <3>1, HearsIs
    <3>. QED BY <2>4, <3>1, <3>2
  <2>3. CASE worker.at \in 3 .. 8 \cup {12}
    <3>1. Returned(StepAfter(worker.at), Titles(Scanner, worker.heard \cup Answer(Request, site)))
      BY <2>1, <2>3, HearsIs
    <3>2. Finds(StepAfter(worker.at), Titles(Scanner, worker.heard \cup Answer(Request, site)))
      BY <2>3 DEF Finds
    <3>3. Step
      BY <3>1, <3>2
    <3>. QED BY <1>2, <2>4, <3>3
  <2>5. worker.at \in {9, 10, 11} \/ worker.at \in 3 .. 8 \cup {12}
    BY <2>1
  <2>. QED BY <2>2, <2>3, <2>5
<1>8. CASE ZapReports
  <2>. DEFINE here == {i \in DOMAIN Alerts : <<"zap", Alerts[i].alert>> \in site}
              titles == {<<"zap", Alerts[i].alert>> : i \in here}
  <2>1. worker.at = 13 /\ Returns(14, ZapObservations([i \in here |-> Alerts[i]]))
    BY <1>1, <1>8, AtIs, PlanIs DEF ZapReports, AtZap
  <2>2. Observed(ZapObservations([i \in here |-> Alerts[i]]), titles)
    BY ZapObserves
  <2>3. titles = {fact \in ZapFacts : fact \in site}
    BY DEF ZapFacts
  <2>. HIDE DEF here, titles
  <2>4. Returned(14, titles)
    BY <1>1, <2>1, <2>2, ReturnsIs
  <2>5. Finds(14, titles)
    BY <2>1, <2>3 DEF Finds
  <2>. QED BY <1>2, <1>8, <2>1, <2>4, <2>5 DEF ZapReports
<1>. QED BY <1>3, <1>4, <1>5, <1>6, <1>7, <1>8 DEF Scans

(* The others that end, or leave alone, what the worker does. *)
Ends == Raises \/ ZapUnavailable \/ ZapFails \/ ZapTimesOut

LEMMA EndsAre ==
  ASSUME TypeOK, Ends
  PROVE  /\ Scanning /\ worker' = Idle /\ UNCHANGED <<target, world, findings, evidence, triages>>
         /\ worker.at # 13 => UNCHANGED zap
         /\ worker.at = 13 => child' = FALSE
         /\ jobs' \in [Jobs -> Job]
         /\ jobs'[worker.job].status \in {jobs[worker.job].status, "FAILED"}
         /\ jobs'[worker.job].zap = jobs[worker.job].zap
         /\ \A j \in Jobs \ {worker.job} : jobs'[j] = jobs[j]
<1>1. Scanning /\ Fails
  BY DEF Ends, Raises, ZapUnavailable, ZapFails, ZapTimesOut, AtZap
<1>2. UNCHANGED <<target, world, triages>>
  BY DEF Ends, Raises, ZapUnavailable, ZapFails, ZapTimesOut
<1>3. /\ worker.at # 13 => UNCHANGED zap
      /\ worker.at = 13 => child' = FALSE
  <2>1. CASE Raises
    <3>1. worker.at # 13
      BY <1>1, <2>1, AtIs DEF Raises
    <3>. QED BY <2>1, <3>1 DEF Raises
  <2>2. CASE ZapUnavailable \/ ZapFails \/ ZapTimesOut
    <3>1. worker.at = 13
      BY <1>1, <2>2, AtIs DEF ZapUnavailable, ZapFails, ZapTimesOut, AtZap
    <3>2. child' = FALSE
      BY <2>2 DEF ZapUnavailable, ZapFails, ZapTimesOut, zap, TypeOK
    <3>. QED BY <3>1, <3>2
  <2>. QED BY <2>1, <2>2 DEF Ends
<1>. QED BY <1>1, <1>2, <1>3, FailsIs

-----------------------------------------------------------------------------
(* The job of the worker. *)

ProcessInv == JobInv /\ ChildGone

LEMMA FindsNext ==
  ASSUME TypeOK, JobInv, NEW next, NEW titles, Finds(next, titles)
  PROVE  /\ next \in 3 .. 14 /\ next > worker.at
         /\ next = 13 => jobs[worker.job].zap
<1>1. CASE worker.at \in {1, 2, 13}
  BY <1>1 DEF Finds
<1>2. CASE worker.at \in 3 .. 8 \cup {12}
  <2>1. next = StepAfter(worker.at) /\ Scanning
    BY <1>2, WorkerIs DEF Finds
  <2>. QED BY <1>2, <2>1, AtIs
<1>. QED BY <1>1, <1>2 DEF Finds

(* The worker's job is the only active one, and a killed worker's job stays active: only
   then may a process be there that no worker waits for. *)
LEMMA OneJobActive == Spec => []ProcessInv
<1>1. Init => ProcessInv
  BY IdleIs DEF Init, ProcessInv, JobInv, ChildGone, IsActive
<1>2. TypeOK /\ ProcessInv /\ [Next]_vars => ProcessInv'
  <2>. SUFFICES ASSUME TypeOK, ProcessInv, [Next]_vars PROVE ProcessInv'
    OBVIOUS
  <2>. USE DEF target, world, database, zap
  <2>1. JobInv /\ ChildGone
    BY DEF ProcessInv
  <2>2. AtZap <=> worker.at = 13
    BY AtIs, WorkerIs DEF AtZap
  <2>3. CASE Scans
    <3>1. /\ UNCHANGED <<jobs, evidence>> /\ worker.at \in 1 .. 13
          /\ history'.job = history.job /\ history'.killed = history.killed
          /\ worker.at # 13 => child' = child
          /\ worker.at = 13 => child' = FALSE
      BY <2>3, ScansAre
    <3>2. /\ worker'.job = worker.job /\ worker'.at \in 1 .. 14
          /\ \A e \in worker'.shown : e.job = worker'.job
          /\ worker'.at = 13 => jobs[worker.job].zap
      <4>1. CASE worker.at \in {1, 9, 10, 11} /\ Asks(Answer(Request, site))
        BY <2>1, <4>1, WorkerIs DEF Asks, JobInv, Worker
      <4>2. CASE \E next, titles : Returned(next, titles) /\ Finds(next, titles)
        BY <2>1, <4>2, FindsNext DEF Returned, JobInv
      <4>. QED BY <2>3, <4>1, <4>2, ScansAre
    <3>3. JobInv'
      BY <2>1, <3>1, <3>2 DEF JobInv, IsActive
    <3>4. ChildGone'
      BY <2>1, <2>2, <3>1 DEF ChildGone
    <3>. QED BY <3>3, <3>4 DEF ProcessInv
  <2>4. CASE Ends
    <3>1. /\ worker.at \in 1 .. 13 /\ worker.job \in Jobs /\ worker' = Idle
          /\ UNCHANGED <<history, evidence>>
          /\ worker.at # 13 => child' = child
          /\ worker.at = 13 => child' = FALSE
          /\ jobs'[worker.job].status \in {jobs[worker.job].status, "FAILED"}
          /\ \A j \in Jobs \ {worker.job} : jobs'[j] = jobs[j]
      BY <2>4, EndsAre, WorkerIs
    <3>2. jobs[worker.job].status = "RUNNING" /\ ~history.killed /\ history.job = worker.job
      BY <2>1, <3>1 DEF JobInv
    <3>3. JobInv'
      <4>1. \A i, j \in Jobs : IsActive(i)' /\ IsActive(j)' => i = j
        BY <2>1, <3>1, <3>2 DEF JobInv, IsActive
      <4>2. \A e \in evidence : jobs'[e.job].status = "COMPLETED"
        BY <2>1, <3>1, <3>2 DEF JobInv, TypeOK, Evidence
      <4>. QED BY <3>1, <3>2, <4>1, <4>2, IdleIs DEF JobInv
    <3>4. ChildGone'
      BY <2>1, <2>2, <3>1, <3>2 DEF ChildGone
    <3>. QED BY <3>3, <3>4 DEF ProcessInv
  <2>5. CASE StorageFails \/ Crash
    <3>1. /\ worker' = Idle /\ UNCHANGED <<jobs, evidence, child>> /\ history'.job = history.job
          /\ worker.at # 0
      BY <2>5, <2>1, IdleIs, WorkerIs, PlanIs DEF StorageFails, Crash, TypeOK, History, JobInv
    <3>2. \/ Crash /\ history'.killed
          \/ history' = history /\ worker.at # 13
      BY <2>5, AtIs, PlanIs DEF StorageFails, Crash, TypeOK, History
    <3>3. JobInv'
      BY <2>1, <3>1, <3>2, IdleIs DEF JobInv, IsActive
    <3>4. ChildGone'
      BY <2>1, <2>2, <3>1, <3>2 DEF ChildGone
    <3>. QED BY <3>3, <3>4 DEF ProcessInv
  <2>6. CASE Claim
    <3>1. PICK j \in Jobs :
             /\ jobs[j].status = "PENDING"
             /\ jobs'[j].status = "RUNNING" /\ \A i \in Jobs \ {j} : jobs'[i] = jobs[i]
             /\ worker = Idle /\ worker'.at = 1 /\ worker'.job = j /\ worker'.shown = {}
             /\ history'.job = j /\ ~history'.killed /\ UNCHANGED <<evidence, child>>
      BY <2>6, ClaimIs
    <3>2. ~history.killed
      BY <2>1, <3>1 DEF JobInv, IsActive
    <3>3. ~child
      BY <2>1, <2>2, <3>1, <3>2, IdleIs DEF ChildGone
    <3>4. JobInv'
      <4>1. \A i, k \in Jobs : IsActive(i)' /\ IsActive(k)' => i = k
        BY <2>1, <3>1 DEF JobInv, IsActive
      <4>2. \A e \in evidence : jobs'[e.job].status = "COMPLETED"
        BY <2>1, <3>1 DEF JobInv, TypeOK, Evidence
      <4>. QED BY <3>1, <4>1, <4>2 DEF JobInv
    <3>5. ChildGone'
      BY <3>1, <3>3 DEF ChildGone
    <3>. QED BY <3>4, <3>5 DEF ProcessInv
  <2>7. CASE Complete
    <3>1. /\ worker.at = 14 /\ worker.job \in Jobs /\ worker' = Idle
          /\ jobs'[worker.job].status = "COMPLETED"
          /\ \A j \in Jobs \ {worker.job} : jobs'[j] = jobs[j]
          /\ evidence' = evidence \cup worker.shown /\ UNCHANGED <<history, child>>
      BY <2>7, CompleteIs
    <3>2. history.job = worker.job /\ ~history.killed /\ jobs[worker.job].status = "RUNNING"
      BY <2>1, <3>1 DEF JobInv
    <3>3. JobInv'
      <4>1. \A i, j \in Jobs : IsActive(i)' /\ IsActive(j)' => i = j
        BY <2>1, <3>1, <3>2 DEF JobInv, IsActive
      <4>2. \A e \in evidence' : jobs'[e.job].status = "COMPLETED"
        BY <2>1, <3>1, <3>2 DEF JobInv, TypeOK, Evidence
      <4>. QED BY <3>1, <3>2, <4>1, <4>2, IdleIs DEF JobInv
    <3>4. ChildGone'
      BY <2>1, <2>2, <3>1, <3>2 DEF ChildGone
    <3>. QED BY <3>3, <3>4 DEF ProcessInv
  <2>8. CASE Enqueue
    <3>1. PICK j \in Jobs :
             /\ jobs[j].status = "ABSENT"
             /\ jobs'[j].status = "PENDING" /\ \A i \in Jobs \ {j} : jobs'[i] = jobs[i]
             /\ \A i \in Jobs : jobs[i].status \notin {"PENDING", "RUNNING"}
             /\ UNCHANGED <<history, evidence, worker, child>>
      BY <2>8, EnqueueIs
    <3>2. worker.at = 0 /\ ~history.killed
      BY <2>1, <3>1 DEF JobInv, TypeOK
    <3>3. JobInv'
      <4>1. \A i, k \in Jobs : IsActive(i)' /\ IsActive(k)' => i = k
        BY <2>1, <3>1 DEF JobInv, IsActive
      <4>2. \A e \in evidence : jobs'[e.job].status = "COMPLETED"
        BY <2>1, <3>1 DEF JobInv, TypeOK, Evidence
      <4>3. history.job # NoJob => jobs'[history.job] = jobs[history.job]
        BY <2>1, <3>1 DEF JobInv, TypeOK, History
      <4>. QED BY <2>1, <3>1, <3>2, <4>1, <4>2, <4>3 DEF JobInv
    <3>4. ChildGone'
      BY <2>1, <2>2, <3>1, <3>2 DEF ChildGone, AtZap, Scanning, Request
    <3>. QED BY <3>3, <3>4 DEF ProcessInv
  <2>9. CASE SiteChanges \/ Triage \/ StartZap \/ OrphanEnds \/ UNCHANGED vars
    <3>1. /\ UNCHANGED <<jobs, evidence, worker>>
          /\ history'.job = history.job /\ history'.killed = history.killed
      BY <2>9 DEF SiteChanges, Triage, StartZap, OrphanEnds, vars, TypeOK, History
    <3>2. child' => child \/ AtZap
      BY <2>9 DEF SiteChanges, Triage, StartZap, OrphanEnds, vars
    <3>3. JobInv'
      BY <2>1, <3>1 DEF JobInv, IsActive
    <3>4. ChildGone'
      BY <2>1, <3>1, <3>2 DEF ChildGone, AtZap, Scanning, Request
    <3>. QED BY <3>3, <3>4 DEF ProcessInv
  <2>. QED BY <2>3, <2>4, <2>5, <2>6, <2>7, <2>8, <2>9 DEF Next, RunOnce, Zap, Scans, Ends
<1>. QED BY <1>1, <1>2, TypeCorrect, PTL DEF Spec

(* No process outlives the scan that started it, unless the worker was killed, however the
   scan ends: run_zap_baseline kills what it does not wait for. *)
THEOREM ChildrenGo == Spec => []ChildGone
<1>1. ProcessInv => ChildGone
  BY DEF ProcessInv
<1>. QED BY <1>1, OneJobActive, PTL

-----------------------------------------------------------------------------
(* What the scanners have heard. *)

LEMMA AnswersAre ==
  ASSUME NEW facts
  PROVE  /\ Answer("probe", facts) = {fact \in facts : fact[1] = "tls"}
         /\ Answer("head", facts) = {fact \in facts : fact[1] = "hsts"}
         /\ Answer("page", facts) = {fact \in facts : fact[1] \notin {"tls", "file", "zap", "cookie"}}
         /\ \A request \in PublicFiles : Answer(request, facts) = facts \cap {<<"file", request>>}
<1>1. \A request \in PublicFiles : request \notin {"probe", "head", "page"}
  BY DEF PublicFiles
<1>2. Answer("page", facts) = {fact \in facts : fact[1] \notin {"tls", "file", "zap", "cookie"}}
  <2>1. Answer("page", facts) = Sanitized({fact \in facts : fact[1] \notin {"tls", "file", "zap"}})
    BY <1>1 DEF Answer
  <2>. QED BY <2>1 DEF Sanitized
<1>. QED BY <1>1, <1>2 DEF Answer

LEMMA UnreachableIs ==
  ASSUME NEW fact \in Unreachable
  PROVE  fact[1] = "tls"
  BY AboutIs, Zenon DEF Unreachable

(* The changes of the site, as the scan sees them. *)
LEMMA SiteChangesIs ==
  ASSUME TypeOK, JobInv, SiteChanges
  PROVE  /\ UNCHANGED <<target, database, triages, worker, zap>>
         /\ history'.job = history.job /\ history'.failed = history.failed
         /\ worker.at = 0 => history' = history
         /\ worker.at # 0 => /\ history'.ever = history.ever \cup site'
                             /\ history'.always = history.always \cap site'
<1>1. UNCHANGED <<target, database, triages, worker, zap>>
  BY DEF SiteChanges
<1>2. history' = IF worker = Idle THEN history
                 ELSE [history EXCEPT !.ever = @ \cup site', !.always = @ \cap site']
  BY DEF SiteChanges
<1>3. worker.at = 0 <=> worker = Idle
  BY IdleIs DEF JobInv
<1>. QED BY <1>1, <1>2, <1>3 DEF TypeOK, History

LEMMA HeardIsSo == Spec => []HeardInv
<1>1. Init => HeardInv
  BY IdleIs DEF Init, HeardInv
<1>2. TypeOK /\ JobInv /\ HeardInv /\ [Next]_vars => HeardInv'
  <2>. SUFFICES ASSUME TypeOK, JobInv, HeardInv, [Next]_vars PROVE HeardInv'
    OBVIOUS
  <2>. USE DEF target, world, database, zap
  <2>1. worker.at \in 0 .. 14 /\ PublicFiles = {Plan[i][2] : i \in 9 .. 12}
    BY WorkerIs, PlanIs DEF PublicFiles
  <2>2. CASE Scans
    <3>1. /\ history'.ever = history.ever /\ history'.always = history.always /\ site' = site
          /\ worker.at \in 1 .. 13
      BY <2>2, ScansAre
    <3>2. history.always \subseteq site /\ site \subseteq history.ever
      BY <3>1 DEF HeardInv
    <3>3. CASE /\ worker.at \in {1, 9, 10, 11} /\ Asks(Answer(Request, site))
               /\ worker.at = 1 => Handshake
      <4>1. worker'.at = worker.at + 1 /\ worker'.heard = worker.heard \cup Answer(Request, site)
        BY <3>3 DEF Asks, TypeOK, Worker
      <4>2. CASE worker.at = 1
        <5>1. Answer(Request, site) = {fact \in site : fact[1] = "tls"} /\ Handshake
          BY <3>3, <4>2, PlanIs, AnswersAre DEF Request
        <5>2. worker'.heard \subseteq history.ever \ Unreachable
          BY <3>2, <4>1, <5>1 DEF HeardInv, Handshake
        <5>3. /\ history.always \cap Unreachable = {}
              /\ \A fact \in history.always : fact[1] = "tls" => fact \in worker'.heard
          BY <3>2, <4>1, <5>1 DEF Handshake
        <5>. QED BY <3>1, <3>2, <4>1, <4>2, <5>2, <5>3 DEF HeardInv
      <4>3. CASE worker.at \in {9, 10, 11}
        <5>1. Answer(Request, site) = site \cap {<<"file", Plan[worker.at][2]>>}
          BY <2>1, <4>3, AnswersAre DEF Request
        <5>2. <<"file", Plan[worker.at][2]>> \notin Unreachable
          BY UnreachableIs
        <5>3. worker'.heard \subseteq history.ever \ Unreachable
          BY <3>2, <4>1, <5>1, <5>2 DEF HeardInv
        <5>4. \A i \in 9 .. 12 : worker'.at > i =>
                  history.always \cap {<<"file", Plan[i][2]>>} \subseteq worker'.heard
          <6>. TAKE i \in 9 .. 12
          <6>1. CASE i = worker.at
            BY <3>2, <4>1, <5>1, <6>1
          <6>2. CASE worker.at > i
            BY <4>1, <4>3, <6>2 DEF HeardInv
          <6>3. worker'.at > i => worker.at > i \/ i = worker.at
            BY <4>1, <4>3
          <6>. QED BY <6>1, <6>2, <6>3
        <5>. QED BY <3>1, <3>2, <4>1, <4>3, <5>3, <5>4 DEF HeardInv
      <4>. QED BY <3>3, <4>2, <4>3
    <3>4. ASSUME NEW next, NEW titles, Returned(next, titles), Finds(next, titles) PROVE HeardInv'
      <4>1. worker'.at = next /\ worker'.heard = {} /\ next \in 3 .. 14
        BY <3>4, FindsNext DEF Returned
      <4>2. next <= 9 \/ next > 12
        <5>1. CASE worker.at \in {1, 2, 13}
          BY <3>4, <5>1 DEF Finds
        <5>2. CASE worker.at \in 3 .. 8 \cup {12}
          BY <3>4, <5>2, AtIs, WorkerIs DEF Finds
        <5>. QED BY <3>4, <5>1, <5>2 DEF Finds
      <4>. QED BY <3>1, <3>2, <4>1, <4>2 DEF HeardInv
    <3>. QED BY <2>2, <3>3, <3>4, ScansAre
  <2>3. CASE Ends \/ StorageFails \/ Crash \/ Complete
    <3>1. worker' = Idle
      BY <2>3, EndsAre, CompleteIs DEF StorageFails, Crash
    <3>. QED BY <3>1, IdleIs DEF HeardInv
  <2>4. CASE Claim
    <3>1. /\ worker'.at = 1 /\ worker'.heard = {} /\ site' = site
          /\ history'.ever = site /\ history'.always = site
      BY <2>4, ClaimIs
    <3>. QED BY <3>1 DEF HeardInv
  <2>5. CASE SiteChanges
    <3>1. CASE worker.at = 0
      BY <2>5, <3>1, SiteChangesIs DEF HeardInv
    <3>2. CASE worker.at # 0
      BY <2>5, <3>2, SiteChangesIs DEF HeardInv
    <3>. QED BY <3>1, <3>2
  <2>6. CASE Enqueue \/ Triage \/ StartZap \/ OrphanEnds \/ UNCHANGED vars
    <3>1. UNCHANGED <<worker, site, history>>
      BY <2>6, EnqueueIs, TriageIs DEF StartZap, OrphanEnds, vars
    <3>. QED BY <3>1 DEF HeardInv
  <2>. QED BY <2>2, <2>3, <2>4, <2>5, <2>6 DEF Next, RunOnce, Zap, Scans, Ends
<1>. QED BY <1>1, <1>2, TypeCorrect, OneJobActive, PTL DEF Spec, ProcessInv

-----------------------------------------------------------------------------
(* What is reported. *)

(* What was so at some time of the scan may be reported, but for the failure of a probe. *)
LEMMA JustifiedIfSeen ==
  ASSUME TypeOK, NEW title \in history.ever, title # <<"tls", "failed">>
  PROVE  Justified(title)
<1>1. title \notin Conclusions
  BY PassiveScanAssumption DEF TypeOK, History
<1>. QED BY <1>1 DEF Justified, Conclusions

(* What is justified stays so during the scan. *)
LEMMA JustifiedStays ==
  ASSUME NEW title, Justified(title),
         history.ever \subseteq history'.ever, history'.always \subseteq history.always,
         history.failed \subseteq history'.failed
  PROVE  Justified(title)'
<1>1. CASE title = <<"tls", "failed">>
  BY <1>1 DEF Justified
<1>2. CASE title = <<"hsts", "missing">>
  BY <1>2 DEF Justified
<1>3. CASE title = <<"adequate", "tls">>
  <2>1. history.always \cap DOMAIN TLSRules = {}
    BY <1>3 DEF Justified
  <2>2. history'.always \cap DOMAIN TLSRules = {}
    BY <2>1
  <2>. QED BY <1>3, <2>2 DEF Justified
<1>4. CASE title = <<"adequate", "headers">>
  <2>1. history.always \cap DOMAIN HeaderRules = {}
    BY <1>4 DEF Justified
  <2>2. history'.always \cap DOMAIN HeaderRules = {}
    BY <2>1
  <2>. QED BY <1>4, <2>2 DEF Justified
<1>5. CASE title = <<"missing", "security.txt">>
  <2>1. history.always \cap About("file", SecurityTxt) = {}
    BY <1>5 DEF Justified
  <2>2. history'.always \cap About("file", SecurityTxt) = {}
    BY <2>1
  <2>. QED BY <1>5, <2>2 DEF Justified
<1>6. CASE title \notin {<<"tls", "failed">>, <<"hsts", "missing">>, <<"adequate", "tls">>,
                         <<"adequate", "headers">>, <<"missing", "security.txt">>}
  BY <1>6 DEF Justified
<1>. QED BY <1>1, <1>2, <1>3, <1>4, <1>5, <1>6

(* Whatever a scanner finds is justified. *)
LEMMA FindsJustified ==
  ASSUME TypeOK, HeardInv, NEW next, NEW titles, Finds(next, titles), Scans, NEW title \in titles
  PROVE  Justified(title)'
<1>. DEFINE failed == <<"tls", "failed">>
<1>1. /\ history'.ever = history.ever /\ history'.always = history.always
      /\ history.failed \subseteq history'.failed /\ worker.at \in 1 .. 13
  BY ScansAre
<1>2. history.always \subseteq site /\ site \subseteq history.ever
  BY <1>1 DEF HeardInv
<1>3. ASSUME title \in history.ever, title # failed PROVE Justified(title)'
  BY <1>1, <1>3, JustifiedIfSeen, JustifiedStays
<1>4. worker.heard \subseteq history.ever /\ failed \notin worker.heard
  BY DEF HeardInv, Unreachable, About
<1>5. CASE worker.at = 1
  BY <1>5 DEF Finds, Justified
<1>6. CASE worker.at = 2
  <2>. DEFINE answered == worker.heard \cup Answer("head", site)
              unread   == worker.heard \cup {<<"hsts", "missing">>}
  <2>1. CASE Handshake /\ titles = analyze_tls(answered)
    <3>1. Answer("head", site) = {fact \in site : fact[1] = "hsts"}
      BY AnswersAre
    <3>2. failed \notin answered /\ answered \subseteq history.ever
      BY <1>2, <1>4, <3>1
    <3>3. titles = Or(answered \cap DOMAIN TLSRules, <<"adequate", "tls">>)
      BY <2>1, <3>2 DEF analyze_tls
    <3>4. CASE answered \cap DOMAIN TLSRules = {}
      <4>1. title = <<"adequate", "tls">>
        BY <3>3, <3>4 DEF Or
      <4>2. ASSUME NEW fact \in history.always, fact \in DOMAIN TLSRules PROVE FALSE
        <5>1. fact[1] = "tls" => fact \in answered
          BY <1>6 DEF HeardInv
        <5>2. fact[1] = "hsts" => fact \in answered
          BY <1>2, <3>1
        <5>3. fact[1] \in {"tls", "hsts"}
          BY <4>2, KindsAre
        <5>. QED BY <3>4, <4>2, <5>1, <5>2, <5>3
      <4>3. history'.always \cap DOMAIN TLSRules = {}
        BY <1>1, <4>2
      <4>. QED BY <4>1, <4>3 DEF Justified
    <3>5. CASE answered \cap DOMAIN TLSRules # {}
      BY <1>3, <3>2, <3>3, <3>5 DEF Or
    <3>. QED BY <3>4, <3>5
  <2>2. CASE titles = analyze_tls(unread) /\ history'.failed = history.failed \cup {"head"}
    <3>1. failed \notin unread
      BY <1>4
    <3>2. <<"hsts", "missing">> \in unread \cap DOMAIN TLSRules
      BY TLSRulesAre
    <3>3. title \in unread
      BY <2>2, <3>1, <3>2 DEF analyze_tls, Or
    <3>4. title = <<"hsts", "missing">> => Justified(title)'
      BY <2>2 DEF Justified
    <3>. QED BY <1>3, <1>4, <3>1, <3>3, <3>4
  <2>. QED BY <1>6, <2>1, <2>2 DEF Finds
<1>7. CASE worker.at \in {3, 4, 5, 7, 8}
  <2>. DEFINE heard == worker.heard \cup Answer("page", site)
  <2>1. titles = Titles(Plan[worker.at][1], heard)
    <3>1. titles = Titles(Scanner, worker.heard \cup Answer(Request, site))
      BY <1>7 DEF Finds
    <3>2. Request = "page" /\ Scanner = Plan[worker.at][1]
      BY <1>7, PlanIs DEF Request, Scanner
    <3>. QED BY <3>1, <3>2
  <2>2. Answer("page", site) = {fact \in site : fact[1] \notin {"tls", "file", "zap", "cookie"}}
    BY AnswersAre
  <2>3. heard \subseteq history.ever /\ failed \notin heard
    BY <1>2, <1>4, <2>2
  <2>4. CASE worker.at = 3
    <3>1. titles = Or(heard \cap DOMAIN HeaderRules, <<"adequate", "headers">>)
      <4>1. titles = Titles("security-headers", heard)
        BY <2>1, <2>4, PlanIs
      <4>. HIDE DEF heard
      <4>. QED BY <4>1, TitlesAre DEF analyze_headers
    <3>2. CASE heard \cap DOMAIN HeaderRules = {}
      <4>1. title = <<"adequate", "headers">>
        BY <3>1, <3>2 DEF Or
      <4>2. ASSUME NEW fact \in history.always, fact \in DOMAIN HeaderRules PROVE FALSE
        <5>1. fact[1] \in {"hsts", "missing", "csp", "leak", "deprecated"}
          BY <4>2, KindsAre
        <5>2. fact \in heard
          BY <1>2, <2>2, <5>1
        <5>. QED BY <3>2, <4>2, <5>2
      <4>3. history'.always \cap DOMAIN HeaderRules = {}
        BY <1>1, <4>2
      <4>. QED BY <4>1, <4>3 DEF Justified
    <3>3. CASE heard \cap DOMAIN HeaderRules # {}
      BY <1>3, <2>3, <3>1, <3>3 DEF Or
    <3>. QED BY <3>2, <3>3
  <2>5. CASE worker.at \in {4, 5, 7, 8}
    <3>1. titles \subseteq heard
      BY <2>1, <2>5, PlanIs, TitlesAre
    <3>. QED BY <1>3, <2>3, <3>1
  <2>. QED BY <1>7, <2>4, <2>5
<1>8. CASE worker.at = 6
  <2>1. title = <<"missing", "caa">>
    BY <1>8, PlanIs, TitlesAre DEF Finds, Scanner
  <2>. QED BY <2>1 DEF Justified
<1>9. CASE worker.at = 12
  <2>. DEFINE file == <<"file", "/.well-known/security.txt">>
              heard == worker.heard \cup (site \cap {file})
              available == heard \cap About("file", PublicFiles)
  <2>1. titles = public_metadata(heard)
    <3>1. Answer(Request, site) = site \cap {file}
      BY <1>9, PlanIs, AnswersAre DEF Request, PublicFiles
    <3>. QED BY <1>9, <3>1, PlanIs, TitlesAre DEF Finds, Scanner
  <2>2. titles = available \cup IF available \cap About("file", SecurityTxt) = {}
                                THEN {<<"missing", "security.txt">>} ELSE {}
    BY <2>1 DEF public_metadata
  <2>3. available \subseteq history.ever /\ failed \notin available
    BY <1>2, <1>4
  <2>4. CASE title \in available
    BY <1>3, <2>3, <2>4
  <2>5. CASE title = <<"missing", "security.txt">> /\ available \cap About("file", SecurityTxt) = {}
    <3>1. history.always \cap {<<"file", "/security.txt">>} \subseteq worker.heard
      BY <1>9, PlanIs DEF HeardInv
    <3>2. ASSUME NEW fact \in history.always, fact \in About("file", SecurityTxt) PROVE FALSE
      <4>1. fact \in {<<"file", "/security.txt">>, file}
        BY <3>2 DEF About, SecurityTxt
      <4>2. fact \in heard
        BY <1>2, <3>1, <4>1
      <4>3. fact \in About("file", PublicFiles)
        BY <4>1 DEF About, PublicFiles
      <4>. QED BY <2>5, <3>2, <4>2, <4>3
    <3>3. history'.always \cap About("file", SecurityTxt) = {}
      BY <1>1, <3>2
    <3>. QED BY <2>5, <3>3 DEF Justified
  <2>. QED BY <2>2, <2>4, <2>5
<1>10. CASE worker.at = 13
  <2>1. title \in site /\ title[1] = "zap"
    BY <1>10 DEF Finds, ZapFacts
  <2>. QED BY <1>2, <1>3, <2>1
<1>11. worker.at \in {1, 2, 3, 4, 5, 6, 7, 8, 12, 13}
  BY DEF Finds
<1>. QED BY <1>5, <1>6, <1>7, <1>8, <1>9, <1>10, <1>11

(* What the worker has to show and what is committed of the last scan is justified: a step
   of that scan only adds what FindsJustified allows, and no other step adds anything. *)
LEMMA EvidenceIsJustified == Spec => []ReportInv
<1>1. Init => ReportInv
  BY IdleIs DEF Init, ReportInv, ReportedWasSeen, Latest
<1>2. TypeOK /\ JobInv /\ HeardInv /\ ReportInv /\ [Next]_vars => ReportInv'
  <2>. SUFFICES ASSUME TypeOK, JobInv, HeardInv, ReportInv, [Next]_vars PROVE ReportInv'
    OBVIOUS
  <2>. USE DEF target, world, database, zap
  <2>1. /\ \A e \in evidence : e.job = history.job => Justified(e.title)
        /\ \A e \in worker.shown : Justified(e.title)
    BY DEF ReportInv, ReportedWasSeen, Latest
  <2>2. SUFFICES /\ \A e \in evidence' : e.job = history'.job => Justified(e.title)'
                 /\ \A e \in worker'.shown : Justified(e.title)'
    BY DEF ReportInv, ReportedWasSeen, Latest
  <2>3. CASE Scans
    <3>1. /\ evidence' = evidence /\ history'.job = history.job
          /\ history'.ever = history.ever /\ history'.always = history.always
          /\ history.failed \subseteq history'.failed
      BY <2>3, ScansAre
    <3>2. \A title : Justified(title) => Justified(title)'
      BY <3>1, JustifiedStays
    <3>3. CASE worker.at \in {1, 9, 10, 11} /\ Asks(Answer(Request, site))
      <4>1. worker'.shown = worker.shown
        BY <3>3 DEF Asks, TypeOK, Worker
      <4>. QED BY <2>1, <3>1, <3>2, <4>1
    <3>4. ASSUME NEW next, NEW titles, Returned(next, titles), Finds(next, titles)
          PROVE  \A e \in worker'.shown : Justified(e.title)'
      <4>1. \A title \in titles : Justified(title)'
        BY <2>3, <3>4, FindsJustified
      <4>2. \A e \in worker'.shown : e \in worker.shown \/ e.title \in titles
        BY <3>4 DEF Returned
      <4>. QED BY <2>1, <3>2, <4>1, <4>2
    <3>5. \A e \in evidence' : e.job = history'.job => Justified(e.title)'
      BY <2>1, <3>1, <3>2
    <3>. QED BY <2>3, <3>3, <3>4, <3>5, ScansAre
  <2>4. CASE Ends \/ StorageFails \/ Crash
    <3>1. /\ worker' = Idle /\ evidence' = evidence /\ history'.job = history.job
          /\ history'.ever = history.ever /\ history'.always = history.always
          /\ history'.failed = history.failed
      BY <2>4, EndsAre DEF StorageFails, Crash, TypeOK, History
    <3>2. \A title : Justified(title) => Justified(title)'
      BY <3>1, JustifiedStays
    <3>. QED BY <2>1, <3>1, <3>2, IdleIs
  <2>5. CASE Claim
    <3>1. PICK j \in Jobs : /\ jobs[j].status = "PENDING" /\ history'.job = j
                            /\ worker'.shown = {} /\ evidence' = evidence
      BY <2>5, ClaimIs
    <3>2. \A e \in evidence : e.job # j
      BY <3>1 DEF JobInv
    <3>. QED BY <3>1, <3>2
  <2>6. CASE Complete
    <3>1. worker' = Idle /\ history' = history /\ evidence' = evidence \cup worker.shown
      BY <2>6, CompleteIs
    <3>2. \A title : Justified(title) => Justified(title)'
      BY <3>1, JustifiedStays
    <3>. QED BY <2>1, <3>1, <3>2, IdleIs
  <2>7. CASE SiteChanges
    <3>1. /\ worker' = worker /\ evidence' = evidence /\ history'.job = history.job
          /\ history'.failed = history.failed
          /\ history.ever \subseteq history'.ever /\ history'.always \subseteq history.always
      BY <2>7, SiteChangesIs
    <3>2. \A title : Justified(title) => Justified(title)'
      BY <3>1, JustifiedStays
    <3>. QED BY <2>1, <3>1, <3>2
  <2>8. CASE Enqueue \/ Triage \/ StartZap \/ OrphanEnds \/ UNCHANGED vars
    <3>1. UNCHANGED <<worker, evidence, history>>
      BY <2>8, EnqueueIs, TriageIs DEF StartZap, OrphanEnds, vars
    <3>2. \A title : Justified(title) => Justified(title)'
      BY <3>1, JustifiedStays
    <3>. QED BY <2>1, <3>1, <3>2
  <2>. QED BY <2>3, <2>4, <2>5, <2>6, <2>7, <2>8 DEF Next, RunOnce, Zap, Scans, Ends
<1>. QED BY <1>1, <1>2, TypeCorrect, OneJobActive, HeardIsSo, PTL DEF Spec, ProcessInv

(* What evidence claims of the site was so at some time of the scan it is of, or the scan saw
   the request fail: the answers of one scanner or scan are not taken for another's. *)
THEOREM ReportedIsJustified == Spec => []ReportedWasSeen
<1>1. ReportInv => ReportedWasSeen
  BY DEF ReportInv
<1>. QED BY <1>1, EvidenceIsJustified, PTL

-----------------------------------------------------------------------------
(* What was so is reported. *)

(* What a scanner owes when it returns, it finds. *)
LEMMA FindsOwed ==
  ASSUME TypeOK, HeardInv, NEW next, NEW titles, Finds(next, titles), Scans,
         NEW fact \in history.always
  PROVE  /\ worker.at < 3 =>
               /\ fact \in Unreachable => <<"tls", "failed">> \in titles
               /\ fact = <<"tls", "expiring">> => fact \in titles \/ <<"tls", "failed">> \in titles
               /\ fact = <<"hsts", "short">> => fact \in titles \/ history'.failed # {}
         /\ \A place \in 4 .. 14 : worker.at < place /\ place <= next /\ fact \in Owed(place) =>
               fact \in titles
<1>1. worker.at \in 1 .. 13
  BY ScansAre
<1>2. fact \in site /\ fact \in Facts
  BY <1>1 DEF HeardInv, TypeOK
<1>3. CASE worker.at = 1
  BY <1>3 DEF Finds
<1>4. CASE worker.at = 2
  <2>1. /\ next = 3 /\ fact \notin Unreachable
        /\ fact[1] = "tls" => fact \in worker.heard
        /\ <<"tls", "failed">> \notin worker.heard
    <3>1. next = 3
      BY <1>4 DEF Finds
    <3>2. fact \notin Unreachable /\ (fact[1] = "tls" => fact \in worker.heard)
      BY <1>4 DEF HeardInv
    <3>3. <<"tls", "failed">> \notin worker.heard
      BY DEF HeardInv, Unreachable, About
    <3>. QED BY <3>1, <3>2, <3>3
  <2>2. ASSUME fact = <<"tls", "expiring">> PROVE fact \in titles
    <3>1. fact \in worker.heard \cap DOMAIN TLSRules
      BY <2>1, <2>2, TLSRulesAre
    <3>2. <<"tls", "failed">> \notin Answer("head", site)
      BY AnswersAre
    <3>. QED BY <1>4, <2>1, <3>1, <3>2 DEF Finds, analyze_tls, Or
  <2>3. ASSUME fact = <<"hsts", "short">> PROVE fact \in titles \/ history'.failed # {}
    <3>1. /\ fact \in Answer("head", site) \cap DOMAIN TLSRules
          /\ <<"tls", "failed">> \notin Answer("head", site)
      BY <1>2, <2>3, TLSRulesAre, AnswersAre
    <3>. QED BY <1>4, <2>1, <3>1 DEF Finds, analyze_tls, Or
  <2>. QED BY <2>1, <2>2, <2>3
<1>5. CASE worker.at \in 3 .. 8
  <2>1. /\ next = worker.at + 1
        /\ titles = Titles(Plan[worker.at][1], worker.heard \cup Answer(Plan[worker.at][2], site))
    BY <1>5, AtIs, WorkerIs DEF Finds, Scanner, Request
  <2>2. ASSUME fact \in Owed(next) PROVE fact \in titles
    <3>1. CASE worker.at = 3
      <4>1. fact \in DOMAIN HeaderRules
        BY <2>1, <2>2, <3>1 DEF Owed
      <4>2. fact[1] \in {"hsts", "missing", "csp", "leak", "deprecated"}
        BY <4>1, KindsAre
      <4>3. fact \in Answer("page", site)
        BY <1>2, <4>2, AnswersAre
      <4>4. titles = analyze_headers(worker.heard \cup Answer("page", site))
        BY <2>1, <3>1, PlanIs, TitlesAre
      <4>. QED BY <4>1, <4>3, <4>4 DEF analyze_headers, Or
    <3>2. CASE worker.at = 4
      BY <2>1, <2>2, <3>2 DEF Owed
    <3>3. CASE worker.at = 5
      <4>1. fact \in DOMAIN CorsRules /\ fact[1] = "cors"
        BY <2>1, <2>2, <3>3, KindsAre DEF Owed
      <4>2. fact \in Answer("page", site)
        BY <1>2, <4>1, AnswersAre
      <4>3. titles = (worker.heard \cup Answer("page", site)) \cap DOMAIN CorsRules
        BY <2>1, <3>3, PlanIs, TitlesAre
      <4>. QED BY <4>1, <4>2, <4>3
    <3>4. CASE worker.at = 6
      BY <2>1, <2>2, <3>4, PlanIs, TitlesAre DEF Owed
    <3>5. CASE worker.at \in {7, 8}
      <4>1. fact \in {<<"page", "technology">>, <<"page", "references">>}
        BY <2>1, <2>2, <3>5 DEF Owed
      <4>2. fact \in Answer("page", site)
        BY <1>2, <4>1, AnswersAre
      <4>. QED BY <2>1, <2>2, <3>5, <4>2, PlanIs, TitlesAre DEF Owed
    <3>. QED BY <1>5, <3>1, <3>2, <3>3, <3>4, <3>5
  <2>. QED BY <1>5, <2>1, <2>2
<1>6. CASE worker.at = 12
  <2>1. titles = public_metadata(worker.heard \cup Answer("/.well-known/security.txt", site))
    BY <1>6, PlanIs, TitlesAre DEF Finds, Scanner, Request
  <2>2. next \in {13, 14} /\ (next = 14 => ~jobs[worker.job].zap)
    BY <1>6, AtIs, WorkerIs DEF Finds
  <2>3. ASSUME fact \in About("file", PublicFiles) PROVE fact \in titles
    <3>1. \/ fact \in {<<"file", Plan[9][2]>>, <<"file", Plan[10][2]>>, <<"file", Plan[11][2]>>}
          \/ fact = <<"file", "/.well-known/security.txt">>
      BY <2>3, PlanIs DEF About, PublicFiles
    <3>2. fact \in worker.heard \cup Answer("/.well-known/security.txt", site)
      <4>1. CASE fact = <<"file", "/.well-known/security.txt">>
        BY <1>2, <4>1, AnswersAre DEF PublicFiles
      <4>2. ASSUME NEW i \in {9, 10, 11}, fact = <<"file", Plan[i][2]>> PROVE fact \in worker.heard
        BY <1>6, <4>2 DEF HeardInv
      <4>. QED BY <3>1, <4>1, <4>2
    <3>. QED BY <2>1, <2>3, <3>2 DEF public_metadata
  <2>4. Owed(13) = About("file", PublicFiles) /\ (next = 14 => Owed(14) = {})
    BY <2>2 DEF Owed
  <2>. QED BY <1>6, <2>2, <2>3, <2>4
<1>7. CASE worker.at = 13
  <2>1. next = 14 /\ titles = {f \in ZapFacts : f \in site}
    BY <1>7 DEF Finds
  <2>2. fact \in Owed(14) => fact \in ZapFacts
    BY DEF Owed
  <2>. QED BY <1>2, <1>7, <2>1, <2>2
<1>8. worker.at \in {1, 2, 12, 13} \cup 3 .. 8
  BY DEF Finds
<1>. QED BY <1>3, <1>4, <1>5, <1>6, <1>7, <1>8

(* Of every fact that may be so, a scanner owes the report, or it is one that the probe may
   fail to see; cookies are nobody's. *)
LEMMA FactsAreOwed ==
  ASSUME NEW fact \in Facts
  PROVE  \/ fact \in Unreachable \/ fact = <<"tls", "expiring">> \/ fact = <<"hsts", "short">>
         \/ fact[1] = "cookie" \/ fact \in ZapFacts
         \/ \E place \in {4, 6, 7, 8, 9, 13} : fact \in Owed(place)
<1>1. fact \in DOMAIN Rules \cup ZapFacts /\ fact \notin Conclusions
  BY PassiveScanAssumption
<1>2. CASE fact \in DOMAIN TLSRules
  <2>1. fact = <<"hsts", "missing">> => fact \in Owed(4)
    <3>1. <<"hsts", "missing">> \in DOMAIN HeaderRules
      BY HeaderRulesAre
    <3>2. Owed(4) = DOMAIN HeaderRules
      BY DEF Owed
    <3>. QED BY <3>1, <3>2
  <2>. QED BY <1>2, <2>1, TLSRulesAre
<1>3. CASE fact \in DOMAIN HeaderRules
  BY <1>3 DEF Owed
<1>4. CASE fact \in DOMAIN CookieRules
  BY <1>4, KindsAre
<1>5. CASE fact \in DOMAIN CorsRules
  BY <1>5 DEF Owed
<1>6. CASE fact \in About("file", PublicFiles)
  BY <1>6 DEF Owed
<1>7. CASE fact \in {<<"missing", "caa">>, <<"page", "technology">>, <<"page", "references">>}
  BY <1>7 DEF Owed
<1>. QED BY <1>1, <1>2, <1>3, <1>4, <1>5, <1>6, <1>7, RulesAre, MetadataRulesAre DEF Conclusions

(* What the last scan has found out, once it has paid what it owes. *)
LEMMA PaidIsShown ==
  ASSUME TypeOK, NEW fact \in history.always, worker.at = 14, Due(fact)
  PROVE  CASE fact \in Unreachable -> Noted(<<"tls", "failed">>)
           [] fact = <<"tls", "expiring">> -> Noted(fact) \/ Noted(<<"tls", "failed">>)
           [] fact = <<"hsts", "short">> -> Noted(fact) \/ history.failed # {}
           [] fact[1] = "cookie" -> TRUE
           [] fact[1] = "zap" -> Noted(fact) \/ ~jobs[worker.job].zap
           [] OTHER -> Noted(fact)
<1>1. fact \in Facts
  BY DEF TypeOK, History
<1>2. /\ fact \in Unreachable => Noted(<<"tls", "failed">>)
      /\ fact = <<"tls", "expiring">> => Noted(fact) \/ Noted(<<"tls", "failed">>)
      /\ fact = <<"hsts", "short">> => Noted(fact) \/ history.failed # {}
  BY DEF Due
<1>3. \A place \in 4 .. 14 : fact \in Owed(place) => Noted(fact)
  BY DEF Due
<1>4. fact \in ZapFacts => fact[1] = "zap" /\ (Noted(fact) \/ ~jobs[worker.job].zap)
  BY <1>3 DEF Owed, ZapFacts
<1>5. (\E place \in {4, 6, 7, 8, 9, 13} : fact \in Owed(place)) => Noted(fact)
  BY <1>3
<1>9. <<"tls", "expiring">> \notin Unreachable /\ <<"hsts", "short">> \notin Unreachable
  BY DEF Unreachable, About
<1>6. CASE fact \in Unreachable
  <2>1. fact[1] = "tls"
    BY <1>6, UnreachableIs
  <2>. QED BY <1>2, <1>6, <1>9, <2>1
<1>7. CASE fact = <<"tls", "expiring">> \/ fact = <<"hsts", "short">>
  <2>1. fact[1] \in {"tls", "hsts"}
    BY <1>7
  <2>. QED BY <1>2, <1>7, <1>9, <2>1
<1>8. CASE fact \notin Unreachable /\ fact # <<"tls", "expiring">> /\ fact # <<"hsts", "short">>
  <2>1. fact[1] = "cookie" \/ fact \in ZapFacts \/ Noted(fact)
    BY <1>1, <1>5, <1>8, FactsAreOwed
  <2>2. fact[1] = "zap" => Noted(fact) \/ ~jobs[worker.job].zap
    BY <1>4, <2>1
  <2>. QED BY <1>4, <1>8, <2>1, <2>2
<1>. QED BY <1>6, <1>7, <1>8

(* What a scan still owes of what is so all the time is heard or found by the scanner that
   owes it, and nothing is owed when the worker comes to commit. *)
LEMMA OwedIsShown == Spec => []SeenInv
<1>. DEFINE Owes == \A fact \in history.always : Due(fact)
<1>1. Init => SeenInv
  BY DEF Init, SeenInv, SeenIsReported, Completed
<1>2. TypeOK /\ JobInv /\ HeardInv /\ SeenInv /\ [Next]_vars => SeenInv'
  <2>. SUFFICES ASSUME TypeOK, JobInv, HeardInv, SeenInv, [Next]_vars PROVE SeenInv'
    OBVIOUS
  <2>. USE DEF target, world, database, zap
  <2>1. SeenIsReported /\ Owes
    BY DEF SeenInv
  <2>2. worker.at \in 0 .. 14 /\ (worker.at # 0 => history.job \in Jobs /\ ~Completed(history.job))
    BY WorkerIs DEF JobInv, Completed
  <2>3. CASE Scans
    <3>1. /\ UNCHANGED <<jobs, findings, evidence>> /\ history'.job = history.job
          /\ history'.always = history.always /\ history.failed \subseteq history'.failed
          /\ worker.at \in 1 .. 13
      BY <2>3, ScansAre
    <3>2. SeenIsReported'
      BY <2>2, <3>1 DEF SeenIsReported, Completed
    <3>3. CASE worker.at \in {1, 9, 10, 11} /\ Asks(Answer(Request, site))
      <4>1. /\ worker'.at = worker.at + 1 /\ worker'.job = worker.job
            /\ worker'.found = worker.found /\ worker'.shown = worker.shown
        BY <3>3 DEF Asks, TypeOK, Worker
      <4>2. ASSUME NEW fact \in history.always PROVE Due(fact)'
        <5>1. \A title : Noted(title) => Noted(title)'
          BY <4>1 DEF Noted
        <5>2. Due(fact)
          BY <2>1, <4>2
        <5>3. CASE worker.at = 1
          BY <4>1, <5>3 DEF Due
        <5>4. CASE worker.at \in {9, 10, 11}
          <6>1. worker.at >= 3 /\ worker'.at <= 12
            BY <4>1, <5>4
          <6>2. \A place \in 4 .. 14 : worker'.at >= place /\ fact \in Owed(place)' =>
                   worker.at >= place /\ fact \in Owed(place)
            BY <3>1, <4>1, <5>4 DEF Owed
          <6>. QED BY <3>1, <5>1, <5>2, <6>1, <6>2 DEF Due
        <5>. QED BY <3>3, <5>3, <5>4
      <4>. QED BY <3>1, <3>2, <4>2 DEF SeenInv
    <3>4. ASSUME NEW next, NEW titles, Returned(next, titles), Finds(next, titles) PROVE SeenInv'
      <4>1. /\ worker'.at = next /\ worker'.job = worker.job
            /\ next \in 3 .. 14 /\ next > worker.at
        BY <3>4, FindsNext DEF Returned
      <4>2. /\ \A title : Noted(title) => Noted(title)'
            /\ \A title \in titles : Noted(title)'
        BY <3>4 DEF Returned, Noted
      <4>3. ASSUME NEW fact \in history.always PROVE Due(fact)'
        <5>1. Due(fact)
          BY <2>1, <4>3
        <5>2. /\ fact \in Unreachable => Noted(<<"tls", "failed">>)'
              /\ fact = <<"tls", "expiring">> => Noted(fact)' \/ Noted(<<"tls", "failed">>)'
              /\ fact = <<"hsts", "short">> => Noted(fact)' \/ history'.failed # {}
          <6>1. CASE worker.at < 3
            BY <2>3, <3>4, <4>2, <6>1, FindsOwed
          <6>2. CASE worker.at >= 3
            BY <3>1, <4>2, <5>1, <6>2 DEF Due
          <6>. QED BY <2>2, <6>1, <6>2
        <5>3. ASSUME NEW place \in 4 .. 14, next >= place, fact \in Owed(place) PROVE Noted(fact)'
          <6>1. CASE worker.at >= place
            BY <4>2, <5>1, <5>3, <6>1 DEF Due
          <6>2. CASE worker.at < place
            BY <2>3, <3>4, <4>2, <5>3, <6>2, FindsOwed
          <6>. QED BY <2>2, <6>1, <6>2
        <5>4. \A place \in 4 .. 14 : Owed(place)' = Owed(place)
          BY <3>1, <4>1 DEF Owed
        <5>. QED BY <4>1, <5>2, <5>3, <5>4 DEF Due
      <4>. QED BY <3>1, <3>2, <4>3 DEF SeenInv
    <3>. QED BY <2>3, <3>3, <3>4, ScansAre
  <2>4. CASE Ends \/ StorageFails \/ Crash
    <3>1. /\ worker' = Idle /\ UNCHANGED <<findings, evidence>>
          /\ history'.job = history.job /\ history'.always = history.always
          /\ history'.failed = history.failed
      BY <2>4, EndsAre DEF StorageFails, Crash, TypeOK, History
    <3>2. worker.at # 0 /\ ~Completed(history.job)'
      <4>1. CASE Ends
        BY <2>2, <3>1, <4>1, EndsAre, WorkerIs DEF Completed, JobInv
      <4>2. CASE StorageFails \/ Crash
        <5>1. worker.at # 0
          BY <4>2, PlanIs, WorkerIs, IdleIs DEF StorageFails, Crash, JobInv
        <5>. QED BY <2>2, <3>1, <4>2, <5>1 DEF StorageFails, Crash, Completed
      <4>. QED BY <2>4, <4>1, <4>2
    <3>3. SeenIsReported'
      BY <3>2 DEF SeenIsReported
    <3>. QED BY <3>1, <3>3, IdleIs DEF SeenInv, Due
  <2>5. CASE Claim
    <3>1. PICK j \in Jobs : /\ jobs'[j].status = "RUNNING" /\ history'.job = j /\ worker'.at = 1
      BY <2>5, ClaimIs
    <3>. QED BY <3>1 DEF SeenInv, SeenIsReported, Completed, Due
  <2>6. CASE Complete
    <3>1. /\ worker.at = 14 /\ worker' = Idle /\ history' = history
          /\ evidence' = evidence \cup worker.shown
          /\ DOMAIN findings' = DOMAIN findings \cup DOMAIN worker.found
          /\ jobs'[worker.job].zap = jobs[worker.job].zap
      BY <2>6, CompleteIs
    <3>2. worker.job = history.job /\ \A e \in worker.shown : e.job = history.job
      BY <3>1 DEF JobInv
    <3>3. ASSUME NEW title, Noted(title) PROVE Shown(title)'
      <4>1. PICK e \in worker.shown : e.title = title
        BY <3>3 DEF Noted
      <4>2. e \in evidence' /\ e.job = history'.job /\ title \in DOMAIN findings'
        BY <3>1, <3>2, <3>3, <4>1 DEF Noted
      <4>. QED BY <4>1, <4>2 DEF Shown, Latest
    <3>4. ASSUME NEW fact \in history.always
          PROVE  CASE fact \in Unreachable -> Shown(<<"tls", "failed">>)'
                   [] fact = <<"tls", "expiring">> -> Shown(fact)' \/ Shown(<<"tls", "failed">>)'
                   [] fact = <<"hsts", "short">> -> Shown(fact)' \/ history'.failed # {}
                   [] fact[1] = "cookie" -> TRUE
                   [] fact[1] = "zap" -> Shown(fact)' \/ ~jobs'[history'.job].zap
                   [] OTHER -> Shown(fact)'
      <4>1. Due(fact)
        BY <2>1, <3>4
      <4>. QED BY <3>1, <3>2, <3>3, <4>1, PaidIsShown
    <3>5. SeenIsReported'
      BY <3>1, <3>4 DEF SeenIsReported
    <3>. QED BY <3>1, <3>5, IdleIs DEF SeenInv, Due
  <2>7. CASE SiteChanges
    <3>1. CASE worker.at = 0
      <4>1. UNCHANGED <<jobs, findings, evidence, worker, history>>
        BY <2>7, <3>1, SiteChangesIs
      <4>. QED BY <2>1, <4>1 DEF SeenInv, SeenIsReported, Completed, Shown, Latest, Due, Noted, Owed
    <3>2. CASE worker.at # 0
      <4>1. /\ UNCHANGED <<jobs, findings, evidence, worker>> /\ history'.job = history.job
            /\ history'.failed = history.failed /\ history'.always \subseteq history.always
        BY <2>7, <3>2, SiteChangesIs
      <4>2. SeenIsReported'
        BY <2>2, <3>2, <4>1 DEF SeenIsReported, Completed
      <4>3. \A fact \in history.always : Due(fact)'
        BY <2>1, <4>1 DEF Due, Noted, Owed
      <4>. QED BY <4>1, <4>2, <4>3 DEF SeenInv
    <3>. QED BY <3>1, <3>2
  <2>8. CASE Enqueue
    <3>1. PICK j \in Jobs :
             /\ jobs[j].status = "ABSENT"
             /\ jobs'[j].status = "PENDING" /\ \A i \in Jobs \ {j} : jobs'[i] = jobs[i]
             /\ \A i \in Jobs : jobs[i].status \notin {"PENDING", "RUNNING"}
             /\ UNCHANGED <<history, findings, evidence, worker>>
      BY <2>8, EnqueueIs
    <3>2. worker.at = 0 /\ (history.job # NoJob => history.job # j /\ history.job \in Jobs)
      BY <2>2, <3>1 DEF JobInv, TypeOK, History
    <3>3. SeenIsReported'
      BY <2>1, <3>1, <3>2 DEF SeenIsReported, Completed, Shown, Latest
    <3>. QED BY <3>1, <3>2, <3>3 DEF SeenInv, Due
  <2>9. CASE Triage \/ StartZap \/ OrphanEnds \/ UNCHANGED vars
    <3>1. UNCHANGED <<worker, jobs, evidence, history>> /\ DOMAIN findings' = DOMAIN findings
      BY <2>9, TriageIs DEF StartZap, OrphanEnds, vars
    <3>2. SeenIsReported'
      BY <2>1, <3>1 DEF SeenIsReported, Completed, Shown, Latest
    <3>3. \A fact \in history.always : Due(fact)'
      BY <2>1, <3>1 DEF Due, Noted, Owed
    <3>. QED BY <3>1, <3>2, <3>3 DEF SeenInv
  <2>. QED BY <2>3, <2>4, <2>5, <2>6, <2>7, <2>8, <2>9 DEF Next, RunOnce, Zap, Scans, Ends
<1>. QED BY <1>1, <1>2, TypeCorrect, OneJobActive, HeardIsSo, PTL DEF Spec, ProcessInv

(* A completed scan has reported what was so all the time it ran, with evidence of its own,
   but for what no scanner could see: nothing a scanner heard is lost on the way through
   normalize_observations to the rows of the database. *)
THEOREM SeenIsShown == Spec => []SeenIsReported
<1>1. SeenInv => SeenIsReported
  BY DEF SeenInv
<1>. QED BY <1>1, OwedIsShown, PTL

-----------------------------------------------------------------------------
(* The findings: their triage and their score. *)

(* No scan changes what an analyst has decided. *)
THEOREM TriageStays == Spec => TriageKept
<1>1. TypeOK /\ [Next]_vars =>
         [\A title \in DOMAIN findings :
             findings'[title].status # findings[title].status => triages' # triages]_vars
  <2>. SUFFICES ASSUME TypeOK, [Next]_vars, NEW title \in DOMAIN findings,
                       findings'[title].status # findings[title].status
                PROVE  triages' # triages
    OBVIOUS
  <2>. USE DEF target, world, database, zap
  <2>1. CASE Triage
    BY <2>1, TriageIs DEF TypeOK
  <2>2. CASE Complete
    BY <2>2, CompleteIs
  <2>3. CASE Scans \/ Ends \/ StorageFails \/ Crash \/ Claim \/ SiteChanges \/ Enqueue \/ StartZap
             \/ OrphanEnds \/ UNCHANGED vars
    <3>1. findings' = findings
      BY <2>3, ScansAre, EndsAre, ClaimIs, EnqueueIs
         DEF StorageFails, Crash, SiteChanges, StartZap, OrphanEnds, vars
    <3>. QED BY <3>1
  <2>. QED BY <2>1, <2>2, <2>3 DEF Next, RunOnce, Zap, Scans, Ends
<1>. QED BY <1>1, TypeCorrect, PTL DEF Spec, TriageKept

(* There are finitely many titles. *)
LEMMA EnumeratedAreFinite ==
  /\ \A a : IsFiniteSet({a})
  /\ \A a, b : IsFiniteSet({a, b})
  /\ \A a, b, c : IsFiniteSet({a, b, c})
  /\ \A a, b, c, d : IsFiniteSet({a, b, c, d})
  /\ \A a, b, c, d, e : IsFiniteSet({a, b, c, d, e})
  /\ \A a, b, c, d, e, f : IsFiniteSet({a, b, c, d, e, f})
<1>1. ASSUME NEW a PROVE IsFiniteSet({a})
  BY FS_Singleton
<1>2. ASSUME NEW a, NEW b PROVE IsFiniteSet({a, b})
  <2>1. IsFiniteSet({a} \cup {b})
    BY <1>1, FS_Union
  <2>2. {a, b} = {a} \cup {b}
    OBVIOUS
  <2>. QED BY <2>1, <2>2
<1>3. ASSUME NEW a, NEW b, NEW c PROVE IsFiniteSet({a, b, c})
  <2>1. IsFiniteSet({a, b} \cup {c})
    BY <1>1, <1>2, FS_Union
  <2>2. {a, b, c} = {a, b} \cup {c}
    OBVIOUS
  <2>. QED BY <2>1, <2>2
<1>4. ASSUME NEW a, NEW b, NEW c, NEW d PROVE IsFiniteSet({a, b, c, d})
  <2>1. IsFiniteSet({a, b} \cup {c, d})
    BY <1>2, FS_Union
  <2>2. {a, b, c, d} = {a, b} \cup {c, d}
    OBVIOUS
  <2>. QED BY <2>1, <2>2
<1>5. ASSUME NEW a, NEW b, NEW c, NEW d, NEW e PROVE IsFiniteSet({a, b, c, d, e})
  <2>1. IsFiniteSet({a, b, c} \cup {d, e})
    BY <1>2, <1>3, FS_Union
  <2>2. {a, b, c, d, e} = {a, b, c} \cup {d, e}
    OBVIOUS
  <2>. QED BY <2>1, <2>2
<1>6. ASSUME NEW a, NEW b, NEW c, NEW d, NEW e, NEW f PROVE IsFiniteSet({a, b, c, d, e, f})
  <2>1. IsFiniteSet({a, b, c} \cup {d, e, f})
    BY <1>3, FS_Union
  <2>2. {a, b, c, d, e, f} = {a, b, c} \cup {d, e, f}
    OBVIOUS
  <2>. QED BY <2>1, <2>2
<1>. QED BY <1>1, <1>2, <1>3, <1>4, <1>5, <1>6

LEMMA AboutIsFinite ==
  ASSUME NEW kind, NEW names, IsFiniteSet(names)
  PROVE  IsFiniteSet(About(kind, names))
<1>. DEFINE f == [name \in names |-> <<kind, name>>]
<1>1. f \in Surjection(names, About(kind, names))
  BY DEF Surjection, About
<1>. HIDE DEF f
<1>. QED BY <1>1, FS_Surjection

LEMMA TitlesAreFinite == IsFiniteSet(AllTitles)
<1>1. IsFiniteSet(DOMAIN TLSRules)
  <2>1. IsFiniteSet(Unreachable)
    BY AboutIsFinite, EnumeratedAreFinite DEF Unreachable
  <2>2. IsFiniteSet({<<"tls", "expiring">>, <<"hsts", "missing">>, <<"hsts", "short">>})
    BY EnumeratedAreFinite
  <2>. QED BY <2>1, <2>2, FS_Union, TLSRulesAre
<1>2. IsFiniteSet(DOMAIN HeaderRules)
  <2>. DEFINE a == {<<"hsts", "missing">>}
              b == About("missing", {"csp", "frame options", "nosniff", "referrer policy",
                              "permissions policy", "cache-control"})
              c == About("csp", {"unsafe-inline", "unsafe-eval", "data:", "*"})
              d == About("leak", {"server", "x-powered-by", "x-aspnet-version", "x-aspnetmvc-version"})
              e == About("deprecated", {"x-xss-protection"})
  <2>1. IsFiniteSet(a) /\ IsFiniteSet(b) /\ IsFiniteSet(c) /\ IsFiniteSet(d) /\ IsFiniteSet(e)
    BY EnumeratedAreFinite, AboutIsFinite
  <2>2. DOMAIN HeaderRules = a \cup b \cup c \cup d \cup e
    BY HeaderRulesAre
  <2>. HIDE DEF a, b, c, d, e
  <2>. QED BY <2>1, <2>2, FS_Union
<1>3. IsFiniteSet(DOMAIN CookieRules) /\ IsFiniteSet(DOMAIN CorsRules)
  <2>1. IsFiniteSet({"secure", "httponly", "samesite"}) /\ IsFiniteSet({"any origin", "with credentials"})
    BY EnumeratedAreFinite
  <2>2. /\ IsFiniteSet(About("cookie", {"secure", "httponly", "samesite"}))
        /\ IsFiniteSet(About("cors", {"any origin", "with credentials"}))
    BY <2>1, AboutIsFinite, Zenon
  <2>. QED BY <2>2, CookieRulesAre, CorsRulesAre
<1>4. IsFiniteSet(DOMAIN MetadataRules)
  <2>1. IsFiniteSet(About("file", PublicFiles)) /\ IsFiniteSet({<<"missing", "security.txt">>})
    BY AboutIsFinite, EnumeratedAreFinite DEF PublicFiles
  <2>. QED BY <2>1, FS_Union, MetadataRulesAre
<1>5. IsFiniteSet(DOMAIN Rules)
  <2>. DEFINE rest == {<<"missing", "caa">>, <<"page", "technology">>, <<"page", "references">>,
                       <<"adequate", "tls">>, <<"adequate", "headers">>}
  <2>1. IsFiniteSet(rest)
    BY EnumeratedAreFinite
  <2>2. DOMAIN Rules = DOMAIN TLSRules \cup DOMAIN HeaderRules \cup DOMAIN CookieRules
                       \cup DOMAIN CorsRules \cup DOMAIN MetadataRules \cup rest
    BY RulesAre
  <2>. HIDE DEF rest
  <2>. QED BY <1>1, <1>2, <1>3, <1>4, <2>1, <2>2, FS_Union
<1>6. IsFiniteSet(ZapFacts)
  <2>. DEFINE f == [i \in DOMAIN Alerts |-> <<"zap", Alerts[i].alert>>]
  <2>1. PICK n \in Nat : DOMAIN Alerts = 1 .. n
    BY PassiveScanAssumption
  <2>2. IsFiniteSet(DOMAIN Alerts)
    BY <2>1, FS_Interval
  <2>3. f \in Surjection(DOMAIN Alerts, ZapFacts)
    BY DEF Surjection, ZapFacts
  <2>. HIDE DEF f
  <2>. QED BY <2>2, <2>3, FS_Surjection
<1>. QED BY <1>5, <1>6, FS_Union DEF AllTitles

(* The findings of one severity that count cost at least 1.6 points if there are any, and
   nothing if there are none or they are informational. *)
LEMMA CostIs ==
  ASSUME TypeOK, NEW severity \in DOMAIN Deduction
  PROVE  LET these == {title \in Counted(findings) : findings[title].severity = severity} IN
         /\ Cost(severity, findings) \in Nat
         /\ severity = "INFO" \/ these = {} => Cost(severity, findings) = 0
         /\ severity # "INFO" /\ these # {} => Cost(severity, findings) >= 16
<1>. DEFINE these == {title \in Counted(findings) : findings[title].severity = severity}
            Of(factor) == {title \in Counted(findings) : /\ findings[title].severity = severity
                                                         /\ Factor(findings[title].confidence) = factor}
            points == 10 * Cardinality(Of(10)) + 7 * Cardinality(Of(7)) + 4 * Cardinality(Of(4))
<1>1. Cost(severity, findings) = Deduction[severity] * points
  BY DEF Cost
<1>2. ASSUME NEW factor PROVE IsFiniteSet(Of(factor))
  <2>1. Of(factor) \in SUBSET AllTitles
    BY TablesAre DEF TypeOK, Counted
  <2>. QED BY <2>1, TitlesAreFinite, FS_Subset
<1>3. ASSUME NEW factor PROVE /\ Cardinality(Of(factor)) \in Nat
                              /\ Cardinality(Of(factor)) = 0 <=> Of(factor) = {}
  BY <1>2, FS_CardinalityType, FS_EmptySet
<1>4. these = Of(10) \cup Of(7) \cup Of(4)
  BY DEF Factor
<1>5. points \in Nat /\ (these = {} => points = 0) /\ (these # {} => points >= 4)
  <2>. HIDE DEF Of, these
  <2>. DEFINE x == Cardinality(Of(10)) y == Cardinality(Of(7)) z == Cardinality(Of(4))
  <2>1. x \in Nat /\ y \in Nat /\ z \in Nat
    BY <1>3
  <2>2. these = {} => x = 0 /\ y = 0 /\ z = 0
    BY <1>3, <1>4
  <2>3. these # {} => x # 0 \/ y # 0 \/ z # 0
    BY <1>3, <1>4
  <2>. HIDE DEF x, y, z
  <2>4. points = 10 * x + 7 * y + 4 * z
    BY DEF x, y, z
  <2>. QED BY <2>1, <2>2, <2>3, <2>4
<1>6. /\ Deduction[severity] \in {35, 20, 10, 4, 0}
      /\ Deduction[severity] = 0 <=> severity = "INFO"
  BY Severities DEF Deduction
<1>. HIDE DEF points, these
<1>7. /\ Cost(severity, findings) \in Nat
      /\ severity = "INFO" \/ these = {} => Cost(severity, findings) = 0
      /\ severity # "INFO" /\ these # {} => Cost(severity, findings) >= 16
  BY <1>1, <1>5, <1>6
<1>. QED BY <1>7 DEF these

LEMMA ScoreIs ==
  ASSUME NEW tenths \in Nat, tenths = 0 \/ tenths >= 16, Tenths(findings) = tenths
  PROVE  100 \in Scores(findings) <=> tenths = 0
<1>1. ASSUME NEW points \in Nat
      PROVE  Min({100, points}) \in {100, points} /\ Min({100, points}) <= points
  <2>1. {100, points} # {} /\ {100, points} \subseteq Nat
    OBVIOUS
  <2>. QED BY <2>1, LeastIs
<1>2. Scores(findings) = {100 - Min({100, points}) : points \in {(tenths + 4) \div 10, (tenths + 5) \div 10}}
  BY DEF Scores
<1>3. CASE tenths = 0
  <2>1. (tenths + 4) \div 10 = 0
    BY <1>3
  <2>2. Min({100, 0}) = 0
    BY <1>1
  <2>. QED BY <1>2, <1>3, <2>1, <2>2
<1>4. CASE tenths >= 16
  <2>1. /\ (tenths + 4) \div 10 \in Nat /\ (tenths + 4) \div 10 >= 1
        /\ (tenths + 5) \div 10 \in Nat /\ (tenths + 5) \div 10 >= 1
    BY <1>4
  <2>2. \A points \in {(tenths + 4) \div 10, (tenths + 5) \div 10} : 100 - Min({100, points}) # 100
    BY <1>1, <2>1
  <2>. QED BY <1>2, <1>4, <2>2
<1>. QED BY <1>3, <1>4

(* "100" is said of a target if and only if nothing above INFO is open or acknowledged. *)
THEOREM FullScores == Spec => []FullScoreIsClean
<1>1. TypeOK => FullScoreIsClean
  <2>. SUFFICES ASSUME TypeOK PROVE FullScoreIsClean
    OBVIOUS
  <2>. DEFINE These(severity) == {title \in Counted(findings) : findings[title].severity = severity}
              Clean == \A title \in Counted(findings) : findings[title].severity = "INFO"
  <2>1. Clean <=> \A severity \in {"CRITICAL", "HIGH", "MEDIUM", "LOW"} : These(severity) = {}
    <3>1. \A title \in Counted(findings) :
              findings[title].severity \in {"CRITICAL", "HIGH", "MEDIUM", "LOW", "INFO"}
      <4>1. \A title \in DOMAIN findings : findings[title] \in Finding
        BY TablesAre DEF TypeOK
      <4>. QED BY <4>1, Severities DEF Counted, Finding
    <3>. QED BY <3>1
  <2>2. \A severity \in {"CRITICAL", "HIGH", "MEDIUM", "LOW"} :
           /\ Cost(severity, findings) \in Nat
           /\ These(severity) = {} => Cost(severity, findings) = 0
           /\ These(severity) # {} => Cost(severity, findings) >= 16
    BY CostIs, Severities
  <2>3. Cost("INFO", findings) = 0
    BY CostIs, Severities
  <2>. HIDE DEF These
  <2>4. /\ Tenths(findings) \in Nat
        /\ Clean => Tenths(findings) = 0
        /\ ~Clean => Tenths(findings) >= 16
    <3>. HIDE DEF Clean
    <3>1. Tenths(findings) = Cost("CRITICAL", findings) + Cost("HIGH", findings)
                             + Cost("MEDIUM", findings) + Cost("LOW", findings)
      BY <2>2, <2>3 DEF Tenths
    <3>2. Clean => /\ Cost("CRITICAL", findings) = 0 /\ Cost("HIGH", findings) = 0
                   /\ Cost("MEDIUM", findings) = 0 /\ Cost("LOW", findings) = 0
      BY <2>1, <2>2
    <3>3. ~Clean => \/ Cost("CRITICAL", findings) >= 16 \/ Cost("HIGH", findings) >= 16
                    \/ Cost("MEDIUM", findings) >= 16 \/ Cost("LOW", findings) >= 16
      BY <2>1, <2>2
    <3>4. /\ Cost("CRITICAL", findings) \in Nat /\ Cost("HIGH", findings) \in Nat
          /\ Cost("MEDIUM", findings) \in Nat /\ Cost("LOW", findings) \in Nat
      BY <2>2
    <3>. QED BY <3>1, <3>2, <3>3, <3>4
  <2>5. 100 \in Scores(findings) <=> Clean
    BY <2>4, ScoreIs
  <2>. QED BY <2>5 DEF FullScoreIsClean, Counted
<1>. QED BY <1>1, TypeCorrect, PTL

-----------------------------------------------------------------------------
(* The loop of deduplicate_candidates, of any documents.  It shares no state with a scan. *)
CONSTANTS Methods, Urls, Names, Sources, Upper, HttpMethods, InScope
VARIABLES pending, seen, merged

D == INSTANCE Discovery

(* One more candidate adds what it says to the entry of its key, and to no other. *)
LEMMA OneMore ==
    ASSUME NEW S, NEW c, NEW key
    PROVE  D!Of(S \cup {c}, key) =
               IF key = D!Key(c) THEN D!Of(S, key) \cup {c} ELSE D!Of(S, key)
BY DEF D!Of

LEMMA KeysOfOneMore ==
    ASSUME NEW S, NEW c
    PROVE  {D!Key(d) : d \in S \cup {c}} = {D!Key(d) : d \in S} \cup {D!Key(c)}
OBVIOUS

LEMMA UnionOfOneMore ==
    ASSUME NEW S, NEW c, NEW key \in {D!Key(d) : d \in S \cup {c}}
    PROVE  D!Union(S \cup {c})[key] =
               IF key # D!Key(c) THEN D!Union(S)[key]
               ELSE IF key \in DOMAIN D!Union(S) THEN D!Joined(c, D!Union(S)[key])
               ELSE [parameters |-> c.parameters, sources |-> c.sources]
<1>. DEFINE P(T) == UNION {d.parameters : d \in T}
            Q(T) == UNION {d.sources : d \in T}
<1>1. /\ DOMAIN D!Union(S) = {D!Key(d) : d \in S}
      /\ \A k \in DOMAIN D!Union(S) : D!Union(S)[k] = [parameters |-> P(D!Of(S, k)), sources |-> Q(D!Of(S, k))]
  BY DEF D!Union
<1>2. D!Union(S \cup {c})[key] = [parameters |-> P(D!Of(S \cup {c}, key)), sources |-> Q(D!Of(S \cup {c}, key))]
  BY DEF D!Union
<1>3. ASSUME NEW T
      PROVE P(T \cup {c}) = c.parameters \cup P(T) /\ Q(T \cup {c}) = c.sources \cup Q(T)
  <2>1. P(T \cup {c}) = c.parameters \cup P(T)
    OBVIOUS
  <2>2. Q(T \cup {c}) = c.sources \cup Q(T)
    OBVIOUS
  <2>. QED BY <2>1, <2>2
<1>4. CASE key # D!Key(c)
  <2>1. D!Of(S \cup {c}, key) = D!Of(S, key)
    BY <1>4, OneMore
  <2>2. key \in DOMAIN D!Union(S)
    BY <1>1, <1>4, KeysOfOneMore
  <2>. QED BY <1>1, <1>2, <1>4, <2>1, <2>2
<1>5. CASE key = D!Key(c)
  <2>1. D!Of(S \cup {c}, key) = D!Of(S, key) \cup {c}
    BY <1>5, OneMore
  <2>2. D!Union(S \cup {c})[key] = [parameters |-> c.parameters \cup P(D!Of(S, key)),
                                 sources    |-> c.sources \cup Q(D!Of(S, key))]
    BY <1>2, <1>3, <2>1
  <2>3. CASE key \in DOMAIN D!Union(S)
    <3>1. D!Union(S)[key] = [parameters |-> P(D!Of(S, key)), sources |-> Q(D!Of(S, key))]
      BY <1>1, <2>3
    <3>2. D!Union(S)[key].parameters = P(D!Of(S, key)) /\ D!Union(S)[key].sources = Q(D!Of(S, key))
      <4>. HIDE DEF P, Q
      <4>. QED BY <3>1
    <3>. QED BY <1>5, <2>2, <2>3, <3>2 DEF D!Joined
  <2>4. CASE key \notin DOMAIN D!Union(S)
    <3>1. D!Of(S, key) = {}
      BY <1>1, <2>4 DEF D!Of
    <3>2. P({}) = {} /\ Q({}) = {}
      OBVIOUS
    <3>. QED BY <1>5, <2>2, <2>4, <3>1, <3>2
  <2>. QED BY <2>3, <2>4
<1>. QED BY <1>4, <1>5

(* deduplicate_candidates returns, of any list in any order and with any repetitions, the
   union of what the candidates say. *)
THEOREM Deduplicated == D!Spec => []D!MergedIsUnion
<1>1. D!Init => D!MergedIsUnion
  BY DEF D!Init, D!MergedIsUnion, D!Union
<1>2. D!MergedIsUnion /\ [D!Next]_(D!vars) => D!MergedIsUnion'
  <2>. SUFFICES ASSUME D!MergedIsUnion, [D!Next]_(D!vars) PROVE D!MergedIsUnion'
    OBVIOUS
  <2>1. ASSUME NEW c \in pending \cup seen, D!Merge(c) PROVE D!MergedIsUnion'
    <3>1. /\ seen' = seen \cup {c}
          /\ DOMAIN merged = {D!Key(d) : d \in seen}
      BY <2>1 DEF D!Merge, D!MergedIsUnion, D!Union
    <3>2. DOMAIN merged' = {D!Key(d) : d \in seen'} /\ DOMAIN D!Union(seen') = {D!Key(d) : d \in seen'}
      BY <2>1, <3>1, KeysOfOneMore DEF D!Merge, D!Union
    <3>3. ASSUME NEW key \in DOMAIN merged' PROVE merged'[key] = D!Union(seen')[key]
      BY <2>1, <3>1, <3>2, UnionOfOneMore, KeysOfOneMore DEF D!Merge, D!MergedIsUnion
    <3>4. /\ merged' = [key \in DOMAIN merged' |-> merged'[key]]
          /\ D!Union(seen') = [key \in DOMAIN D!Union(seen') |-> D!Union(seen')[key]]
      BY <2>1 DEF D!Merge, D!Union
    <3>. QED BY <3>2, <3>3, <3>4 DEF D!MergedIsUnion
  <2>2. CASE UNCHANGED D!vars
    BY <2>2 DEF D!vars, D!MergedIsUnion
  <2>. QED BY <2>1, <2>2 DEF D!Next
<1>. QED BY <1>1, <1>2, PTL DEF D!Spec

(* What the loop has to work on is inside the scope, and so is what it returns. *)
THEOREM DiscoveredInScope == D!Spec => []D!MergedInScope
<1>. DEFINE Inside == \A c \in pending \cup seen : c.url \in InScope /\ Upper[c.method] \in HttpMethods
            IInv == Inside /\ D!MergedInScope
<1>1. D!Init => IInv
  BY DEF D!Init, D!Candidates, D!MergedInScope
<1>2. IInv /\ [D!Next]_(D!vars) => IInv'
  <2>. SUFFICES ASSUME IInv, [D!Next]_(D!vars) PROVE IInv'
    OBVIOUS
  <2>1. ASSUME NEW c \in pending \cup seen, D!Merge(c) PROVE IInv'
    <3>1. Inside'
      BY <2>1 DEF D!Merge
    <3>2. DOMAIN merged' = DOMAIN merged \cup {D!Key(c)}
      BY <2>1 DEF D!Merge
    <3>3. D!Key(c)[1] \in HttpMethods /\ D!Key(c)[2] \in InScope
      BY <2>1 DEF D!Key
    <3>. QED BY <2>1, <3>1, <3>2, <3>3 DEF D!Merge, D!MergedInScope
  <2>2. CASE UNCHANGED D!vars
    BY <2>2 DEF D!vars, D!MergedInScope
  <2>. QED BY <2>1, <2>2 DEF D!Next
<1>. QED BY <1>1, <1>2, PTL DEF D!Spec
=============================================================================
