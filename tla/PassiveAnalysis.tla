--------------------------- MODULE PassiveAnalysis ---------------------------
(***************************************************************************)
(* What the passive scanners make of what they receive                     *)
(* (safescope_scanners), what is kept of it (models/normalization.py) and  *)
(* the score it costs (scoring/score.py, safescope_report/report.py).      *)
(*                                                                         *)
(* A site is the set of the facts about it that some scanner has a rule    *)
(* for, and a fact is the title of the finding it should become: a pair of *)
(* the rule and what it is about.  Confidences are percentages.            *)
(***************************************************************************)
EXTENDS Integers, FiniteSets, Sequences, FiniteSetsExt

(* The titles of one kind. *)
About(kind, names) == {<<kind, name>> : name \in names}

Rule(kind, names, severity, confidence) ==
    [title \in About(kind, names) |-> [severity |-> severity, confidence |-> confidence]]

(* Tables in one: of rules, which agree on a title they share, and of rows over older ones. *)
Joined(tables) ==
    [title \in UNION {DOMAIN table : table \in tables} |->
        (CHOOSE table \in tables : title \in DOMAIN table)[title]]

Updated(rows, new) ==
    [title \in DOMAIN rows \cup DOMAIN new |->
        IF title \in DOMAIN new THEN new[title] ELSE rows[title]]

PublicFiles == {"/robots.txt", "/sitemap.xml", "/security.txt", "/.well-known/security.txt"}
SecurityTxt == {"/security.txt", "/.well-known/security.txt"}

TLSRules == Joined({
    Rule("tls", {"failed", "expired"}, "CRITICAL", 100),
    Rule("tls", {"self-signed", "old protocol", "weak cipher"}, "HIGH", 100),
    Rule("tls", {"expiring"}, "MEDIUM", 100),
    Rule("hsts", {"missing"}, "MEDIUM", 100), Rule("hsts", {"short"}, "LOW", 90)})

HeaderRules == Joined({
    Rule("hsts", {"missing"}, "MEDIUM", 100),
    Rule("missing", {"csp"}, "HIGH", 100), Rule("missing", {"frame options"}, "MEDIUM", 100),
    Rule("missing", {"nosniff", "referrer policy", "permissions policy"}, "LOW", 100),
    Rule("csp", {"unsafe-inline", "unsafe-eval", "data:", "*"}, "MEDIUM", 90),
    Rule("leak", {"server", "x-powered-by", "x-aspnet-version", "x-aspnetmvc-version"}, "LOW", 90),
    Rule("deprecated", {"x-xss-protection"}, "INFO", 80),
    Rule("missing", {"cache-control"}, "INFO", 60)})

CookieRules == Joined({
    Rule("cookie", {"secure", "httponly"}, "MEDIUM", 90), Rule("cookie", {"samesite"}, "LOW", 90)})

CorsRules == Joined({
    Rule("cors", {"any origin"}, "LOW", 100), Rule("cors", {"with credentials"}, "HIGH", 90)})

MetadataRules == Joined({
    Rule("file", PublicFiles, "INFO", 100), Rule("missing", {"security.txt"}, "INFO", 90)})

Rules == Joined({
    TLSRules, HeaderRules, CookieRules, CorsRules, MetadataRules,
    Rule("missing", {"caa"}, "INFO", 70),
    Rule("page", {"technology"}, "INFO", 70), Rule("page", {"references"}, "INFO", 100),
    Rule("adequate", {"tls", "headers"}, "INFO", 100)})

(* ssl.create_default_context(), of the probe and of the pool alike, completes no handshake
   with such a server. *)
Unreachable ==
    About("tls", {"failed", "expired", "self-signed", "old protocol", "weak cipher"})

(* sanitize_headers: "[REDACTED]" is a Set-Cookie header without a cookie. *)
Sanitized(facts) == {fact \in facts : fact[1] # "cookie"}

(* What the answer to one request of a scan shows. *)
Answer(request, site) ==
    CASE request = "probe" -> {fact \in site : fact[1] = "tls"}
      [] request = "head"  -> {fact \in site : fact[1] = "hsts"}
      [] request = "page"  -> Sanitized({fact \in site : fact[1] \notin {"tls", "file", "zap"}})
      [] request \in PublicFiles -> site \cap {<<"file", request>>}
      [] OTHER -> {}

-----------------------------------------------------------------------------
(* The analyses, of the facts a scanner has heard of *)

Or(observed, otherwise) == IF observed = {} THEN {otherwise} ELSE observed

analyze_tls(heard) ==
    IF <<"tls", "failed">> \in heard THEN {<<"tls", "failed">>}
    ELSE Or(heard \cap DOMAIN TLSRules, <<"adequate", "tls">>)

analyze_headers(heard) == Or(heard \cap DOMAIN HeaderRules, <<"adequate", "headers">>)

(* Mutant: whatever the status of the answer, the file is there. *)
public_metadata_any(heard) == About("file", PublicFiles)

public_metadata(heard) ==
    LET available == heard \cap About("file", PublicFiles)
    IN  available \cup IF available \cap About("file", SecurityTxt) = {}
                       THEN {<<"missing", "security.txt">>} ELSE {}

(* No caller of the worker supplies DNS records: analyze_dns_records sees none. *)
Titles(scanner, heard) ==
    CASE scanner = "tls-check" -> analyze_tls(heard)
      [] scanner = "security-headers" -> analyze_headers(heard)
      [] scanner = "cookie-flags" -> heard \cap DOMAIN CookieRules
      [] scanner = "cors-policy" -> heard \cap DOMAIN CorsRules
      [] scanner = "dns-hygiene" -> {<<"missing", "caa">>}
      [] scanner = "technology-fingerprint" -> heard \cap {<<"page", "technology">>}
      [] scanner = "javascript-references" -> heard \cap {<<"page", "references">>}
      [] scanner = "public-metadata" -> public_metadata(heard)

(* The rating of each title, and where it was observed.  A scanner observes a title of its
   own once: normalize_observations keeps all, in whatever order. *)
Observations(scanner, heard) ==
    LET titles == Titles(scanner, heard) IN
    [rated |-> [title \in titles |-> Rules[title]],
     places |-> {[title |-> title, url |-> IF title[1] = "file" THEN title[2] ELSE "/"] :
                    title \in titles}]

-----------------------------------------------------------------------------
(* The report of ZAP: alerts with a name, a riskcode, the severities their riskdesc names, a
   confidence and the address of the first instance, if there is one. *)

NoAddress == ""

RiskOf == [code \in 0 .. 3 |-> <<"INFO", "LOW", "MEDIUM", "HIGH">>[code + 1]]

(* The riskdesc counts only for a code that ZAP does not define: the gravest one it names. *)
zap_severity(alert) ==
    IF alert.riskcode \in 0 .. 3 THEN RiskOf[alert.riskcode]
    ELSE CASE "HIGH" \in alert.riskdesc   -> "HIGH"
           [] alert.riskdesc \cap {"HIGH", "MEDIUM"} = {"MEDIUM"} -> "MEDIUM"
           [] alert.riskdesc \cap {"HIGH", "MEDIUM", "LOW"} = {"LOW"} -> "LOW"
           [] OTHER -> "INFO"

zap_confidence(alert) ==
    CASE alert.confidence = "CONFIRMED" -> 100
      [] alert.confidence = "HIGH" -> 90
      [] alert.confidence = "MEDIUM" -> 70
      [] OTHER -> 40

parse_zap_report(alerts) ==
    [i \in DOMAIN alerts |->
        [title |-> <<"zap", alerts[i].alert>>,
         severity |-> zap_severity(alerts[i]), confidence |-> zap_confidence(alerts[i]),
         url |-> IF alerts[i].uri = NoAddress THEN "/" ELSE alerts[i].uri]]

(* normalize_observations: of the observations of one title at one address, the first of
   those of highest confidence, at the place of the first of all. *)
normalize_observations(observations) ==
    LET Same(i)   == {j \in DOMAIN observations : /\ observations[j].title = observations[i].title
                                                  /\ observations[j].url = observations[i].url}
        Surest(i) == {j \in Same(i) : \A k \in Same(i) :
                                          observations[k].confidence <= observations[j].confidence}
    IN  [i \in {i \in DOMAIN observations : i = Min(Same(i))} |-> observations[Min(Surest(i))]]

(* A row of findings is found by its title alone: of several addresses the last rates it. *)
ZapObservations(alerts) ==
    LET kept == normalize_observations(parse_zap_report(alerts)) IN
    [rated |-> [title \in {kept[i].title : i \in DOMAIN kept} |->
                   LET last == kept[Max({i \in DOMAIN kept : kept[i].title = title})]
                   IN  [severity |-> last.severity, confidence |-> last.confidence]],
     places |-> {[title |-> kept[i].title, url |-> kept[i].url] : i \in DOMAIN kept}]

-----------------------------------------------------------------------------
(* The Security Score *)

Deduction == [CRITICAL |-> 35, HIGH |-> 20, MEDIUM |-> 10, LOW |-> 4, INFO |-> 0]

(* The factors 1.0, 0.7 and 0.4 of _confidence, in tenths. *)
Factor(confidence) == IF confidence >= 90 THEN 10 ELSE IF confidence >= 65 THEN 7 ELSE 4

(* Mutant: a finding an analyst has acknowledged costs nothing. *)
CountedOpen(findings) == {title \in DOMAIN findings : findings[title].status = "OPEN"}

Counted(findings) ==
    {title \in DOMAIN findings : findings[title].status \in {"OPEN", "ACKNOWLEDGED"}}

(* The tenths of a point the findings of one severity cost. *)
Cost(severity, findings) ==
    LET Rated(factor) == Cardinality({title \in Counted(findings) :
                                          /\ findings[title].severity = severity
                                          /\ Factor(findings[title].confidence) = factor})
    IN  Deduction[severity] * (10 * Rated(10) + 7 * Rated(7) + 4 * Rated(4))

Tenths(findings) ==
    Cost("CRITICAL", findings) + Cost("HIGH", findings) + Cost("MEDIUM", findings)
    + Cost("LOW", findings) + Cost("INFO", findings)

(* calculate_security_score of a table of findings, of the dashboard and of the reports.
   The sum of the tenths is rounded; half a point may go either way, since the code adds
   up binary fractions. *)
Scores(findings) ==
    {100 - Min({100, points}) :
        points \in {(Tenths(findings) + 4) \div 10, (Tenths(findings) + 5) \div 10}}
=============================================================================
