----------------------------- MODULE PassiveScan -----------------------------
(***************************************************************************)
(* One passive scan after the other of one target (worker/cli.py: the loop *)
(* of run_once over the scanners), the site that changes meanwhile, the    *)
(* ZAP process (safescope_scanners/zap.py) and the analysts who triage the *)
(* findings (apps/api/main.py: update_finding_status).                     *)
(*                                                                         *)
(* The queue is reduced to what one worker and one target leave of it (see *)
(* ScanQueue), a request to its answer or to the exception that ends it    *)
(* (see GatedTransport).                                                   *)
(***************************************************************************)
EXTENDS PassiveAnalysis

CONSTANTS
    NJobs,       \* how many scans may be enqueued
    Facts,       \* the facts that may be true of the site
    MaxFacts,    \* how many of them at a time
    MaxChanges,  \* how often the site changes
    Denials,     \* sets of requests: what the exclusions of the scope may deny
    Alerts,      \* the alerts ZAP may have to report, in its order
    MaxTriages,  \* how often an analyst sets a status
    Sqlite       \* the local database, else PostgreSQL

Jobs  == 1 .. NJobs
NoJob == 0

ZapFacts == {<<"zap", Alerts[i].alert>> : i \in DOMAIN Alerts}

(* Titles a scanner concludes from what it has not heard: no facts of a site. *)
Conclusions == {<<"adequate", "tls">>, <<"adequate", "headers">>, <<"missing", "security.txt">>}

ASSUME PassiveScanAssumption ==
    /\ NJobs \in Nat /\ MaxFacts \in Nat /\ MaxChanges \in Nat /\ MaxTriages \in Nat
    /\ Alerts \in Seq([alert : STRING, riskcode : Int, riskdesc : SUBSET STRING,
                       confidence : STRING, uri : STRING])
    /\ Facts \subseteq (DOMAIN Rules \cup ZapFacts) \ Conclusions
    /\ Sqlite \in BOOLEAN

VARIABLES
    https,     \* the scheme of base_url
    denied,    \* the requests the frozen exclusions deny
    site,      \* the facts that are true of the site
    changes,   \* how often the site has changed
    jobs,      \* ScanJob rows: the status, and whether zap-baseline is in scanners_allowed
    findings,  \* Finding rows by title: severity, confidence, status
    evidence,  \* Evidence rows
    triages,   \* how often a status has been set
    worker,    \* the local state of run_once
    child,     \* the process the worker has started for ZAP is running
    engine,    \* ZAP is running
    history    \* of the last scan: the facts true at some time and all the time, the
               \* requests that failed, and whether its worker was killed

target   == <<https, denied>>
world    == <<site, changes, history>>
database == <<jobs, findings, evidence>>
zap      == <<child, engine>>
vars     == <<target, world, database, triages, worker, zap>>

(* ALL_PASSIVE_SCANNERS, and the requests each makes in its order. *)
Plan == <<
    <<"tls-check", "probe">>, <<"tls-check", "head">>,
    <<"security-headers", "page">>, <<"cookie-flags", "page">>, <<"cors-policy", "page">>,
    <<"dns-hygiene", "none">>,
    <<"technology-fingerprint", "page">>, <<"javascript-references", "page">>,
    <<"public-metadata", "/robots.txt">>, <<"public-metadata", "/sitemap.xml">>,
    <<"public-metadata", "/security.txt">>, <<"public-metadata", "/.well-known/security.txt">>,
    <<"zap-baseline", "process">> >>

Finished == Len(Plan) + 1

(* "at" a step of the Plan; "heard" by the current scanner; "found" and "shown": the
   findings and the evidence in the open transaction. *)
Idle == [at |-> 0, job |-> NoJob, heard |-> {}, found |-> <<>>, shown |-> {}]

Scanning == worker.at \in DOMAIN Plan
Scanner  == Plan[worker.at][1]
Request  == Plan[worker.at][2]

(* A policy a site has or lacks, and its strength if it has one. *)
Consistent(facts) ==
    /\ Cardinality(facts) <= MaxFacts
    /\ ~ {<<"hsts", "missing">>, <<"hsts", "short">>} \subseteq facts
    /\ ~ {<<"cors", "any origin">>, <<"cors", "with credentials">>} \subseteq facts
    /\ <<"missing", "csp">> \in facts => \A fact \in facts : fact[1] # "csp"

Init ==
    /\ https \in BOOLEAN /\ denied \in Denials
    /\ site \in {facts \in SUBSET Facts : Consistent(facts)}
    /\ jobs = [j \in Jobs |-> [status |-> "ABSENT", zap |-> FALSE]]
    /\ findings = <<>> /\ evidence = {}
    /\ worker = Idle
    /\ child = FALSE /\ engine = FALSE
    /\ changes = 0 /\ triages = 0
    /\ history = [job |-> NoJob, ever |-> {}, always |-> {}, failed |-> {}, killed |-> FALSE]

-----------------------------------------------------------------------------
(* The site and the API *)

(* Somebody adds or repairs something. *)
SiteChanges ==
    /\ changes < MaxChanges
    /\ \E fact \in Facts :
           LET next == IF fact \in site THEN site \ {fact} ELSE site \cup {fact} IN
           /\ Consistent(next)
           /\ site' = next
           /\ history' = IF worker = Idle THEN history
                         ELSE [history EXCEPT !.ever = @ \cup next, !.always = @ \cap next]
    /\ changes' = changes + 1
    /\ UNCHANGED <<target, database, triages, worker, zap>>

(* enqueue_passive_scan, with ZAP or without: 409 while a job is pending or running. *)
Enqueue ==
    /\ \A j \in Jobs : jobs[j].status \notin {"PENDING", "RUNNING"}
    /\ \E j \in Jobs, withZap \in BOOLEAN :
           /\ jobs[j].status = "ABSENT" /\ \A i \in Jobs : i < j => jobs[i].status # "ABSENT"
           /\ jobs' = [jobs EXCEPT ![j] = [status |-> "PENDING", zap |-> withZap]]
    /\ UNCHANGED <<target, world, findings, evidence, triages, worker, zap>>

(* The worker's transaction holds SQLite's lock from its first row on; PostgreSQL locks
   the rows it updates. *)
Locked(title) == IF Sqlite THEN worker.found # <<>> ELSE title \in DOMAIN worker.found

(* update_finding_status: any status after any other. *)
Triage ==
    /\ triages < MaxTriages
    /\ \E title \in DOMAIN findings, status \in {"OPEN", "ACKNOWLEDGED", "FIXED", "ACCEPTED_RISK"} :
           /\ ~Locked(title)
           /\ findings[title].status # status
           /\ findings' = [findings EXCEPT ![title].status = status]
    /\ triages' = triages + 1
    /\ UNCHANGED <<target, world, jobs, evidence, worker, zap>>

-----------------------------------------------------------------------------
(* run_once *)

SetJob(status) == jobs' = [jobs EXCEPT ![worker.job].status = status]

Claim ==
    /\ worker = Idle
    /\ \E j \in Jobs :
           /\ jobs[j].status = "PENDING"
           /\ jobs' = [jobs EXCEPT ![j].status = "RUNNING"]
           /\ worker' = [Idle EXCEPT !.at = 1, !.job = j]
           /\ history' = [job |-> j, ever |-> site, always |-> site, failed |-> {}, killed |-> FALSE]
    /\ UNCHANGED <<target, site, changes, findings, evidence, triages, zap>>

(* zap-baseline is the last scanner, and only some snapshots allow it. *)
StepAfter(at) == IF at + 1 = Len(Plan) /\ ~jobs[worker.job].zap THEN Finished ELSE at + 1

(* Mutant: the rows of a scanner replace those of the scanners before it. *)
ReturnsAlone(next, observations) ==
    worker' = [worker EXCEPT
        !.at = next, !.heard = {},
        !.found = observations.rated,
        !.shown = {[job |-> worker.job, source |-> Scanner, title |-> place.title,
                    url |-> place.url] : place \in observations.places}]

(* The scanner returns; _persist_observation writes each finding with its evidence. *)
Returns(next, observations) ==
    worker' = [worker EXCEPT
        !.at = next, !.heard = {},
        !.found = Updated(@, observations.rated),
        !.shown = @ \cup {[job |-> worker.job, source |-> Scanner, title |-> place.title,
                           url |-> place.url] : place \in observations.places}]

LastRequest == worker.at < Len(Plan) => Plan[worker.at + 1][1] # Scanner

(* The scanner has an answer: it asks on, or it has heard everything and returns. *)
Hears(facts) ==
    IF LastRequest
    THEN Returns(StepAfter(worker.at), Observations(Scanner, worker.heard \cup facts))
    ELSE worker' = [worker EXCEPT !.at = @ + 1, !.heard = @ \cup facts]

Handshake == site \cap Unreachable = {}

(* GatedTransport.probe_tls, over TLS whatever the scheme. *)
Probe ==
    /\ Scanning /\ Request = "probe"
    /\ Request \notin denied /\ Handshake
    /\ Hears(Answer("probe", site))
    /\ UNCHANGED <<target, world, database, triages, zap>>

(* An OSError, of the server's TLS or of the network, is an observation: no HEAD is sent. *)
ProbeFails ==
    /\ Scanning /\ Request = "probe"
    /\ Request \notin denied
    /\ Returns(worker.at + 2, Observations("tls-check", {<<"tls", "failed">>}))
    /\ history' = [history EXCEPT !.failed = @ \cup {"probe"}]
    /\ UNCHANGED <<target, site, changes, database, triages, zap>>

ReadHsts ==
    /\ Scanning /\ Request = "head"
    /\ Request \notin denied /\ Handshake
    /\ Hears(Answer("head", site))
    /\ UNCHANGED <<target, world, database, triages, zap>>

(* Any exception, a denial included, is taken for an answer without the header. *)
HstsUnread ==
    /\ Scanning /\ Request = "head"
    /\ Hears({<<"hsts", "missing">>})
    /\ history' = [history EXCEPT !.failed = @ \cup {"head"}]
    /\ UNCHANGED <<target, site, changes, database, triages, zap>>

Get ==
    /\ Scanning /\ Request \in {"page"} \cup PublicFiles
    /\ Request \notin denied /\ (https => Handshake)
    /\ Hears(Answer(Request, site))
    /\ UNCHANGED <<target, world, database, triages, zap>>

(* DnsScanner asks nobody. *)
ReadMetadata ==
    /\ Scanning /\ Request = "none"
    /\ Hears({})
    /\ UNCHANGED <<target, world, database, triages, zap>>

(* The handler around the loop records the failure, unless its rollback has ended a
   transaction: that expires the objects it reads next, and the job stays RUNNING. *)
Fails ==
    /\ IF worker.found = <<>> THEN SetJob("FAILED") ELSE UNCHANGED jobs
    /\ worker' = Idle
    /\ UNCHANGED <<findings, evidence>>

(* Every other exception of a request ends the scan: a denial, a name that does not
   resolve, the network, a handshake. *)
Raises ==
    /\ Scanning /\ Request \in {"probe", "page"} \cup PublicFiles
    /\ Fails
    /\ UNCHANGED <<target, world, triages, zap>>

(* A statement of the transaction fails, its commit included. *)
StorageFails ==
    /\ worker.at = Finished \/ (Scanning /\ LastRequest /\ Request # "process")
    /\ worker' = Idle
    /\ UNCHANGED <<target, world, database, triages, zap>>

(* Mutant: each row of the worker is written whole, as it was when the title was new. *)
CompleteReopening ==
    /\ worker.at = Finished
    /\ findings' = Updated(findings,
           [title \in DOMAIN worker.found |->
               [severity |-> worker.found[title].severity,
                confidence |-> worker.found[title].confidence, status |-> "OPEN"]])
    /\ evidence' = evidence \cup worker.shown
    /\ SetJob("COMPLETED")
    /\ worker' = Idle
    /\ UNCHANGED <<target, world, triages, zap>>

(* The commit: new findings are OPEN, the UPDATE of the others leaves the status alone. *)
Complete ==
    /\ worker.at = Finished
    /\ findings' = Updated(findings,
           [title \in DOMAIN worker.found |->
               [severity |-> worker.found[title].severity,
                confidence |-> worker.found[title].confidence,
                status |-> IF title \in DOMAIN findings THEN findings[title].status ELSE "OPEN"]])
    /\ evidence' = evidence \cup worker.shown
    /\ SetJob("COMPLETED")
    /\ worker' = Idle
    /\ UNCHANGED <<target, world, triages, zap>>

-----------------------------------------------------------------------------
(* ZAP *)

AtZap == Scanning /\ Request = "process"

(* _policy_allows looks at the exclusions once, for base_url. *)
StartZap ==
    /\ AtZap /\ ~child
    /\ "page" \notin denied
    /\ child' = TRUE /\ engine' = TRUE
    /\ UNCHANGED <<target, world, database, triages, worker>>

(* The exclusions deny it, or the runner is gone since the job was enqueued. *)
ZapUnavailable ==
    /\ AtZap /\ ~child
    /\ Fails
    /\ UNCHANGED <<target, world, triages, zap>>

(* The process ends with its report; an alert is about a fact of the site. *)
ZapReports ==
    /\ AtZap /\ child
    /\ child' = FALSE /\ engine' = FALSE
    /\ Returns(Finished, ZapObservations(
           [i \in {i \in DOMAIN Alerts : <<"zap", Alerts[i].alert>> \in site} |-> Alerts[i]]))
    /\ UNCHANGED <<target, world, database, triages>>

(* It ends without one, or with one that is no JSON object or cannot be stored. *)
ZapFails ==
    /\ AtZap /\ child
    /\ child' = FALSE /\ engine' = FALSE
    /\ Fails
    /\ UNCHANGED <<target, world, triages>>

(* Mutant: the process is left to itself. *)
ZapTimesOutAlone ==
    /\ AtZap /\ child
    /\ Fails
    /\ UNCHANGED <<target, world, triages, zap>>

(* Mutant: communicate() is awaited without a limit. *)
ZapNeverTimesOut == FALSE

(* 300 seconds: the process is killed and waited for; the scanner it drives, a container
   or a daemon, may go on. *)
ZapTimesOut ==
    /\ AtZap /\ child
    /\ child' = FALSE /\ engine' \in BOOLEAN
    /\ Fails
    /\ UNCHANGED <<target, world, triages>>

(* What has no worker any more ends some day. *)
OrphanEnds ==
    /\ engine /\ ~AtZap
    /\ child' = FALSE /\ engine' = FALSE
    /\ UNCHANGED <<target, world, database, triages, worker>>

(* The worker is killed, and started again: the database rolls back. *)
Crash ==
    /\ worker # Idle
    /\ worker' = Idle
    /\ history' = [history EXCEPT !.killed = TRUE]
    /\ UNCHANGED <<target, site, changes, database, triages, zap>>

RunOnce ==
    \/ Claim \/ Probe \/ ProbeFails \/ ReadHsts \/ HstsUnread \/ Get \/ ReadMetadata
    \/ Raises \/ StorageFails \/ Complete
    \/ StartZap \/ ZapUnavailable \/ ZapTimesOut

Zap == ZapReports \/ ZapFails \/ OrphanEnds

Next == RunOnce \/ Zap \/ Crash \/ SiteChanges \/ Enqueue \/ Triage

Spec == Init /\ [][Next]_vars

(* Requests and the ZAP process have timeouts: the worker goes on.  ZAP owes nothing. *)
FairSpec == Spec /\ WF_vars(RunOnce)

-----------------------------------------------------------------------------
(* Properties *)

Completed(j) == j # NoJob /\ jobs[j].status = "COMPLETED"

(* The evidence of the last scan, once it is committed. *)
Latest == {e \in evidence : e.job = history.job}

(* What a title of the scanners claims of the site was so at some time of the scan, or the
   scanner saw a request fail: no answer of one scanner or of one scan is taken for
   another's. *)
Justified(title) ==
    CASE title = <<"tls", "failed">> -> "probe" \in history.failed
      [] title = <<"hsts", "missing">> -> title \in history.ever \/ "head" \in history.failed
      [] title = <<"adequate", "tls">> -> history.always \cap DOMAIN TLSRules = {}
      [] title = <<"adequate", "headers">> -> history.always \cap DOMAIN HeaderRules = {}
      [] title = <<"missing", "security.txt">> -> history.always \cap About("file", SecurityTxt) = {}
      [] title = <<"missing", "caa">> -> TRUE     \* of every target: nobody asks the DNS
      [] OTHER -> title \in history.ever

ReportedWasSeen == \A e \in Latest : Justified(e.title)

(* What was so during the whole scan is a finding with evidence of that scan, if the scan
   completed.  A server no handshake succeeds with is reported as that, whatever is wrong
   with its certificate; cookies are left to CookiesReported. *)
Shown(fact) == \E e \in Latest : e.title = fact /\ fact \in DOMAIN findings

SeenIsReported ==
    Completed(history.job) =>
        \A fact \in history.always :
            CASE fact \in Unreachable -> Shown(<<"tls", "failed">>)
              [] fact = <<"tls", "expiring">> -> Shown(fact) \/ Shown(<<"tls", "failed">>)
              [] fact = <<"hsts", "short">> -> Shown(fact) \/ history.failed # {}
              [] fact[1] = "cookie" -> TRUE
              [] fact[1] = "zap" -> Shown(fact) \/ ~jobs[history.job].zap
              [] OTHER -> Shown(fact)

(* docs/03-MODOS-E-POLITICA.md: a passive scan observes cookies. *)
CookiesReported ==
    Completed(history.job) => \A fact \in history.always : fact[1] = "cookie" => Shown(fact)

(* What an analyst has decided about a finding stays, whatever later scans observe. *)
TriageKept ==
    [][\A title \in DOMAIN findings :
           findings'[title].status # findings[title].status => triages' # triages]_vars

(* No process outlives the scan that started it, unless the worker was killed. *)
ChildGone == child => AtZap \/ history.killed

(* A scan ends, whatever ZAP does. *)
ScanEnds == (worker # Idle) ~> (worker = Idle)

(* "100" is said of a target, on the dashboard or in a report, if and only if nothing above
   INFO is open or acknowledged. *)
FullScoreIsClean ==
    100 \in Scores(findings) <=>
        \A title \in DOMAIN findings :
            findings[title].status \in {"OPEN", "ACKNOWLEDGED"} => findings[title].severity = "INFO"

(* What is said to be fixed is not shown again as such. *)
FixedMeansGone ==
    [][\A e \in evidence' \ evidence : findings'[e.title].status # "FIXED"]_vars

(* docs/11-RELATORIOS-E-ZAP.md: "tempo máximo de 300 segundos". *)
EngineGone == engine => AtZap

(* A failed HEAD is no evidence of a missing header. *)
HstsWasMissing ==
    \A e \in Latest : e.title = <<"hsts", "missing">> => e.title \in history.ever
=============================================================================
