# SafeScope in TLA+

SafeScope is a web application scanner that is only allowed to touch what its
operator was authorised to touch, and that promises to leave the audited site as it
found it. This directory holds TLA+ models of the parts of the program on which those
promises rest, the TLC configurations that check them on small instances, and proofs
for every value of the constants, checked by TLAPS. Paths are relative to the root
of the repository; `core/` stands for `packages/safescope_core/` and `scanners/` for
`packages/safescope_scanners/`.

Contents: [the system](#the-system) · [the hard parts](#what-is-hard-to-test) ·
[modules](#modules-and-how-they-correspond-to-the-code) · [runs](#runs) ·
[disagreements](#where-code-and-documentation-disagree) ·
[fairness](#fairness) · [proofs](#what-is-proved) ·
[limits](#what-is-not-modelled) · [plan](#plan) · [how to run](#how-to-run)

## The system

Two kinds of process share one database (SQLite locally, PostgreSQL in production): the
FastAPI control plane, whose handlers run concurrently, and worker processes, each an
asyncio loop that polls the queue of scan jobs. A worker also owns a directory of
restore journals on disk and talks to the audited site.

| component | state | operations | talks to |
|---|---|---|---|
| control plane API (`apps/api/main.py`, `auth.py`) | organizations, memberships, projects, targets, scopes, authorizations, audit events | create, update, delete of each; roles; `enqueue_passive_scan` | the database |
| scan queue and worker (`worker/cli.py`, `core/models/`) | `scan_jobs`, `scan_runs`, `findings`, `evidence` rows; a session per job | select, reject, claim, scan, complete, fail; poll forever | database, policy engine, transport, journal |
| policy engine (`core/policy/engine.py`) | none; produces the frozen snapshot | `can_execute`, `freeze` | API and worker call it |
| request gate, SSRF guard, kill switch (`core/policy/gate.py`) | request count, last slot, engaged flag | `evaluate`, `compute_delay`, `engage`, `disengage`, `check_ip` | reads the snapshot and the ledger |
| gated transport, pacer, pinned backend (`scanners/transport.py`, `pacing.py`, `pinned_http.py`) | DNS pins (twice: transport and backend), the adaptive rate | `request`, `execute_plan`, `probe_tls`, `pin`, `observe` | gate before every hop, DNS, site |
| mutation plan and ledger (`scanners/mutations.py`, `core/policy/ledger.py`) | what the run owns, what it has a snapshot of | `create_canary`, `modify_with_snapshot`, `cleanup` | journal, then ledger, then transport |
| restore journal and replay (`worker/restore_journal.py`, `core/policy/recovery.py`) | one JSON document per action: status, attempts | `append`, `pending`, `mark_completed`, `mark_failed`, `unresolved_count`, replay | replay before a worker accepts a job |
| sessions and vault (`scanners/session.py`, `core/vault/credential.py`) | registered contexts, channels, re-login counts, secrets | `open`, `request`, `assert_alive`, re-login, `aclose`, `get`, `drop_run` | channels to the site |
| authorization scanners and oracles (`scanners/razor/authorization.py`, `oracles.py`) | none | IDOR scan, `AuthorizationOracle.evaluate` | two sessions |
| domain verification (`core/models/repository.py`, `verification.py`) | challenges, `verified` | `create_challenge`, proof by well-known file or DNS, `consume_challenge` | database, site |
| passive scanners (`scanners/*.py`, `core/models/normalization.py`) | none between scans; what the current one has heard | nine scanners in a fixed order, each with its requests; what an answer or a failure becomes | transport; the worker stores their observations |
| ZAP baseline (`scanners/zap.py`) | a child process | policy check, start, report, failure, kill after 300 seconds | the last scanner of a scan |
| findings, triage, score, reports (`main.py`, `core/scoring/score.py`, `safescope_report/`) | status, severity and confidence of `findings` rows | `update_finding_status`, re-observation, Security Score | worker and analysts write the same rows |
| discovery (`scanners/discovery.py`) | the dict of a merge | `discover_openapi`, `deduplicate_candidates` | nobody calls it yet |
| dashboard, migrations, laboratory | — | a client of the API, declarations, a test fixture | — |

What makes each correct, in a line: the queue never runs two scans of a target, never
loses a job, and never reports a finding without evidence; the transport never exceeds
its rate, never connects to a refused address and stops when told to; the policy never
permits more than was signed; the journal never forgets a change made to the site; a
session runtime never asks on an unverified session and closes what it opened; an IDOR
finding is true; roles, names, windows and proofs survive concurrent requests; a passive
scan reports what it saw and only that, leaves no process behind, and does not overrule
an analyst.

Not every part has a production caller at this commit. The worker runs PASSIVE scans only (`docs/adr/0008`), so
`MutationPlan`, `execute_plan` with concurrency, `SessionRuntime`, the authorization
scanners, the domain verifier and `freeze` with an authorization are reached from
tests and by later phases; they are modelled as what their callers may legally do.

## What is hard to test

`PROJECT.json` lists every hazard at its line. By kind:

* **Undoing under the rules of doing.** What the policy permitted must be undone under the
  same policy, by a process that only has the document of the action.
* **Check, await, use.** `request()` asks the gate, awaits DNS and a time slot, then
  sends. `open()` awaits a login before it registers a context; `request()` of a session
  checks it, awaits, and looks it up again. Every API handler reads, then commits.
* **Crashes.** A worker can die between the journal entry, the ledger entry, the write,
  the answer and the completion; or between the commit of RUNNING and the end of a scan.
* **An unreliable site.** An error may hide an effect, a request may take effect after
  its sender gave up, a redirect turns a write into a read.
* **Shared limits.** One budget and one rate for all calls, slots handed out before the
  sleep, a probe that skips one of the two pacers.
* **Failing while failing.** The failure handler of a job starts with a rollback that
  expires the objects it then reads; `aclose()` stops at the first channel that raises.
* **Policy in two places.** What is frozen is decided by one module and read by
  another, after target, authorization and clock have moved on.
* **A failure taken for an answer.** Some failed requests become findings, some are
  swallowed, all others undo the scan, and the site changes between two requests.
* **Two authors of one row.** A scan updates findings that an analyst is closing.

## Modules and how they correspond to the code

State and actions carry the names of the code; `map` in `PROJECT.json` gives the lines
of every definition. The grain of atomicity is the same throughout: code between two
awaits of one event loop is one step; a statement reads what is committed; a commit is
one step.

| module | models | composes with |
|---|---|---|
| `RestoreJournal` | the journal directory as a function from action to document; append, marks, pending, unresolved | extended by `MutationRecovery` |
| `RestoreContract` | abstract: debts, dirty resources, runs; a debt precedes the dirt and is settled only when the resource is clean; a run starts when nothing is owed | implemented by `MutationRecovery` |
| `MutationRecovery` | `MutationPlan`, cleanup, the replay at start-up, the gate's write controls, the ledger, the site, redirects, late and lost requests, crashes, several workers | INSTANCE `RestoreContract` |
| `GatedTransport` | one scan run's network boundary: gate, kill switch, pins, pacer, redirects, probes, failures; callers are coroutines | — |
| `PolicyDecision` (`MCPolicyDecision`) | `can_execute`, `freeze`, the override by enqueue, all checks of `RequestGate.evaluate`; a world that changes underneath | — |
| `JobLifecycle` | abstract: what may become of one job and its run | implemented by `ScanQueue` |
| `ScanQueue` | the queue table, API handlers (enqueue, update and delete of a target), worker steps, transactions of both databases, SQLite's single writer, crashes and restarts | INSTANCE `JobLifecycle` |
| `SessionRuntime` | contexts, channels, re-login, vault, several tasks, a site that ends sessions, channels that fail to close | extended by `AuthorizationScan` |
| `AuthorizationScan` | the authorization scanners over a list of candidates, the oracle's verdict, the caller that opens the sessions and closes the runtime | extends `SessionRuntime` |
| `Tenancy` | organizations, members, projects, targets, roles, audit log; check and commit of each handler | — |
| `TargetSetup` | address, scopes, windows, ownership proofs, the snapshot frozen at enqueue | — |
| `PassiveAnalysis` | what each passive scanner and ZAP's parser make of the facts they hear, normalization, the score with its fractions and its rounding | extended by `PassiveScan` |
| `PassiveScan` (`MCPassiveScan`) | scan after scan of a target: the requests in order, every failure, the ZAP process, the transaction, triage, a site that changes meanwhile | extends `PassiveAnalysis` |
| `Discovery` | the loop of `deduplicate_candidates` over what an OpenAPI document declares | instantiated by `PassiveScan_proofs` |
| `*_proofs` | theorems about the module they are named after | extend it and TLAPS |

Choices a reader should know:

* **A request is three steps** in `MutationRecovery`: sent, served, answered or given
  up. `LateDelivery` says which writes may be served after their sender stopped waiting.
* **The gate of a write has two halves there.** `Allows` is what only depends on the frozen policy
  (origin and exclusions as the set of addresses in `scope`, verbs with `allow_mutations`,
  content types and payloads), `Accounted` what depends on the ledger and
  `allow_write_paths`. A run starts with any policy of `FrozenPolicies`, and an action
  carries it in its document, so that a replay is judged by it. Refusals for reasons outside the model
  (budget, window, kill switch, address) are a free choice.
* **The site answers freely.** Anything from outside (DNS answers, statuses, redirects,
  session expiry, observations of a scan) is an existential choice over a small set.
* **`GatedTransport.Permits` keeps the gate's checks that change with time** (kill
  switch, window, budget, depth) and one predicate `InScope` for the rest, which
  `PolicyDecision` spells out.
* **A site is a set of facts** in `PassiveScan`: a fact is the title of the finding it should
  become. What an answer shows is what the code lets through (`sanitize_headers` hides
  cookies, no handshake succeeds with a certificate the default context refuses), and what
  is kept of it is what the analyses compute. The queue is reduced there to one worker and one
  target, the transport to an answer or an exception.
* **`ScanQueue` reads and writes like the two databases do.** `Sqlite` adds the write
  lock a worker holds from its first flush to its commit and removes foreign keys, which
  `core/models/database.py` never switches on. `ExpiresOnRollback` is SQLAlchemy's rule that a rollback
  expires every object, which in an async session makes the next attribute read raise.
* **Two targets may share a domain** in `TargetSetup`, whose addresses are domains: that
  `base_url` is unique refuses a second address, not a second domain, and a 409 is a request that
  ends without a change.
* **History variables** (`applied`, `overshoot`, `sent`, `had`, `proofs`, `uses`, `held`,
  `agreed`, `permitted` of `PolicyDecision`, `history`) are read by properties only.
* **Definitions called `Mutant`** are plausible bugs. Replacing the definition they stand
  next to must break the property named in `PROJECT.json`; they are part of no run.

## Runs

Ten runs pass and two must find a violation. Every constant in a `.cfg` is a bound.
`CHECK_DEADLOCK FALSE` is set where the system may really stop: clients need not ask,
identifiers run out, all calls are finished. `MutationRecovery` and `PolicyDecision`
keep the deadlock check.

| run | instance | what it shows | states |
|---|---|---|---|
| `MutationRecovery` | 1 worker, 3 actions, 1 creatable and 1 existing URL, 2 attempts, crashes, late restores, 2 policies: one that permits every write here and its undoing, one that permits POST alone | `DirtyIsUnresolved`: whatever is not as it was has an action the next boot counts. `WriteAhead`: nothing is on its way or changed without a document. `MutationAppliedOnce`. `LedgerAdmitsUndo`: once a write has passed the gate, neither the ledger of its run nor the one a replay rebuilds stands in the way of undoing it. `ImplementsContract` (refinement of `RestoreContract`). `RecoveryTerminates` | 817 thousand |
| `Transport` | 2 requests and a probe, 2 hosts (one out of scope), 3 addresses (one refused), 1 redirect, budget 2, window, kill switch | `PaceHolds`: at any moment no more was sent than the rate allows, whoever slept. `ConnectedSafely`. `OvershootBounded`: each call sends at most one request after controls close. `BackendFrozen`. `CallsEnd` | 110 thousand |
| `PolicyDecision` | scanners of every risk, 3 authorizations, 8 requests | `IntrusiveStaysInsideRoe`, `UnauthorizedOnlyReads`: what the gate permits is inside what was agreed at the freeze. `WideningForbidsNothing`: more rights never refuse more | 134 thousand |
| `QueueLocal` | SQLite, 1 client, 2 workers that may be killed, 3 jobs, 2 targets | `OneActivePerTarget`, `SnapshotIsCurrent`, `FindingsDeduplicated`, `EvidenceBacked`, `JobAndRunAgree`, and refinement of `JobLifecycle` (`ImplementsLifecycle`) | 283 thousand |
| `QueueDeletions` | SQLite, 2 clients that delete and move a target, 1 worker that may be killed, 3 jobs, 2 titles | `JobsAreTaken`: no job waits for ever behind one whose target is gone, although the commit of a claim, of a rejection or of a scan may meet a row that is gone | 67 thousand |
| `SessionsConcurrent` | 2 tasks, 2 identities, 3 channels, 1 re-login, 1 expiry, failing closes, expiring secrets | `RegisteredIsOpen`, `ReloginsBounded`, `AskedAfterVerification` | 6.3 million |
| `AuthorizationOneExpiry` | 2 candidates, 2 identities, 1 expiry at any point, 1 re-login, expiring secrets | `NoFalsePositive`: CONFIRMED only if the site leaks. `NothingLeft`: when the caller has closed the runtime no channel is open and no secret is kept, whatever raised before | 558 thousand |
| `TenancyProduction` | SQLite, 2 clients, 2 users, 2 organizations, 2 names, 3 events | `AuditedByMembers`, `OneNamePerOrganization` | 1.2 million |
| `Setup` | SQLite, 2 clients, 1 target, 2 domains of which 1 is owned, a scope, a window, a challenge, a job | `WindowsOrdered`, `SnapshotsStayHome`, `VerifiedByProof` | 2.1 million |
| `PassiveScan` | 2 scans, 1 fact of the site at a time, 1 change of it, 1 status set, exclusions, ZAP with and without | `ReportedWasSeen`: a finding was so, or a request failed. `SeenIsReported`: what was so throughout is shown by a scan that completes. `ChildGone`, `FullScoreIsClean`, `TriageKept`, `ScanEnds` | 747 thousand |
| `QueueFailure` (violation) | 1 job, 1 worker | a failed scan leaves its job RUNNING | |
| `PassiveCookies` (violation) | as `PassiveScan` | a cookie without its flags is not reported | |

Why the bounds are enough for what they are asked: every race in these models is between
two actors (two coroutines, two clients, two workers), and each run that is about a
race has two; a third job, action or channel shows what is left over after the first
two met. Two attempts and one re-login distinguish "retry" from "exhausted". Three
addresses allow two different safe answers and a refused one. The clock of `Transport`
reaches past the end of the window and across two intervals. The theorems
say for which of these properties no bound matters; of the others nothing is claimed beyond it.

`QueueLocal` has one client because with two `OneActivePerTarget` is false
(`QueueTwoClients`). `QueueDeletions` has one worker because with two workers and
deletions `ImplementsLifecycle` is false (`QueueRewritten`). `AuthorizationOneExpiry` has
one expiry because with two `NoFalsePositive` is false, and channels that close, because one that refuses
keeps the secrets (`SessionsSecrets`); two candidates make a session lost during the first
one matter to the second. `PassiveScan` knows one fact at a time: the analyses of
distinct facts do not look at each other, except the pairs `Consistent` names, and what
matters is which of two scans hears it; its theorems hold for sites with any facts. One of its alerts has a
riskcode ZAP does not define, so that its riskdesc rates it. `MutationRecovery` has two policies, which
are enough for a write the gate passes and whose restoration it refuses; that
`LedgerAdmitsUndo` holds of any policy, with exclusions, PATCH, content types and paths, is proved. A precondition like this is in the `.cfg`,
where it can be seen and changed. `Setup` alone uses symmetry, of its two clients, which nothing tells apart;
it checks invariants only.

What survives the races of API handlers is therefore modest, and its properties say no more:
`QueueLocal` follows one request at a time through workers and kills; `SnapshotsStayHome`,
`VerifiedByProof` and `AuditedByMembers` compare with every domain or role there has been,
because the code does not look again at the commit. The races themselves are among
the hazards of `PROJECT.json`, each with the configuration that shows it.

## Where code and documentation disagree

The two violation runs:

* `PassiveCookies` — `scanners/transport.py:294`: `sanitize_headers` replaces every
  Set-Cookie by `[REDACTED]` before a scanner sees it, so `analyze_cookies`
  (`cookies.py:51`) finds none. `docs/03-MODOS-E-POLITICA.md:5` lists "cookies
  observáveis" among what a passive scan observes; `docs/09-ROADMAP.md:17` has it done.
* `QueueFailure` — `worker/cli.py:192`: after `session.rollback()` reading `job.id`
  raises, so FAILED is never written, the job stays RUNNING, and its target cannot be
  scanned again. `docs/09-ROADMAP.md:23` promises "falha controlada".

The following configurations lie beside the runs. TLC finds the violation each of them
names; they keep the exact conditions of a known counterexample. In the rows that name a run,
its constants do, with this property alone and without fairness.

| configuration | property | what happens |
|---|---|---|
| `MutationLate` | `DirtyIsUnresolved` | a POST arrives after its restore got 404; the action is COMPLETED and the canary stays (`recovery.py:66`, `mutations.py:103`; "limpeza confirmada", `docs/04-MODO-AGRESSIVO.md:13`) |
| `MutationRedirected` | `DirtyIsUnresolved` | a redirected DELETE or PUT becomes a GET whose 2xx settles the action (`transport.py:265`) |
| `MutationSharedUrl` | `DirtyIsUnresolved` | two snapshots of one URL restored in the order of random ids (`restore_journal.py:35`) |
| `MutationRace` | `DirtyIsUnresolved` | a second worker replays the action of a write not yet sent (`cli.py:135`) |
| run `MutationRecovery` | `EveryWriteCanBeUndone` | a policy with POST and no DELETE: the gate passes the write and refuses every attempt to undo it (`gate.py:202`), as it does under one with PATCH and a restoration by PUT, or one that excludes the address of the canary (`gate.py:197`); the action stays unresolved and no job is accepted (`cli.py:136`) |
| run `MutationRecovery` | `LedgerEmptyAfterCleanup` | `mark_cleaned` has no caller on the cleanup path (`mutations.py:110`; `ledger.py:35`) |
| `TransportWindow` | `SentInsideWindow` | granted inside the window, sent after it (`transport.py:99`; `gate.py:162`) |
| `TransportRepin` | `PinsFrozen` | the transport's own pin is overwritten by a concurrent answer; the backend then refuses it (`transport.py:226`; "freeze the result", line 223) |
| `QueueTwoClients` | `OneActivePerTarget` | two requests at once each find no active job and insert one (`main.py:778`; "Target already has a pending or running scan", line 785) |
| `QueueMoved` | `SnapshotIsCurrent` | a target moves after a job was enqueued (`main.py:591`; "A target with scan history is immutable") |
| `QueueOrphan` | `JobsHaveTargets` | SQLite: a job of a deleted target (`main.py:610`) |
| `QueueLoser` | `WorkersKeepPolling` | the loser of a claim ends its process (`cli.py:155`; "Poll SQLite continuously until interrupted", line 220) |
| `QueueRewritten` | `ImplementsLifecycle` | a stale REJECTED overwrites a finished job (`cli.py:148`) |
| `SessionsLeak` | `NoLeakedChannel` | `aclose()` during an `open()`, or two opens of an identity (`session.py:105`) |
| `SessionsSecrets` | `SecretsWiped` | a channel that raises keeps secrets in memory (`session.py:137`; line 133 "wipe every secret") |
| `AuthorizationTwoExpiries` | `NoFalsePositive` | both sessions end right after their health check and the login page is taken for the canary (`authorization.py:56`) |
| `TenancyServerError` | `ChecksForeseeConstraints` | PostgreSQL refuses deletions every check allowed (`main.py:453`) |
| `TenancyUnaudited` | `ChangesAudited` | deletions leave no event (`main.py:547`; `docs/02-MODELO-DOMINIO.md:14`) |
| `SetupSplitWindow` | `WindowsOrdered` | PostgreSQL: two updates, each valid, leave an inverted window (`main.py:746`) |
| `SetupReplayed` | `ChallengesUsedOnce` | two verifications consume one challenge (`repository.py:64`; "Atomically consume", line 48) |
| `SetupMovedScope` | `SnapshotsOnTargetDomain` | a moved target keeps the scopes of its former domain (`main.py:597`) |
| `SetupMovedTarget` | `VerifiedIsProven` | a moved target stays verified (`main.py:597`) |
| run `PolicyDecision` | `WritesAreAccounted` | a POST to a writable path needs neither ledger entry nor snapshot (`gate.py:246`; `ledger.py:3-4`) |
| run `PassiveScan` | `HstsWasMissing` | a HEAD that fails, or that the scope denies, is reported as a missing header (`tls.py:259`) |
| run `PassiveScan` | `FixedMeansGone` | a finding marked FIXED is observed again and stays FIXED (`cli.py:117`) |
| run `PassiveScan` | `EngineGone` | the timeout kills the launcher; the scanner it drives may go on ("tempo máximo de 300 segundos", `docs/11-RELATORIOS-E-ZAP.md:25`) |

Two more pass, on instances the runs do not cover: `TenancyPostgres` (the properties of
`TenancyProduction` on PostgreSQL) and `QueuePostgres` (`NoAbandonedJob`, `JobAndRunAgree` and
`JobsEnd` with two clients and two workers on PostgreSQL, had the failure handler its ids).

## Fairness

Safety is checked of specifications without fairness wherever the run has no liveness
property. The liveness properties assume only what the code's scheduling gives:

* `RecoveryTerminates`: weak fairness of a worker's own recovery steps and of the end of
  a wait (the HTTP client has a 10 s timeout, so a wait ends whatever the site does).
  Nothing obliges the site to answer, a crash not to happen, or anyone to start a worker.
* `CallsEnd`: weak fairness of the clock and, per caller, of its next step: the event
  loop runs what is ready and the client's timeout ends an exchange.
* `JobsAreTaken`: weak fairness of `RunOnce` per worker, `run_forever`'s loop. No fairness of
  restarts or of the API: the property says that a job stops waiting or that no worker
  is alive.
* `ScanEnds`: weak fairness of `RunOnce`: every request has a timeout and the ZAP process is
  killed after 300 seconds. Nothing obliges ZAP to end.

No strong fairness is assumed anywhere.

## What is proved

TLAPS checks these theorems for every value of the constants: any number of actions,
jobs, requests, tasks, workers, clients, names and addresses. They assume only the named
`ASSUME`s of the modules, which TLC evaluates in the runs, and the hypotheses in the last
column; every hypothesis is a condition without which TLC finds the property violated, in
the configuration named there. Every inductive invariant below was checked by TLC as an invariant of the run before
it was proved.

| module | theorem | states | under |
|---|---|---|---|
| `MutationRecovery_proofs` | `TypeCorrect` | `TypeOK` | |
| | `WriteAheadHolds` | `WriteAhead` | |
| | `AppliedOnce` | `MutationAppliedOnce` | |
| | `LedgerAlwaysAdmitsUndo` | `LedgerAdmitsUndo` | |
| | `DirtyStaysUnresolved` | `DirtyIsUnresolved` | `Careful` (`MutationLate`, `MutationRedirected`, `MutationSharedUrl`, `MutationRace`) |
| | `ContractImplemented` | `ImplementsContract` | `Careful` |
| | `ContractKeepsDirtyOwed`, `ContractStartsClean` | of `RestoreContract` alone: what is dirty is owed, a run starts with no debt | |
| | `RunsStartClean` | `Contract!StartsClean` of the program | `Careful` |
| `GatedTransport_proofs` | `TypeCorrect` | `TypeOK` | |
| | `PaceHolding` | `PaceHolds` | |
| | `ConnectingSafely` | `ConnectedSafely` | |
| | `BackendFreezing` | `BackendFrozen` | |
| | `OvershootIsBounded` | `OvershootBounded` | |
| `ScanQueue_proofs` | `RowsAgree` | `JobAndRunAgree` | `Orderly` (`QueueRewritten`) |
| | `LifecycleImplemented` | `ImplementsLifecycle` | `Orderly` (`QueueRewritten`) |
| | `FindingsHaveEvidence` | `EvidenceBacked` | |
| | `OneActive` | `OneActivePerTarget` | `OneClient` (`QueueTwoClients`) |
| | `SnapshotsCurrent` | `SnapshotIsCurrent` | `OneClient` (`QueueMoved`) |
| | `FindingsDistinct` | `FindingsDeduplicated` | `OneClient` (`QueueTwoClients` with this property) |
| `AuthorizationScan_proofs` | `RegisteredStaysOpen` | `RegisteredIsOpen` | |
| | `ReloginsStayBounded` | `ReloginsBounded` | |
| | `AskedOnVerified` | `AskedAfterVerification` | |
| | `ConfirmedIsVulnerable` | `NoFalsePositive` | `MaxExpiries <= 1` (`AuthorizationTwoExpiries`) |
| | `NothingStays` | `NothingLeft` | `~ChannelErrors` (`SessionsSecrets`) |
| `TargetSetup_proofs` | `SnapshotsStay` | `SnapshotsStayHome` | |
| | `VerifiedWasProved` | `VerifiedByProof` | |
| | `WindowsStayOrdered` | `WindowsOrdered` | `Sqlite \/ OneRequest` (`SetupSplitWindow`) |
| `Tenancy_proofs` | `NamesStayUnique` | `OneNamePerOrganization` | |
| | `AuditedHadRole` | `AuditedByMembers` | `Production`: in development everybody holds every role |
| `PolicyDecision_proofs` | `TypeCorrect` | `TypeOK` | |
| | `IntrusiveInsideRoe` | `IntrusiveStaysInsideRoe` | |
| | `UnauthorizedReads` | `UnauthorizedOnlyReads` | |
| | `WideningIsMonotone` | `WideningForbidsNothing` | |
| `PassiveScan_proofs` | `ReportedIsJustified` | `ReportedWasSeen` | |
| | `SeenIsShown` | `SeenIsReported` | |
| | `ChildrenGo` | `ChildGone` | |
| | `FullScores` | `FullScoreIsClean` | |
| | `TriageStays` | `TriageKept` | |
| | `Deduplicated`, `DiscoveredInScope` | of `Discovery`: `MergedIsUnion`, `MergedInScope` | |

The proof modules of the queue, the sessions, set-up, tenancy and the passive scan also prove the type
invariants of their modules (`TypeCorrect`, `ScanTypeCorrect`), which no run lists.

The arguments, by module:

* `MutationRecovery`. `WriteAhead` speaks of requests and of the site only; it is not inductive because a
  coroutine or a replay list could hold an action nobody journaled. `WriteAheadInv` adds
  that neither does. The lemmas `JournalSteps` and `JournalGrows` carry the argument: a step changes the
  journal by append or a mark, and documents neither vanish nor change their address.
  `AppliedOnceInv` says that the write of an action is in one place at most (unsent,
  travelling for its coroutine, or travelling alone) and has had no effect while it is
  anywhere. `CoroutineInv` ties every awaited call to the coroutine that awaits it.
  `UndoInv` is the argument for `LedgerAdmitsUndo`: a document says which request
  restores its kind and carries the policy its gate was made from; while a coroutine lives, the ledger of its run knows
  the address of its document; and a write that was sent has passed the path rule of that
  policy or was about a canary (`SentByGate`, `GatedPath`). The ledger a replay builds from the document alone
  then says the same, and what is left of `Permits` is `Allows`. That `Allows` itself lets the restoration through is
  not proved and not so (`EveryWriteCanBeUndone`).
  `DirtyIsUnresolved` is inductive together with `DocumentsInv` (a document restores the baseline, and no URL has two open
  documents), `ControlInv` (coroutines, calls and replay lists are about unresolved
  actions) and `RestoredInv` (a restore that was carried out has restored): the step to
  fear is a COMPLETED, and it takes a restore that came back. `Careful` is one worker, no shared URLs, and no
  write or redirect that outlives its sender. The refinement maps the unresolved actions to debts, and each
  action of the model to a step of the contract or a stutter.
* `GatedTransport`. `PaceInv`: the slots the gate has given, used or not, are an interval apart,
  and at any later moment `t`, counting those whose sleep will be over, no more is sent than
  `t` allows; the lemma `StepShape` reduces every step to one that opens a socket, one that takes a slot, and the rest.
  `ConnectedInv`: what a host is pinned to is safe, and so is the address a probe is about
  to use. `OvershootInv`: who waits for an address or a slot has sent nothing since the controls closed.
* `ScanQueue`. `AgreeInv` gives each worker its job (`Unclaimed`, `Owned`) and each request what it has
  read (`Reserved`). With two workers a rejection could overwrite a claim; it takes a
  target that disappears under a selected job, which foreign keys, a single client or a
  single worker exclude: that is `Orderly`. `BackedInv` adds the open transaction of
  each worker; `Single` and `DedupInv` rest on the absence of a second request between read
  and commit.
* `AuthorizationScan` and `SessionRuntime`. `RegisterInv`: a channel is registered or held by one coroutine, never
  both. `VerifiedInv`: until its request goes out a use has verified what is registered, or is
  about to. The steps of the scanner are steps of the runtime with a caller, so these carry
  over, and `PlaceInv` says what the caller awaits. `ExpiryInv` counts: a
  login page that passed for an answer, or a session lost between probe and request,
  costs an expiry each, and a false CONFIRMED takes two. `OwnedInv`: every open
  channel is registered, being logged in, or on the list of `aclose()`.
* `TargetSetup`. Each property is inductive with what the requests in flight rely on: `Windowed`,
  `Homely`, `Proving`; `UsesInv` counts the requests about to consume a challenge.
* `Tenancy`. `Vouched` says what a request may rely on when it commits: the organization was there, and the
  history of roles, which never shrinks, has the role its handler asked for. That is also
  why a revocation between check and commit does not break the theorem.
* `PolicyDecision`. `IInv == TypeOK /\ Frozen /\ PermittedInside`: the snapshot still says what was
  agreed (`Frozen`, which relates it to the history variable through the freeze and the
  enqueue override), and the last permitted request passed every check against it.
  `WideningIsMonotone` is a fact about `can_execute` over all pairs of contexts and needs only types.
* `PassiveScan`. The worker's place in the `Plan` says what it knows. `JobInv`: the worker's job is
  the last one claimed and the only active one, so `Latest` is the evidence of the scan
  `history` is about; a killed worker's job stays RUNNING and nothing is claimed after it, so
  `ChildGone` needs no more. `HeardInv`: what has been heard was so, and of the files asked for, everything that was
  so all the time. `ReportInv` asks of the rows in the open transaction what `ReportedWasSeen`
  asks of the committed ones. `SeenInv` says, place by place, which facts that were so all the time
  are noted already (`Owed`, `Due`): nothing is owed at the commit. Between the two stand
  the lemmas about what a scanner makes of what it hears: `ScannersObserve`, `NormalizedIs`
  (of each title `normalize_observations` keeps one row, and it is one it was given) and `ZapObserves`.
  `FullScores` is arithmetic: a title above INFO costs 16 tenths at least, which no rounding
  hides, and the costs of finite sets of titles are natural numbers.
* `Discovery`. The dict of `deduplicate_candidates` is the union of what the loop has come to, in any
  order and with any repetitions, and nothing outside the allowed origins is in it. The
  lemma `UnionOfOneMore` is the argument: one more candidate adds what it says to the entry
  of its key, and to no other. Sources are sets in the model; in the code they are joined by commas, and a
  candidate merged once and merged again (`discovery.py:91-99`) may name a source twice ("a,a,b").

Every safety property of a passing run is proved, under the hypotheses of the table, which the
constants of its run meet. Only model-checked: all liveness (`RecoveryTerminates`, `CallsEnd`,
`JobsAreTaken`, `ScanEnds`: TLAPS as installed has no ENABLED and does not prove fairness
arguments). The violations are TLC's. Recursive operators and induction over data are avoided, so no module
here is closed to proof for that reason.

## What is not modelled

* The layout and wording of reports and observations, the dashboard, the command lines
  of worker and ZAP: layout or I/O. Reports appear as the score they state.
* The parsing of OpenAPI, GraphQL and JavaScript documents: `Discovery` starts from what
  a document declares. `discover_graphql_schema` yields one candidate and merges nothing.
* `DifferentialOracle`, `CspScanner`: no code calls them.
* Token verification against Supabase, row level security and migrations: declarative or
  external; constraints are modelled where a handler meets them.
* IP arithmetic of the SSRF guard: the constant `Unsafe` names the refused addresses.
* Torn files: `FileRestoreJournal._write` syncs a temporary file and renames it, so a
  process that dies leaves the old or the new document. A crash here is the death of a process: a
  loss of power before the directory is synced is not modelled.
* `mark_cleaned` and `mark_cleanup_failed` of the ledger, which no code calls.
* Things noticed and not stated as properties because no code or doc does: exclusions
  name one origin and do not cover its www alias; the docstring of `KillSwitch`
  (`gate.py:289-293`) promises effects that have no code; the commit of a request
  handler happens after its response is built; the branches of `analyze_tls` for an
  expired or self-signed certificate, an old protocol or a weak cipher are never reached,
  because the probe's default context refuses the handshake first; a missing CAA
  record is reported of every target, since nobody asks the DNS; the executive
  PDF lists the first ten findings whatever their status.

## Plan

Done, in this order: the journal and mutation plan (the promise that matters most), the
transport, the queue, sessions, the authorization scanner, tenancy, target set-up,
policy; theorems about the journal, the contract and the policy; the passive scanners,
ZAP, triage and score; the authorization scanners over several candidates up to the
end of their runtime; progress of the queue under deletions; discovery, with its
theorems; the theorems about transport, queue, sessions, authorization scanner, set-up
and tenancy, both refinements, and the theorems about the passive scan.

Next, to model:

1. Cancellation: an interrupted `gather()` in `execute_plan`, an interrupted worker.
2. A report read between two commits of a scan and of a triage.

Next, to prove:

1. `TransportRepin` and `SetupReplayed` show what does not hold; what does instead (a pin that is used is safe, a
   challenge is consumed at most once per request) deserves a property of its own.

## How to run

    tlc -workers 2 -config Transport.cfg GatedTransport.tla
    tlapm MutationRecovery_proofs.tla

The module of a run is in `PROJECT.json`. Each run takes at most about three minutes
on two cores.
