------------------------------- MODULE ScanQueue -------------------------------
(***************************************************************************)
(* The queue of scan jobs: a table written by the API's handlers           *)
(* (apps/api/main.py) and by worker processes (worker/cli.py) that share   *)
(* nothing but the database (models/persistence.py, models/database.py).   *)
(*                                                                         *)
(* Every statement reads what is committed and a commit is one step; a     *)
(* handler or a worker is interleaved with the others between its reads    *)
(* and its commit.  The scan itself (its requests, see GatedTransport) is  *)
(* the observations it yields or the exception that ends it.               *)
(***************************************************************************)
EXTENDS Integers, FiniteSets

CONSTANTS
    NJobs,              \* how many jobs may be enqueued
    Targets, Titles,    \* targets, and the titles of what scanners observe
    Urls,               \* values of Target.base_url
    Workers, Clients,   \* worker processes; API requests handled at the same time
    Nobody,             \* "no worker"
    Sqlite,             \* the local database: one write transaction at a time and no
                        \* enforcement of foreign keys; FALSE is PostgreSQL
    ExpiresOnRollback,  \* the objects of a rolled back session cannot be read again
    Crashes             \* worker processes may be killed

Jobs == 1 .. NJobs      \* in the order of created_at

NoUrl == "deleted"
NoJob == 0

ASSUME QueueAssumption ==
    /\ NJobs \in Nat
    /\ Nobody \notin Workers
    /\ Targets # {} /\ NoUrl \notin Urls
    /\ Cardinality(Targets) <= Cardinality(Urls)
    /\ Sqlite \in BOOLEAN /\ ExpiresOnRollback \in BOOLEAN /\ Crashes \in BOOLEAN

VARIABLES
    targets,   \* base_url of each target, NoUrl once the target is deleted
    jobs,      \* ScanJob rows
    runs,      \* the ScanRun of each job (job_id is unique): its worker and its status
    findings,  \* Finding rows
    evidence,  \* Evidence rows
    worker,    \* the local state of each worker
    client     \* the local state of each request the API is handling

vars == <<targets, jobs, runs, findings, evidence, worker, client>>

Terminal == {"COMPLETED", "FAILED", "REJECTED"}

Job == [status : {"ABSENT", "PENDING", "RUNNING"} \cup Terminal,
        target : Targets,
        origin : Urls \cup {NoUrl}]      \* policy_snapshot["allowed_origins"]

Run == [status : {"NONE", "RUNNING", "COMPLETED", "FAILED"}, by : Workers \cup {Nobody}]

(* A row is told from another of the same title by the job whose scan inserted it. *)
Finding  == [target : Targets, title : Titles, first : Jobs]
Evidence == [finding : Finding, job : Jobs]

(* "looked" is the row the current observation will use, read and not yet written; "new"
   and "shown" are the rows of the worker's open transaction. *)
Worker == [pc : {"idle", "selected", "rejecting", "claiming", "scanning", "failing", "dead"},
           job : Jobs \cup {NoJob}, looked : SUBSET Finding,
           new : SUBSET Finding, shown : SUBSET Evidence]

Idle == [pc |-> "idle", job |-> NoJob, looked |-> {}, new |-> {}, shown |-> {}]
Dead == [Idle EXCEPT !.pc = "dead"]

Client == [pc : {"idle", "enqueue", "update", "delete"},
           target : Targets, url : Urls \cup {NoUrl}]

AnyTarget == CHOOSE t \in Targets : TRUE
NoRequest == [pc |-> "idle", target |-> AnyTarget, url |-> NoUrl]

Exists(t)    == targets[t] # NoUrl
JobsOf(t)    == {j \in Jobs : jobs[j].status # "ABSENT" /\ jobs[j].target = t}
Pending      == {j \in Jobs : jobs[j].status = "PENDING"}
Active(t)    == {j \in JobsOf(t) : jobs[j].status \in {"PENDING", "RUNNING"}}

(* A worker's transaction writes from the first row it flushes until it ends. *)
Writing(w) == worker[w].shown # {}
Locked(w)  == Sqlite /\ \E v \in Workers \ {w} : Writing(v)

Init ==
    /\ targets \in [Targets -> Urls]
    /\ \A s, t \in Targets : s # t => targets[s] # targets[t]
    /\ jobs = [j \in Jobs |-> [status |-> "ABSENT", target |-> AnyTarget, origin |-> NoUrl]]
    /\ runs = [j \in Jobs |-> [status |-> "NONE", by |-> Nobody]]
    /\ findings = {} /\ evidence = {}
    /\ worker = [w \in Workers |-> Idle]
    /\ client = [c \in Clients |-> NoRequest]

-----------------------------------------------------------------------------
(* API handlers: the reads of a request, then its commit. *)

Asks(c, pc, t, url) ==
    /\ client[c].pc = "idle"
    /\ Exists(t)
    /\ client' = [client EXCEPT ![c] = [pc |-> pc, target |-> t, url |-> url]]
    /\ UNCHANGED <<targets, jobs, runs, findings, evidence, worker>>

Responds(c) == client' = [client EXCEPT ![c] = NoRequest]

(* Nobody may write while a worker's transaction holds SQLite's lock. *)
MayCommit == \A w \in Workers : ~(Sqlite /\ Writing(w))

(* Mutant: the check of enqueue_passive_scan looks at running jobs only. *)
CheckEnqueueRunning(c, t) ==
    /\ \A j \in JobsOf(t) : jobs[j].status # "RUNNING"
    /\ Asks(c, "enqueue", t, targets[t])

(* enqueue_passive_scan: 409 unless no job of the target is pending or running. *)
CheckEnqueue(c, t) ==
    /\ Active(t) = {}
    /\ Asks(c, "enqueue", t, targets[t])

(* The first id never used; "created_at" grows with it.  PostgreSQL refuses a job of a
   target deleted meanwhile. *)
CommitEnqueue(c, j) ==
    /\ client[c].pc = "enqueue" /\ MayCommit
    /\ jobs[j].status = "ABSENT" /\ \A i \in Jobs : i < j => jobs[i].status # "ABSENT"
    /\ Sqlite \/ Exists(client[c].target)
    /\ jobs' = [jobs EXCEPT ![j] = [status |-> "PENDING", target |-> client[c].target,
                                    origin |-> client[c].url]]
    /\ Responds(c)
    /\ UNCHANGED <<targets, runs, findings, evidence, worker>>

(* Mutant: update_target forgets that a target with history is immutable. *)
CheckUpdateAlways(c, t, url) ==
    /\ \A s \in Targets \ {t} : targets[s] # url
    /\ Asks(c, "update", t, url)

(* update_target: only a target without history, and to an address that is free. *)
CheckUpdate(c, t, url) ==
    /\ JobsOf(t) = {}
    /\ \A s \in Targets \ {t} : targets[s] # url
    /\ Asks(c, "update", t, url)

(* base_url is unique in the database too. *)
CommitUpdate(c) ==
    LET t == client[c].target IN
    /\ client[c].pc = "update" /\ MayCommit
    /\ Exists(t) /\ \A s \in Targets \ {t} : targets[s] # client[c].url
    /\ targets' = [targets EXCEPT ![t] = client[c].url]
    /\ Responds(c)
    /\ UNCHANGED <<jobs, runs, findings, evidence, worker>>

(* delete_target: a target with neither jobs nor findings. *)
CheckDelete(c, t) ==
    /\ JobsOf(t) = {} /\ \A f \in findings : f.target # t
    /\ Asks(c, "delete", t, NoUrl)

(* PostgreSQL refuses: the audit log refers to every target since its creation. *)
CommitDelete(c) ==
    LET t == client[c].target IN
    /\ client[c].pc = "delete" /\ MayCommit
    /\ Exists(t) /\ Sqlite
    /\ targets' = [targets EXCEPT ![t] = NoUrl]
    /\ Responds(c)
    /\ UNCHANGED <<jobs, runs, findings, evidence, worker>>

(* The commit is refused (a constraint, or SQLite's lock for longer than its timeout), or
   the client went away: session_scope rolls back. *)
Rollback(c) ==
    /\ client[c].pc # "idle"
    /\ Responds(c)
    /\ UNCHANGED <<targets, jobs, runs, findings, evidence, worker>>

API(c) ==
    \/ \E t \in Targets : CheckEnqueue(c, t) \/ CheckDelete(c, t)
                          \/ \E url \in Urls : CheckUpdate(c, t, url)
    \/ \E j \in Jobs : CommitEnqueue(c, j)
    \/ CommitUpdate(c) \/ CommitDelete(c) \/ Rollback(c)

-----------------------------------------------------------------------------
(* run_once of a worker *)

Goes(w, local) == worker' = [worker EXCEPT ![w] = local]
At(w, pc)      == worker[w].pc = pc
JobOf(w)       == worker[w].job
TargetOf(w)    == jobs[JobOf(w)].target

(* Of the oldest pending job, if there is one. *)
Select(w, j) ==
    /\ At(w, "idle")
    /\ j \in Pending /\ \A i \in Pending : j <= i
    /\ Goes(w, [Idle EXCEPT !.pc = "selected", !.job = j])
    /\ UNCHANGED <<targets, jobs, runs, findings, evidence, client>>

(* Mutant: a job whose target is gone is passed over. *)
ReadTargetSkips(w) ==
    /\ At(w, "selected")
    /\ Goes(w, IF Exists(TargetOf(w)) THEN [worker[w] EXCEPT !.pc = "claiming"] ELSE Idle)
    /\ UNCHANGED <<targets, jobs, runs, findings, evidence, client>>

(* A job is passive in every database the API can fill; its target may be gone. *)
ReadTarget(w) ==
    /\ At(w, "selected")
    /\ Goes(w, [worker[w] EXCEPT !.pc = IF Exists(TargetOf(w)) THEN "claiming" ELSE "rejecting"])
    /\ UNCHANGED <<targets, jobs, runs, findings, evidence, client>>

SetJob(j, status) == jobs' = [jobs EXCEPT ![j].status = status]
SetRun(j, status) == runs' = [runs EXCEPT ![j].status = status]

CommitReject(w) ==
    /\ At(w, "rejecting") /\ ~Locked(w)
    /\ SetJob(JobOf(w), "REJECTED")
    /\ Goes(w, Idle)
    /\ UNCHANGED <<targets, runs, findings, evidence, client>>

(* Mutant: no unique constraint on scan_runs.job_id. *)
RunAlwaysAccepted(j) == TRUE

(* The unique constraint on scan_runs.job_id. *)
RunAccepted(j) == runs[j].status = "NONE"

(* The status of the job and the row of its run, in one commit. *)
CommitClaim(w) ==
    LET j == JobOf(w) IN
    /\ At(w, "claiming") /\ ~Locked(w)
    /\ RunAccepted(j)
    /\ SetJob(j, "RUNNING")
    /\ runs' = [runs EXCEPT ![j] = [status |-> "RUNNING", by |-> w]]
    /\ Goes(w, [worker[w] EXCEPT !.pc = "scanning"])
    /\ UNCHANGED <<targets, findings, evidence, client>>

(* Another worker was faster, or holds SQLite's lock beyond the timeout.  The exception
   leaves run_once and run_forever: the process ends. *)
CommitRefused(w) ==
    /\ \/ At(w, "claiming") /\ ~RunAccepted(JobOf(w))
       \/ (At(w, "claiming") \/ At(w, "rejecting") \/ At(w, "failing")) /\ Locked(w)
    /\ Goes(w, Dead)
    /\ UNCHANGED <<targets, jobs, runs, findings, evidence, client>>

(* Mutant: the worker looks for the title of the row among the rows of this scan only. *)
MatchingOwn(w, title) == {f \in worker[w].new : f.target = TargetOf(w) /\ f.title = title}

Matching(w, title) ==
    {f \in findings \cup worker[w].new : f.target = TargetOf(w) /\ f.title = title}

(* _persist_observation reads the finding of that title, to update it ... *)
Look(w, title) ==
    LET own == [target |-> TargetOf(w), title |-> title, first |-> JobOf(w)] IN
    /\ At(w, "scanning") /\ worker[w].looked = {}
    /\ \A e \in worker[w].shown : e.finding.title # title       \* once is enough
    /\ \E f \in IF Matching(w, title) = {} THEN {own} ELSE Matching(w, title) :
           Goes(w, [worker[w] EXCEPT !.looked = {f}])
    /\ UNCHANGED <<targets, jobs, runs, findings, evidence, client>>

(* Mutant: the evidence of a finding that exists already is dropped, and a new finding
   waits for its evidence. *)
PersistFindingOnly(w) ==
    /\ At(w, "scanning") /\ worker[w].looked # {} /\ ~Locked(w)
    /\ Goes(w, [worker[w] EXCEPT !.looked = {}, !.new = @ \cup worker[w].looked])
    /\ UNCHANGED <<targets, jobs, runs, findings, evidence, client>>

(* ... and writes it, with its evidence, in the transaction of the scan. *)
Persist(w) ==
    LET j == JobOf(w) IN
    /\ At(w, "scanning") /\ worker[w].looked # {} /\ ~Locked(w)
    /\ Goes(w, [worker[w] EXCEPT
                   !.looked = {},
                   !.new    = @ \cup {f \in worker[w].looked : f.first = j},
                   !.shown  = @ \cup {[finding |-> f, job |-> j] : f \in worker[w].looked}])
    /\ UNCHANGED <<targets, jobs, runs, findings, evidence, client>>

Complete(w) ==
    LET j == JobOf(w) IN
    /\ At(w, "scanning") /\ worker[w].looked = {} /\ ~Locked(w)
    /\ findings' = findings \cup worker[w].new
    /\ evidence' = evidence \cup worker[w].shown
    /\ SetJob(j, "COMPLETED") /\ SetRun(j, "COMPLETED")
    /\ Goes(w, Idle)
    /\ UNCHANGED <<targets, client>>

InTransaction(w) == worker[w].looked # {} \/ worker[w].shown # {}

(* Anything in the scan raises, or SQLite's lock is not released in time.  The handler
   rolls back and reads job.id; once the session had begun a transaction the rollback has
   expired that object, and reading it raises again, out of run_once. *)
ScanRaises(w) ==
    /\ At(w, "scanning")
    /\ Goes(w, IF ExpiresOnRollback /\ InTransaction(w) THEN Dead
               ELSE [Idle EXCEPT !.pc = "failing", !.job = JobOf(w)])
    /\ UNCHANGED <<targets, jobs, runs, findings, evidence, client>>

(* The last commit of a scan waits for SQLite's lock in vain: as above, and the flush has
   begun a transaction even if nothing had been observed. *)
CompletionRefused(w) ==
    /\ At(w, "scanning") /\ worker[w].looked = {} /\ Locked(w)
    /\ Goes(w, IF ExpiresOnRollback THEN Dead
               ELSE [Idle EXCEPT !.pc = "failing", !.job = JobOf(w)])
    /\ UNCHANGED <<targets, jobs, runs, findings, evidence, client>>

(* Mutant: the handler forgets the run. *)
CommitFailureOfJob(w) ==
    /\ At(w, "failing") /\ ~Locked(w)
    /\ SetJob(JobOf(w), "FAILED")
    /\ Goes(w, Idle)
    /\ UNCHANGED <<targets, runs, findings, evidence, client>>

CommitFailure(w) ==
    /\ At(w, "failing") /\ ~Locked(w)
    /\ SetJob(JobOf(w), "FAILED") /\ SetRun(JobOf(w), "FAILED")
    /\ Goes(w, Idle)
    /\ UNCHANGED <<targets, findings, evidence, client>>

(* The open transaction of a killed process is rolled back by the database. *)
Crash(w) ==
    /\ Crashes /\ ~At(w, "idle") /\ ~At(w, "dead")
    /\ Goes(w, Dead)
    /\ UNCHANGED <<targets, jobs, runs, findings, evidence, client>>

(* Somebody starts the worker again; nothing of the former process is left. *)
Restart(w) ==
    /\ At(w, "dead")
    /\ Goes(w, Idle)
    /\ UNCHANGED <<targets, jobs, runs, findings, evidence, client>>

RunOnce(w) ==
    \/ \E j \in Jobs : Select(w, j)
    \/ ReadTarget(w) \/ CommitReject(w) \/ CommitClaim(w) \/ CommitRefused(w)
    \/ \E title \in Titles : Look(w, title)
    \/ Persist(w) \/ Complete(w) \/ CompletionRefused(w)
    \/ ScanRaises(w) \/ CommitFailure(w)

Next ==
    \/ \E w \in Workers : RunOnce(w) \/ Crash(w) \/ Restart(w)
    \/ \E c \in Clients : API(c)

Spec == Init /\ [][Next]_vars

(* run_forever: a worker that has not died keeps working.  Nobody owes a restart, and
   nobody owes the API a request. *)
FairSpec == Spec /\ \A w \in Workers : WF_vars(RunOnce(w))

-----------------------------------------------------------------------------
(* Properties *)

TypeOK ==
    /\ targets \in [Targets -> Urls \cup {NoUrl}]
    /\ jobs \in [Jobs -> Job] /\ runs \in [Jobs -> Run]
    /\ findings \subseteq Finding /\ evidence \subseteq Evidence
    /\ worker \in [Workers -> Worker] /\ client \in [Clients -> Client]
    /\ \A w \in Workers : worker[w].pc \in {"idle", "dead"} \/ JobOf(w) \in Jobs

Busy == {w \in Workers : worker[w].pc \in {"scanning", "failing"}}

(* The two rows that say what became of a job agree after every commit, whoever fails or
   is killed between the steps. *)
JobAndRunAgree ==
    \A j \in Jobs : runs[j].status = IF jobs[j].status \in {"RUNNING", "COMPLETED", "FAILED"}
                                     THEN jobs[j].status ELSE "NONE"

(* docs/02-MODELO-DOMINIO.md: no Finding without at least one Evidence. *)
EvidenceBacked ==
    /\ \A f \in findings : \E e \in evidence : e.finding = f
    /\ \A e \in evidence : e.finding \in findings

(* A title is one finding of its target, whatever scans and workers observe it. *)
FindingsDeduplicated ==
    \A f, g \in findings : f.target = g.target /\ f.title = g.title => f = g

(* enqueue_passive_scan: "Target already has a pending or running scan" is refused. *)
OneActivePerTarget == \A t \in Targets : Cardinality(Active(t)) <= 1

(* update_target: "A target with scan history is immutable"; what the policy snapshot of a
   job allows is still the address the worker will scan. *)
SnapshotIsCurrent ==
    \A j \in Jobs : jobs[j].status # "ABSENT" => jobs[j].origin = targets[jobs[j].target]

(* ScanJob.target_id is a foreign key: the target of a job exists. *)
JobsHaveTargets == \A j \in Jobs : jobs[j].status # "ABSENT" => Exists(jobs[j].target)

(* A running job has a worker at it, which will say how it ends. *)
NoAbandonedJob ==
    \A j \in Jobs : jobs[j].status = "RUNNING" => \E w \in Busy : JobOf(w) = j

(* run_forever: "Poll SQLite continuously until interrupted". *)
WorkersKeepPolling == \A w \in Workers : ~At(w, "dead")

(* run_once claims the oldest job: whatever becomes of other jobs and of its target, a job
   is claimed or rejected, unless no worker is left. *)
JobsAreTaken ==
    \A j \in Jobs : (jobs[j].status = "PENDING")
                        ~> (jobs[j].status # "PENDING" \/ \A w \in Workers : At(w, "dead"))

(* Every enqueued job is executed or rejected, and its end recorded. *)
JobsEnd ==
    \A j \in Jobs : (jobs[j].status = "PENDING") ~> (jobs[j].status \in Terminal)

Lifecycle == INSTANCE JobLifecycle WITH
    status    <- [j \in Jobs |-> jobs[j].status],
    published <- {e.job : e \in evidence}

(* The queue implements what it promises of each job: one execution, a final outcome,
   and evidence that appears with the completion and never otherwise. *)
ImplementsLifecycle == Lifecycle!Spec
=============================================================================
