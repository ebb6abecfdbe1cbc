---------------------------- MODULE ScanQueue_proofs ----------------------------
(***************************************************************************)
(* Theorems about the queue of scan jobs, for every number of jobs,        *)
(* targets, workers and requests: what becomes of a job is recorded once,  *)
(* its two rows agree and evidence appears with its completion (the        *)
(* refinement of JobLifecycle); and, when the API handles one request at a *)
(* time, a target has one active job, which scans the address it was       *)
(* enqueued for and finds no title twice.                                  *)
(***************************************************************************)
EXTENDS ScanQueue, FiniteSetTheorems, TLAPS

LEMMA RowTypes ==
  ASSUME TypeOK, NEW w \in Workers, JobOf(w) \in Jobs
  PROVE  /\ worker[w] \in Worker
         /\ jobs[JobOf(w)] \in Job /\ TargetOf(w) \in Targets
         /\ \A title \in Titles : [target |-> TargetOf(w), title |-> title, first |-> JobOf(w)] \in Finding
  BY DEF TypeOK, Worker, Job, Finding, JobOf, TargetOf

(* A worker's step replaces its own local state by one of the right type. *)
LEMMA GoesType ==
  ASSUME TypeOK, NEW w \in Workers, NEW local \in Worker, Goes(w, local),
         local.pc \in {"idle", "dead"} \/ local.job \in Jobs
  PROVE  /\ worker' \in [Workers -> Worker]
         /\ \A v \in Workers : worker'[v].pc \in {"idle", "dead"} \/ worker'[v].job \in Jobs
         /\ worker'[w] = local /\ \A v \in Workers \ {w} : worker'[v] = worker[v]
  BY DEF TypeOK, Goes, JobOf

LEMMA IdleType == Idle \in Worker /\ Dead \in Worker /\ Idle.pc = "idle" /\ Dead.pc = "dead"
  BY DEF Idle, Dead, Worker

(* Setting the status of a row changes nothing else of the table. *)
LEMMA SetJobType ==
  ASSUME TypeOK, NEW j \in Jobs, NEW s \in {"PENDING", "RUNNING"} \cup Terminal, SetJob(j, s)
  PROVE  /\ jobs' \in [Jobs -> Job]
         /\ jobs'[j].status = s
         /\ \A i \in Jobs : jobs'[i].target = jobs[i].target /\ jobs'[i].origin = jobs[i].origin
         /\ \A i \in Jobs \ {j} : jobs'[i] = jobs[i]
  BY DEF SetJob, TypeOK, Job

LEMMA SetRunType ==
  ASSUME TypeOK, NEW j \in Jobs, NEW s \in {"RUNNING", "COMPLETED", "FAILED"}, SetRun(j, s)
  PROVE  /\ runs' \in [Jobs -> Run]
         /\ runs'[j].status = s
         /\ \A i \in Jobs : runs'[i].by = runs[i].by
         /\ \A i \in Jobs \ {j} : runs'[i] = runs[i]
  BY DEF SetRun, TypeOK, Run

(* What a claim and an enqueue write. *)
LEMMA ClaimType ==
  ASSUME TypeOK, NEW w \in Workers, CommitClaim(w)
  PROVE  /\ JobOf(w) \in Jobs
         /\ runs' \in [Jobs -> Run]
         /\ runs'[JobOf(w)].status = "RUNNING" /\ runs'[JobOf(w)].by = w
         /\ \A i \in Jobs \ {JobOf(w)} : runs'[i] = runs[i]
<1>1. JobOf(w) \in Jobs /\ [status |-> "RUNNING", by |-> w] \in Run
  BY DEF CommitClaim, TypeOK, Run, At, JobOf
<1>2. runs' = [runs EXCEPT ![JobOf(w)] = [status |-> "RUNNING", by |-> w]]
  BY DEF CommitClaim
<1>3. runs'[JobOf(w)] = [status |-> "RUNNING", by |-> w]
  BY <1>1, <1>2 DEF TypeOK
<1>4. runs'[JobOf(w)].status = "RUNNING" /\ runs'[JobOf(w)].by = w
  BY <1>3
<1>. QED BY <1>1, <1>2, <1>4 DEF TypeOK

LEMMA EnqueueType ==
  ASSUME TypeOK, NEW c \in Clients, NEW j \in Jobs, CommitEnqueue(c, j)
  PROVE  /\ jobs' \in [Jobs -> Job]
         /\ jobs'[j].status = "PENDING"
         /\ jobs'[j].target = client[c].target /\ jobs'[j].origin = client[c].url
         /\ \A i \in Jobs \ {j} : jobs'[i] = jobs[i]
<1>. DEFINE row == [status |-> "PENDING", target |-> client[c].target, origin |-> client[c].url]
<1>1. row \in Job /\ jobs' = [jobs EXCEPT ![j] = row]
  BY DEF CommitEnqueue, TypeOK, Job, Client
<1>2. jobs'[j] = row
  BY <1>1 DEF TypeOK
<1>3. /\ jobs'[j].status = "PENDING"
      /\ jobs'[j].target = client[c].target /\ jobs'[j].origin = client[c].url
  BY <1>2
<1>. QED BY <1>1, <1>3 DEF TypeOK

(* A request of the API that asks or responds changes its own state only. *)
LEMMA ClientType ==
  ASSUME TypeOK, NEW c \in Clients
  PROVE  /\ Responds(c) => /\ client' \in [Clients -> Client] /\ client'[c] = NoRequest
                           /\ \A d \in Clients \ {c} : client'[d] = client[d]
         /\ \A pc \in {"enqueue", "update", "delete"}, t \in Targets, url \in Urls \cup {NoUrl} :
               Asks(c, pc, t, url) =>
                   /\ client' \in [Clients -> Client]
                   /\ client'[c] = [pc |-> pc, target |-> t, url |-> url]
                   /\ \A d \in Clients \ {c} : client'[d] = client[d]
<1>1. NoRequest \in Client
  BY QueueAssumption DEF NoRequest, Client, AnyTarget
<1>2. \A pc \in {"enqueue", "update", "delete"}, t \in Targets, url \in Urls \cup {NoUrl} :
         [pc |-> pc, target |-> t, url |-> url] \in Client
  BY DEF Client
<1>. QED BY <1>1, <1>2 DEF Responds, Asks, TypeOK

(* What the steps of a worker that only change the worker leave of it: none of them ends
   in a commit. *)
Private(w) ==
    \/ \E j \in Jobs : Select(w, j)
    \/ ReadTarget(w) \/ CommitRefused(w) \/ \E title \in Titles : Look(w, title)
    \/ Persist(w) \/ CompletionRefused(w) \/ ScanRaises(w) \/ Crash(w) \/ Restart(w)

(* ... and the state each of them leaves. *)
Start(w) ==
    \E j \in Pending : worker'[w] = [Idle EXCEPT !.pc = "selected", !.job = j]
Looks(w) ==
    /\ worker[w].pc = "scanning"
    /\ \E title \in Titles, f \in Finding :
          /\ worker'[w] = [worker[w] EXCEPT !.looked = {f}]
          /\ f.target = TargetOf(w) /\ f.title = title
          /\ \/ f \in Matching(w, title)
             \/ Matching(w, title) = {} /\ f.first = JobOf(w)
Writes(w) ==
    /\ worker[w].pc = "scanning"
    /\ worker'[w] = [worker[w] EXCEPT
                        !.looked = {},
                        !.new    = @ \cup {f \in worker[w].looked : f.first = JobOf(w)},
                        !.shown  = @ \cup {[finding |-> f, job |-> JobOf(w)] : f \in worker[w].looked}]
Leaves(w) ==
    \/ worker'[w] \in {Idle, Dead}
    \/ worker[w].pc = "selected" /\ worker'[w] = [worker[w] EXCEPT !.pc = "claiming"] /\ Exists(TargetOf(w))
    \/ worker[w].pc = "selected" /\ worker'[w] = [worker[w] EXCEPT !.pc = "rejecting"] /\ ~Exists(TargetOf(w))
    \/ worker[w].pc = "scanning" /\ worker'[w] = [Idle EXCEPT !.pc = "failing", !.job = JobOf(w)]

LEMMA PrivateShape ==
  ASSUME TypeOK, NEW w \in Workers, Private(w)
  PROVE  /\ UNCHANGED <<targets, jobs, runs, findings, evidence, client>>
         /\ \A v \in Workers \ {w} : worker'[v] = worker[v]
         /\ worker' \in [Workers -> Worker]
         /\ worker'[w].pc \in {"idle", "dead"} \/ worker'[w].job \in Jobs
         /\ Start(w) \/ Looks(w) \/ Writes(w) \/ Leaves(w)
<1>. DEFINE Result == /\ UNCHANGED <<targets, jobs, runs, findings, evidence, client>>
                      /\ \A v \in Workers \ {w} : worker'[v] = worker[v]
                      /\ worker' \in [Workers -> Worker]
                      /\ worker'[w].pc \in {"idle", "dead"} \/ worker'[w].job \in Jobs
                      /\ Start(w) \/ Looks(w) \/ Writes(w) \/ Leaves(w)
<1>1. ASSUME NEW j \in Jobs, Select(w, j) PROVE Result
  <2>1. [Idle EXCEPT !.pc = "selected", !.job = j] \in Worker
    BY DEF Idle, Worker
  <2>2. [Idle EXCEPT !.pc = "selected", !.job = j].job = j
    BY DEF Idle
  <2>3. PICK fresh : fresh = [Idle EXCEPT !.pc = "selected", !.job = j]
    OBVIOUS
  <2>4. /\ fresh \in Worker /\ fresh.job \in Jobs /\ Goes(w, fresh) /\ j \in Pending
        /\ UNCHANGED <<targets, jobs, runs, findings, evidence, client>>
    BY <1>1, <2>1, <2>2, <2>3 DEF Select
  <2>5. /\ \A v \in Workers \ {w} : worker'[v] = worker[v]
        /\ worker' \in [Workers -> Worker] /\ worker'[w] = fresh
    BY <2>4, GoesType
  <2>6. Start(w)
    BY <2>3, <2>4, <2>5 DEF Start
  <2>. QED BY <2>4, <2>5, <2>6
<1>2. CASE ReadTarget(w)
  <2>1. JobOf(w) \in Jobs /\ worker[w] \in Worker
    BY <1>2 DEF ReadTarget, TypeOK, At
  <2>2. ASSUME NEW p \in {"claiming", "rejecting"}
        PROVE  [worker[w] EXCEPT !.pc = p] \in Worker /\ [worker[w] EXCEPT !.pc = p].job \in Jobs
    BY <2>1 DEF Worker, JobOf
  <2>. QED BY <1>2, <2>2, GoesType DEF ReadTarget, Leaves, At
<1>3. CASE CommitRefused(w) \/ Crash(w) \/ Restart(w)
  BY <1>3, GoesType, IdleType DEF CommitRefused, Crash, Restart, Leaves
<1>4. ASSUME NEW title \in Titles, Look(w, title) PROVE Result
  <2>. DEFINE own == [target |-> TargetOf(w), title |-> title, first |-> JobOf(w)]
  <2>1. JobOf(w) \in Jobs
    BY <1>4 DEF Look, TypeOK, At
  <2>2. worker[w] \in Worker /\ own \in Finding
    BY <2>1, RowTypes
  <2>3. PICK f \in IF Matching(w, title) = {} THEN {own} ELSE Matching(w, title) :
           Goes(w, [worker[w] EXCEPT !.looked = {f}])
    BY <1>4 DEF Look
  <2>4. f \in Finding /\ f.target = TargetOf(w) /\ f.title = title
    BY <2>2, <2>3 DEF Matching, TypeOK, Worker
  <2>5. /\ [worker[w] EXCEPT !.looked = {f}] \in Worker
        /\ [worker[w] EXCEPT !.looked = {f}].job \in Jobs
    BY <2>1, <2>2, <2>4 DEF Worker, JobOf
  <2>6. f \in Matching(w, title) \/ (Matching(w, title) = {} /\ f.first = JobOf(w))
    BY <2>3
  <2>7. Result
    <3>1. worker'[w] = [worker[w] EXCEPT !.looked = {f}] /\ worker' \in [Workers -> Worker]
          /\ \A v \in Workers \ {w} : worker'[v] = worker[v]
      BY <2>3, <2>5, GoesType
    <3>2. Looks(w)
      BY <1>4, <2>4, <2>6, <3>1 DEF Looks, Look, At
    <3>. QED BY <1>4, <2>5, <3>1, <3>2 DEF Look
  <2>. QED BY <2>7
<1>5. CASE Persist(w)
  <2>. DEFINE new   == worker[w].new \cup {f \in worker[w].looked : f.first = JobOf(w)}
              shown == worker[w].shown \cup {[finding |-> f, job |-> JobOf(w)] : f \in worker[w].looked}
              local == [worker[w] EXCEPT !.looked = {}, !.new = new, !.shown = shown]
  <2>1. JobOf(w) \in Jobs /\ worker[w] \in Worker
    BY <1>5, RowTypes DEF Persist, TypeOK, At
  <2>2. new \subseteq Finding /\ shown \subseteq Evidence
    BY <2>1 DEF Worker, Evidence
  <2>3. local \in Worker /\ local.job \in Jobs
    <3>. HIDE DEF new, shown
    <3>. QED BY <2>1, <2>2 DEF Worker, JobOf
  <2>4. Goes(w, local)
    BY <1>5, <2>1 DEF Persist, Worker
  <2>5. worker'[w] = local /\ worker' \in [Workers -> Worker] /\ \A v \in Workers \ {w} : worker'[v] = worker[v]
    <3>. HIDE DEF local
    <3>. QED BY <2>3, <2>4, GoesType
  <2>6. Writes(w)
    BY <1>5, <2>1, <2>5 DEF Writes, Persist, At, Worker
  <2>. QED BY <1>5, <2>3, <2>5, <2>6 DEF Persist
<1>6. CASE ScanRaises(w) \/ CompletionRefused(w)
  <2>1. JobOf(w) \in Jobs
    BY <1>6 DEF ScanRaises, CompletionRefused, TypeOK, At
  <2>. DEFINE local == [Idle EXCEPT !.pc = "failing", !.job = JobOf(w)]
  <2>2. local \in Worker /\ local.job \in Jobs
    BY <2>1 DEF Idle, Worker
  <2>. HIDE DEF local
  <2>3. Goes(w, Dead) \/ Goes(w, local)
    BY <1>6 DEF ScanRaises, CompletionRefused, local
  <2>4. UNCHANGED <<targets, jobs, runs, findings, evidence, client>> /\ worker[w].pc = "scanning"
    BY <1>6 DEF ScanRaises, CompletionRefused, At
  <2>5. /\ worker'[w] \in {Dead, local} /\ worker' \in [Workers -> Worker]
        /\ \A v \in Workers \ {w} : worker'[v] = worker[v]
    BY <2>2, <2>3, GoesType, IdleType
  <2>6. Leaves(w)
    BY <2>4, <2>5 DEF Leaves, local
  <2>. QED BY <2>2, <2>4, <2>5, <2>6, IdleType
<1>. QED BY <1>1, <1>2, <1>3, <1>4, <1>5, <1>6 DEF Private
-----------------------------------------------------------------------------
Asked(c) ==
    \E t \in Targets : \/ CheckEnqueue(c, t) \/ CheckDelete(c, t)
                       \/ \E url \in Urls : CheckUpdate(c, t, url)

WorkerCommit(w) == CommitReject(w) \/ CommitClaim(w) \/ Complete(w) \/ CommitFailure(w)
ClientCommit(c) == (\E j \in Jobs : CommitEnqueue(c, j)) \/ CommitUpdate(c) \/ CommitDelete(c)

LEMMA Kinds ==
  ASSUME [Next]_vars
  PROVE  \/ \E w \in Workers : Private(w) \/ WorkerCommit(w)
         \/ \E c \in Clients : Asked(c) \/ ClientCommit(c) \/ Rollback(c)
         \/ UNCHANGED vars
<1>1. ASSUME NEW w \in Workers, RunOnce(w) \/ Crash(w) \/ Restart(w) PROVE Private(w) \/ WorkerCommit(w)
  BY <1>1 DEF RunOnce, Private, WorkerCommit
<1>2. ASSUME NEW c \in Clients, API(c) PROVE Asked(c) \/ ClientCommit(c) \/ Rollback(c)
  BY <1>2 DEF API, Asked, ClientCommit
<1>. QED BY <1>1, <1>2 DEF Next

LEMMA AskedShape ==
  ASSUME TypeOK, NEW c \in Clients, Asked(c)
  PROVE  /\ UNCHANGED <<targets, jobs, runs, findings, evidence, worker>>
         /\ client' \in [Clients -> Client]
         /\ \A d \in Clients \ {c} : client'[d] = client[d]
         /\ \E t \in Targets : 
               /\ client'[c].target = t /\ Exists(t)
               /\ \/ client'[c].pc = "enqueue" /\ Active(t) = {} /\ client'[c].url = targets[t]
                  \/ client'[c].pc = "delete" /\ JobsOf(t) = {} /\ \A f \in findings : f.target # t
                  \/ client'[c].pc = "update" /\ JobsOf(t) = {} /\ client'[c].url \in Urls
<1>. PICK t \in Targets : \/ CheckEnqueue(c, t) \/ CheckDelete(c, t)
                          \/ \E url \in Urls : CheckUpdate(c, t, url)
  BY DEF Asked
<1>1. CASE CheckEnqueue(c, t)
  <2>1. Asks(c, "enqueue", t, targets[t]) /\ targets[t] \in Urls \cup {NoUrl}
    BY <1>1 DEF CheckEnqueue, TypeOK
  <2>2. client' \in [Clients -> Client] /\ client'[c] = [pc |-> "enqueue", target |-> t, url |-> targets[t]]
        /\ \A d \in Clients \ {c} : client'[d] = client[d]
    BY <2>1, ClientType
  <2>. QED BY <1>1, <2>2 DEF CheckEnqueue, Asks
<1>2. CASE CheckDelete(c, t)
  <2>1. client' \in [Clients -> Client] /\ client'[c] = [pc |-> "delete", target |-> t, url |-> NoUrl]
        /\ \A d \in Clients \ {c} : client'[d] = client[d]
    BY <1>2, ClientType DEF CheckDelete
  <2>. QED BY <1>2, <2>1 DEF CheckDelete, Asks
<1>3. ASSUME NEW url \in Urls, CheckUpdate(c, t, url)
      PROVE  /\ UNCHANGED <<targets, jobs, runs, findings, evidence, worker>>
             /\ client' \in [Clients -> Client]
             /\ \A d \in Clients \ {c} : client'[d] = client[d]
             /\ client'[c].target = t /\ Exists(t)
             /\ client'[c].pc = "update" /\ JobsOf(t) = {} /\ client'[c].url \in Urls
  <2>1. client' \in [Clients -> Client] /\ client'[c] = [pc |-> "update", target |-> t, url |-> url]
        /\ \A d \in Clients \ {c} : client'[d] = client[d]
    BY <1>3, ClientType DEF CheckUpdate
  <2>. QED BY <1>3, <2>1 DEF CheckUpdate, Asks
<1>. QED BY <1>1, <1>2, <1>3

LEMMA CommitTypes ==
  ASSUME TypeOK, NEW w \in Workers, WorkerCommit(w)
  PROVE  /\ JobOf(w) \in Jobs /\ UNCHANGED <<targets, client>>
         /\ worker' \in [Workers -> Worker]
         /\ \/ worker'[w] = Idle
            \/ CommitClaim(w) /\ worker'[w] = [worker[w] EXCEPT !.pc = "scanning"]
         /\ \A v \in Workers \ {w} : worker'[v] = worker[v]
         /\ jobs' \in [Jobs -> Job] /\ runs' \in [Jobs -> Run]
         /\ \A i \in Jobs : jobs'[i].target = jobs[i].target /\ jobs'[i].origin = jobs[i].origin
         /\ \A i \in Jobs \ {JobOf(w)} : jobs'[i] = jobs[i] /\ runs'[i] = runs[i]
<1>1. JobOf(w) \in Jobs /\ worker[w] \in Worker
  BY RowTypes DEF WorkerCommit, CommitReject, CommitClaim, Complete, CommitFailure, TypeOK, At
<1>2. CASE CommitClaim(w)
  <2>1. [worker[w] EXCEPT !.pc = "scanning"] \in Worker /\ [worker[w] EXCEPT !.pc = "scanning"].job \in Jobs
    BY <1>1 DEF Worker, JobOf
  <2>2. /\ worker' \in [Workers -> Worker] /\ worker'[w] = [worker[w] EXCEPT !.pc = "scanning"]
        /\ \A v \in Workers \ {w} : worker'[v] = worker[v]
    BY <1>2, <2>1, GoesType DEF CommitClaim
  <2>3. /\ jobs' \in [Jobs -> Job]
        /\ \A i \in Jobs : jobs'[i].target = jobs[i].target /\ jobs'[i].origin = jobs[i].origin
        /\ \A i \in Jobs \ {JobOf(w)} : jobs'[i] = jobs[i]
    BY <1>1, <1>2, SetJobType DEF CommitClaim
  <2>. QED BY <1>1, <1>2, <2>2, <2>3, ClaimType DEF CommitClaim
<1>3. CASE ~CommitClaim(w)
  <2>1. Goes(w, Idle) /\ UNCHANGED <<targets, client>>
    BY <1>3 DEF WorkerCommit, CommitReject, Complete, CommitFailure
  <2>2. worker' \in [Workers -> Worker] /\ worker'[w] = Idle /\ \A v \in Workers \ {w} : worker'[v] = worker[v]
    BY <2>1, GoesType, IdleType
  <2>3. \E s \in Terminal : SetJob(JobOf(w), s)
    BY <1>3 DEF WorkerCommit, CommitReject, Complete, CommitFailure, Terminal
  <2>4. /\ jobs' \in [Jobs -> Job]
        /\ \A i \in Jobs : jobs'[i].target = jobs[i].target /\ jobs'[i].origin = jobs[i].origin
        /\ \A i \in Jobs \ {JobOf(w)} : jobs'[i] = jobs[i]
    BY <1>1, <2>3, SetJobType DEF Terminal
  <2>5. runs' \in [Jobs -> Run] /\ \A i \in Jobs \ {JobOf(w)} : runs'[i] = runs[i]
    <3>1. runs' = runs \/ SetRun(JobOf(w), "COMPLETED") \/ SetRun(JobOf(w), "FAILED")
      BY <1>3 DEF WorkerCommit, CommitReject, Complete, CommitFailure
    <3>2. CASE runs' = runs
      BY <3>2 DEF TypeOK
    <3>. QED BY <1>1, <3>1, <3>2, SetRunType
  <2>. QED BY <1>1, <2>1, <2>2, <2>4, <2>5
<1>. QED BY <1>2, <1>3

LEMMA TypeStep == ASSUME TypeOK, [Next]_vars PROVE TypeOK'
<1>1. ASSUME NEW w \in Workers, Private(w) PROVE TypeOK'
  <2>1. \A v \in Workers : worker'[v].pc \in {"idle", "dead"} \/ worker'[v].job \in Jobs
    BY <1>1, PrivateShape DEF TypeOK, JobOf
  <2>. QED BY <1>1, <2>1, PrivateShape DEF TypeOK, JobOf
<1>2. ASSUME NEW w \in Workers, WorkerCommit(w) PROVE TypeOK'
  <2>1. \A v \in Workers : worker'[v].pc \in {"idle", "dead"} \/ worker'[v].job \in Jobs
    <3>1. worker'[w].pc = "idle" \/ worker'[w].job \in Jobs
      <4>1. JobOf(w) \in Jobs /\ worker[w] \in Worker
        BY <1>2, CommitTypes DEF TypeOK
      <4>2. [worker[w] EXCEPT !.pc = "scanning"].job \in Jobs
        BY <4>1 DEF Worker, JobOf
      <4>. QED BY <1>2, <4>2, CommitTypes, IdleType
    <3>2. \A v \in Workers \ {w} : worker'[v] = worker[v]
      BY <1>2, CommitTypes
    <3>. QED BY <3>1, <3>2 DEF TypeOK, JobOf
  <2>2. findings' \subseteq Finding /\ evidence' \subseteq Evidence
    BY <1>2 DEF WorkerCommit, CommitReject, CommitClaim, Complete, CommitFailure, TypeOK, Worker
  <2>. QED BY <1>2, <2>1, <2>2, CommitTypes DEF TypeOK, JobOf
<1>3. ASSUME NEW c \in Clients, Asked(c) PROVE TypeOK'
  BY <1>3, AskedShape DEF TypeOK, JobOf
<1>4. ASSUME NEW c \in Clients, ClientCommit(c) \/ Rollback(c) PROVE TypeOK'
  <2>1. client' \in [Clients -> Client] /\ UNCHANGED <<runs, findings, evidence, worker>>
    BY <1>4, ClientType DEF ClientCommit, CommitEnqueue, CommitUpdate, CommitDelete, Rollback
  <2>2. targets' \in [Targets -> Urls \cup {NoUrl}]
    BY <1>4 DEF ClientCommit, CommitEnqueue, CommitUpdate, CommitDelete, Rollback, TypeOK, Client
  <2>3. jobs' \in [Jobs -> Job]
    <3>1. CASE jobs' = jobs
      BY <3>1 DEF TypeOK
    <3>. QED BY <1>4, <3>1, EnqueueType DEF ClientCommit, CommitUpdate, CommitDelete, Rollback
  <2>. QED BY <2>1, <2>2, <2>3 DEF TypeOK, JobOf
<1>5. CASE UNCHANGED vars
  BY <1>5 DEF vars, TypeOK, JobOf
<1>. QED BY <1>1, <1>2, <1>3, <1>4, <1>5, Kinds

(* The rows and the state of every worker and request are what they should be. *)
THEOREM TypeCorrect == Spec => []TypeOK
<1>1. Init => TypeOK
  <2>1. AnyTarget \in Targets
    BY QueueAssumption DEF AnyTarget
  <2>. QED BY <2>1, IdleType
           DEF Init, TypeOK, Job, Run, Idle, NoRequest, Client, JobOf
<1>. QED BY <1>1, TypeStep, PTL DEF Spec
-----------------------------------------------------------------------------
(* JobAndRunAgree.  It needs that no target disappears under a job that two workers have
   selected, so one of: PostgreSQL, whose foreign keys keep targets with history; an API
   that handles one request at a time; a single worker. *)
OneWorker == \A v, w \in Workers : v = w
OneClient == \A c, d \in Clients : c = d
Orderly   == ~Sqlite \/ OneClient \/ OneWorker

(* A worker that has not claimed its job yet holds one that was enqueued and not rejected;
   with nobody else to claim it, it is pending still.  Only a lone worker ever rejects. *)
Unclaimed(w) ==
    /\ worker[w].pc \in {"selected", "claiming", "rejecting"} =>
          /\ jobs[JobOf(w)].status \notin {"ABSENT", "REJECTED"}
          /\ OneWorker => jobs[JobOf(w)].status = "PENDING"
    /\ worker[w].pc = "rejecting" => OneWorker

(* A running job is its worker's alone. *)
Owned(w) ==
    worker[w].pc \in {"scanning", "failing"} =>
        jobs[JobOf(w)].status = "RUNNING" /\ runs[JobOf(w)].by = w

(* What a request has read is still so when it commits, if no other came between. *)
Reserved(c) ==
    /\ client[c].pc = "update" => client[c].url \in Urls
    /\ OneClient =>
          /\ client[c].pc = "enqueue" => /\ Active(client[c].target) = {}
                                         /\ Exists(client[c].target)
                                         /\ client[c].url = targets[client[c].target]
          /\ client[c].pc \in {"update", "delete"} => JobsOf(client[c].target) = {}

(* The inductive strengthening of JobAndRunAgree. *)
AgreeInv ==
    /\ JobAndRunAgree
    /\ \A w \in Workers : Unclaimed(w) /\ Owned(w)
    /\ \A c \in Clients : Reserved(c)
    /\ ~Sqlite \/ OneClient => JobsHaveTargets

(* A job once enqueued stays so. *)
LEMMA StaysEnqueued ==
  ASSUME TypeOK, [Next]_vars, NEW i \in Jobs, jobs[i].status # "ABSENT"
  PROVE  jobs'[i].status # "ABSENT" /\ jobs'[i].target = jobs[i].target /\ jobs'[i].origin = jobs[i].origin
<1>1. ASSUME NEW w \in Workers, WorkerCommit(w)
      PROVE  jobs'[i].status # "ABSENT" /\ jobs'[i].target = jobs[i].target /\ jobs'[i].origin = jobs[i].origin
  <2>1. CASE i = JobOf(w)
    <3>1. \E s \in {"RUNNING"} \cup Terminal : SetJob(i, s)
      BY <1>1, <2>1 DEF WorkerCommit, CommitReject, CommitClaim, Complete, CommitFailure, Terminal
    <3>. QED BY <3>1, SetJobType DEF Terminal
  <2>. QED BY <1>1, <2>1, CommitTypes
<1>2. ASSUME NEW c \in Clients, NEW j \in Jobs, CommitEnqueue(c, j) PROVE jobs'[i] = jobs[i]
  BY <1>2, EnqueueType DEF CommitEnqueue
<1>3. ASSUME NEW w \in Workers, Private(w) PROVE jobs' = jobs
  BY <1>3, PrivateShape
<1>4. ASSUME NEW c \in Clients, Asked(c) \/ CommitUpdate(c) \/ CommitDelete(c) \/ Rollback(c)
      PROVE  jobs' = jobs
  BY <1>4, AskedShape DEF CommitUpdate, CommitDelete, Rollback
<1>5. CASE UNCHANGED vars
  BY <1>5 DEF vars
<1>. QED BY <1>1, <1>2, <1>3, <1>4, <1>5, Kinds DEF ClientCommit

(* What a commit of a worker does with its job, given AgreeInv. *)
LEMMA CommitShape ==
  ASSUME TypeOK, AgreeInv, NEW w \in Workers, WorkerCommit(w)
  PROVE  LET j == JobOf(w) IN
         \/ /\ CommitClaim(w) /\ jobs[j].status = "PENDING"
            /\ jobs'[j].status = "RUNNING" /\ runs'[j].status = "RUNNING" /\ runs'[j].by = w
         \/ /\ CommitReject(w) /\ jobs[j].status = "PENDING" /\ OneWorker
            /\ jobs'[j].status = "REJECTED" /\ runs' = runs
         \/ /\ Complete(w) /\ jobs[j].status = "RUNNING" /\ runs[j].by = w
            /\ jobs'[j].status = "COMPLETED" /\ runs'[j].status = "COMPLETED"
         \/ /\ CommitFailure(w) /\ jobs[j].status = "RUNNING" /\ runs[j].by = w
            /\ jobs'[j].status = "FAILED" /\ runs'[j].status = "FAILED"
<1>. DEFINE j == JobOf(w)
<1>1. j \in Jobs /\ jobs[j] \in Job /\ Unclaimed(w) /\ Owned(w)
  BY CommitTypes, RowTypes DEF AgreeInv
<1>2. CASE CommitClaim(w)
  <2>1. jobs[j].status = "PENDING"
    BY <1>1, <1>2 DEF CommitClaim, At, RunAccepted, AgreeInv, JobAndRunAgree, Unclaimed, Job, Terminal
  <2>2. jobs'[j].status = "RUNNING"
    BY <1>1, <1>2, SetJobType DEF CommitClaim
  <2>3. runs'[j].status = "RUNNING" /\ runs'[j].by = w
    BY <1>2, ClaimType
  <2>. QED BY <1>2, <2>1, <2>2, <2>3
<1>3. CASE CommitReject(w)
  <2>1. jobs[j].status = "PENDING" /\ OneWorker
    BY <1>1, <1>3 DEF CommitReject, At, Unclaimed
  <2>2. jobs'[j].status = "REJECTED"
    BY <1>1, <1>3, SetJobType DEF CommitReject, Terminal
  <2>. QED BY <1>3, <2>1, <2>2 DEF CommitReject
<1>4. CASE Complete(w)
  <2>1. jobs'[j].status = "COMPLETED" /\ runs'[j].status = "COMPLETED"
    BY <1>1, <1>4, SetJobType, SetRunType DEF Complete, Terminal
  <2>. QED BY <1>1, <1>4, <2>1 DEF Complete, At, Owned
<1>5. CASE CommitFailure(w)
  <2>1. jobs'[j].status = "FAILED" /\ runs'[j].status = "FAILED"
    BY <1>1, <1>5, SetJobType, SetRunType DEF CommitFailure, Terminal
  <2>. QED BY <1>1, <1>5, <2>1 DEF CommitFailure, At, Owned
<1>. QED BY <1>2, <1>3, <1>4, <1>5 DEF WorkerCommit

(* The two rows of a job. *)
LEMMA AgreeStep1 == ASSUME TypeOK, AgreeInv, [Next]_vars PROVE JobAndRunAgree'
<1>1. ASSUME NEW w \in Workers, WorkerCommit(w) PROVE JobAndRunAgree'
  <2>1. ASSUME NEW i \in Jobs \ {JobOf(w)} PROVE jobs'[i] = jobs[i] /\ runs'[i] = runs[i]
    BY <1>1, CommitTypes
  <2>2. JobOf(w) \in Jobs
    BY <1>1, CommitTypes
  <2>3. runs'[JobOf(w)].status = IF jobs'[JobOf(w)].status \in {"RUNNING", "COMPLETED", "FAILED"}
                                 THEN jobs'[JobOf(w)].status ELSE "NONE"
    BY <1>1, <2>2, CommitShape DEF AgreeInv, JobAndRunAgree
  <2>. QED BY <2>1, <2>3 DEF AgreeInv, JobAndRunAgree
<1>2. ASSUME NEW c \in Clients, NEW j \in Jobs, CommitEnqueue(c, j) PROVE JobAndRunAgree'
  <2>1. runs[j].status = "NONE" /\ runs' = runs
    BY <1>2 DEF CommitEnqueue, AgreeInv, JobAndRunAgree
  <2>2. jobs'[j].status = "PENDING"
    BY <1>2, EnqueueType
  <2>3. \A i \in Jobs \ {j} : jobs'[i] = jobs[i]
    BY <1>2, EnqueueType
  <2>. QED BY <2>1, <2>2, <2>3 DEF AgreeInv, JobAndRunAgree
<1>3. ASSUME jobs' = jobs, runs' = runs PROVE JobAndRunAgree'
  BY <1>3 DEF AgreeInv, JobAndRunAgree
<1>. QED
  BY <1>1, <1>2, <1>3, Kinds, PrivateShape, AskedShape
     DEF ClientCommit, CommitUpdate, CommitDelete, Rollback, vars

(* The rows of a job only change by the commits of workers and by its enqueue. *)
LEMMA RowsMove ==
  ASSUME TypeOK, [Next]_vars
  PROVE  \/ UNCHANGED <<jobs, runs>>
         \/ \E w \in Workers : WorkerCommit(w)
         \/ \E c \in Clients, j \in Jobs : CommitEnqueue(c, j)
<1>1. ASSUME NEW w \in Workers, Private(w) PROVE jobs' = jobs /\ runs' = runs
  BY <1>1, PrivateShape
<1>2. ASSUME NEW c \in Clients, Asked(c) \/ CommitUpdate(c) \/ CommitDelete(c) \/ Rollback(c)
      PROVE  jobs' = jobs /\ runs' = runs
  BY <1>2, AskedShape DEF CommitUpdate, CommitDelete, Rollback
<1>3. CASE UNCHANGED vars
  BY <1>3 DEF vars
<1>. QED BY <1>1, <1>2, <1>3, Kinds DEF ClientCommit

(* The hold of a worker on its job, when it takes a step itself ... *)
LEMMA HoldOwnStep ==
  ASSUME Orderly, TypeOK, AgreeInv, NEW w \in Workers, Private(w) \/ WorkerCommit(w)
  PROVE  Unclaimed(w)' /\ Owned(w)'
<1>. DEFINE Same == jobs' = jobs /\ runs' = runs
<1>1. worker[w] \in Worker /\ Unclaimed(w) /\ Owned(w)
  BY DEF TypeOK, AgreeInv
<1>2. CASE worker'[w] \in {Idle, Dead}
  BY <1>2, IdleType DEF Unclaimed, Owned
<1>3. CASE Private(w) /\ Start(w)
  <2>1. Same
    BY <1>3, PrivateShape
  <2>2. worker'[w].pc = "selected" /\ worker'[w].job \in Pending
    BY <1>3 DEF Start, Idle
  <2>3. jobs'[worker'[w].job].status = "PENDING"
    BY <2>1, <2>2 DEF Pending
  <2>. QED BY <2>2, <2>3 DEF Unclaimed, Owned, JobOf
<1>4. CASE Private(w) /\ (Looks(w) \/ Writes(w))
  <2>1. Same
    BY <1>4, PrivateShape
  <2>2. worker[w].pc = "scanning" /\ worker'[w].pc = worker[w].pc /\ worker'[w].job = worker[w].job
    BY <1>1, <1>4 DEF Looks, Writes, Worker
  <2>. QED BY <1>1, <2>1, <2>2 DEF Unclaimed, Owned, JobOf
<1>5. CASE Private(w) /\ Leaves(w) /\ worker'[w] \notin {Idle, Dead}
  <2>1. Same
    BY <1>5, PrivateShape
  <2>2. worker'[w].job = worker[w].job
    BY <1>1, <1>5 DEF Leaves, Idle, Worker, JobOf
  <2>3. CASE worker[w].pc = "selected"
    <3>1. worker'[w].pc = "claiming" \/ (worker'[w].pc = "rejecting" /\ ~Exists(TargetOf(w)))
      BY <1>1, <1>5, <2>3 DEF Leaves, Worker
    <3>2. JobOf(w) \in Jobs /\ jobs[JobOf(w)].status # "ABSENT"
      BY <1>1, <2>3 DEF TypeOK, Unclaimed
    <3>3. worker'[w].pc = "rejecting" => OneWorker
      BY <3>1, <3>2 DEF AgreeInv, Orderly, JobsHaveTargets, TargetOf
    <3>. QED BY <1>1, <2>1, <2>2, <2>3, <3>1, <3>3 DEF Unclaimed, Owned, JobOf
  <2>4. CASE worker[w].pc # "selected"
    <3>1. worker[w].pc = "scanning" /\ worker'[w].pc = "failing"
      BY <1>5, <2>4 DEF Leaves, Idle
    <3>. QED BY <1>1, <2>1, <2>2, <3>1 DEF Unclaimed, Owned, JobOf
  <2>. QED BY <2>3, <2>4
<1>6. CASE WorkerCommit(w) /\ worker'[w] # Idle
  <2>1. /\ CommitClaim(w) /\ worker'[w] = [worker[w] EXCEPT !.pc = "scanning"]
        /\ jobs'[JobOf(w)].status = "RUNNING" /\ runs'[JobOf(w)].by = w
    <3>1. CommitClaim(w) /\ worker'[w] = [worker[w] EXCEPT !.pc = "scanning"]
      BY <1>6, CommitTypes
    <3>2. JobOf(w) \in Jobs /\ runs'[JobOf(w)].by = w
      BY <3>1, ClaimType
    <3>3. SetJob(JobOf(w), "RUNNING")
      BY <3>1 DEF CommitClaim
    <3>4. jobs'[JobOf(w)].status = "RUNNING"
      BY <3>2, <3>3, SetJobType
    <3>. QED BY <3>1, <3>2, <3>4
  <2>2. worker'[w].pc = "scanning" /\ worker'[w].job = worker[w].job
    BY <1>1, <2>1 DEF Worker
  <2>. QED BY <2>1, <2>2 DEF Unclaimed, Owned, JobOf
<1>. QED BY <1>2, <1>3, <1>4, <1>5, <1>6, PrivateShape

(* ... and when others do. *)
LEMMA HoldOtherStep ==
  ASSUME TypeOK, AgreeInv, [Next]_vars, NEW w \in Workers, worker'[w] = worker[w],
         \A v \in Workers : WorkerCommit(v) => v # w
  PROVE  Unclaimed(w)' /\ Owned(w)'
<1>1. Unclaimed(w) /\ Owned(w) /\ (worker[w].pc \in {"idle", "dead"} \/ JobOf(w) \in Jobs)
  BY DEF TypeOK, AgreeInv
<1>2. CASE UNCHANGED <<jobs, runs>>
  BY <1>1, <1>2 DEF Unclaimed, Owned, JobOf
<1>3. CASE worker[w].pc \in {"idle", "dead"}
  BY <1>3 DEF Unclaimed, Owned
<1>4. ASSUME jobs'[JobOf(w)] = jobs[JobOf(w)], runs'[JobOf(w)] = runs[JobOf(w)]
      PROVE  Unclaimed(w)' /\ Owned(w)'
  BY <1>1, <1>4 DEF Unclaimed, Owned, JobOf
<1>5. ASSUME NEW v \in Workers, WorkerCommit(v), JobOf(w) \in Jobs PROVE Unclaimed(w)' /\ Owned(w)'
  <2>1. v # w /\ ~OneWorker
    BY <1>5 DEF OneWorker
  <2>2. CASE JobOf(w) # JobOf(v)
    BY <1>4, <1>5, <2>2, CommitTypes
  <2>3. CASE JobOf(w) = JobOf(v)
    <3>1. jobs'[JobOf(w)].status \in {"RUNNING", "COMPLETED", "FAILED"}
      BY <1>5, <2>1, <2>3, CommitShape
    <3>2. worker[w].pc \notin {"scanning", "failing"}
      BY <1>1, <1>5, <2>1, <2>3, CommitShape DEF Owned
    <3>. QED BY <1>1, <2>1, <3>1, <3>2 DEF Unclaimed, Owned, JobOf
  <2>. QED BY <2>2, <2>3
<1>6. ASSUME NEW c \in Clients, NEW j \in Jobs, CommitEnqueue(c, j), worker[w].pc \notin {"idle", "dead"}
      PROVE  Unclaimed(w)' /\ Owned(w)'
  <2>1. jobs[j].status = "ABSENT" /\ runs' = runs /\ JobOf(w) \in Jobs
    BY <1>1, <1>6 DEF CommitEnqueue
  <2>2. jobs[JobOf(w)].status # "ABSENT"
    BY <1>1, <1>6 DEF Unclaimed, Owned, TypeOK, Worker
  <2>. QED BY <1>4, <1>6, <2>1, <2>2, EnqueueType
<1>. QED BY <1>1, <1>2, <1>3, <1>5, <1>6, RowsMove

(* A worker's step leaves the jobs of a target, and activates none. *)
LEMMA WorkersActivateNone ==
  ASSUME TypeOK, AgreeInv, [Next]_vars, NEW w \in Workers, Private(w) \/ WorkerCommit(w), NEW t \in Targets
  PROVE  /\ UNCHANGED <<targets, client>> /\ JobsOf(t)' = JobsOf(t) /\ Active(t)' \subseteq Active(t)
         /\ \A i \in Jobs : jobs'[i].target = jobs[i].target /\ jobs'[i].origin = jobs[i].origin
         /\ \A i \in Jobs : jobs'[i].status = "ABSENT" <=> jobs[i].status = "ABSENT"
<1>1. CASE Private(w)
  <2>1. UNCHANGED <<targets, client, jobs>>
    BY <1>1, PrivateShape
  <2>. QED BY <2>1 DEF JobsOf, Active
<1>2. CASE WorkerCommit(w)
  <2>1. /\ UNCHANGED <<targets, client>>
        /\ \A i \in Jobs : jobs'[i].target = jobs[i].target /\ jobs'[i].origin = jobs[i].origin
        /\ \A i \in Jobs \ {JobOf(w)} : jobs'[i] = jobs[i]
    BY <1>2, CommitTypes
  <2>2. /\ jobs[JobOf(w)].status \in {"PENDING", "RUNNING"}
        /\ jobs'[JobOf(w)].status \in {"RUNNING"} \cup Terminal
    BY <1>2, CommitShape DEF Terminal
  <2>3. \A i \in Jobs : jobs'[i].status = "ABSENT" <=> jobs[i].status = "ABSENT"
    BY <2>1, <2>2 DEF Terminal
  <2>4. JobsOf(t)' = JobsOf(t)
    BY <2>1, <2>3 DEF JobsOf
  <2>5. Active(t)' \subseteq Active(t)
    <3>1. JobOf(w) \in Active(t)' => JobOf(w) \in Active(t)
      BY <2>1, <2>2, <2>4 DEF Active
    <3>2. \A i \in Jobs \ {JobOf(w)} : i \in Active(t)' => i \in Active(t)
      BY <2>1, <2>4 DEF Active
    <3>. QED BY <3>1, <3>2 DEF Active, JobsOf
  <2>. QED BY <2>1, <2>3, <2>4, <2>5
<1>. QED BY <1>1, <1>2

LEMMA ReservedStep ==
  ASSUME TypeOK, AgreeInv, [Next]_vars, NEW c \in Clients
  PROVE  Reserved(c)'
<1>. DEFINE t == client[c].target
<1>1. Reserved(c) /\ t \in Targets
  BY DEF AgreeInv, TypeOK, Client
<1>2. ASSUME NEW w \in Workers, Private(w) \/ WorkerCommit(w) PROVE Reserved(c)'
  <2>1. UNCHANGED <<targets, client>> /\ JobsOf(t)' = JobsOf(t) /\ Active(t)' \subseteq Active(t)
    <3>1. client' = client
      BY <1>1, <1>2, WorkersActivateNone
    <3>. QED BY <1>1, <1>2, <3>1, WorkersActivateNone DEF JobsOf, Active
  <2>. QED BY <1>1, <2>1 DEF Reserved, Exists
<1>3. CASE Asked(c)
  <2>1. PICK s \in Targets :
               /\ client'[c].target = s /\ Exists(s)
               /\ \/ client'[c].pc = "enqueue" /\ Active(s) = {} /\ client'[c].url = targets[s]
                  \/ client'[c].pc = "delete" /\ JobsOf(s) = {} /\ \A f \in findings : f.target # s
                  \/ client'[c].pc = "update" /\ JobsOf(s) = {} /\ client'[c].url \in Urls
    BY <1>3, AskedShape
  <2>2. UNCHANGED <<targets, jobs>>
    BY <1>3, AskedShape
  <2>. QED BY <2>1, <2>2 DEF Reserved, Exists, JobsOf, Active
<1>4. CASE ClientCommit(c) \/ Rollback(c)
  <2>1. client'[c] = NoRequest
    BY <1>4, ClientType DEF ClientCommit, CommitEnqueue, CommitUpdate, CommitDelete, Rollback
  <2>. QED BY <2>1 DEF Reserved, NoRequest
<1>5. ASSUME NEW d \in Clients \ {c}, Asked(d) \/ ClientCommit(d) \/ Rollback(d) PROVE Reserved(c)'
  <2>1. client'[c] = client[c] /\ ~OneClient
    BY <1>5, AskedShape, ClientType
       DEF ClientCommit, CommitEnqueue, CommitUpdate, CommitDelete, Rollback, OneClient
  <2>. QED BY <1>1, <2>1 DEF Reserved
<1>6. CASE UNCHANGED vars
  BY <1>1, <1>6 DEF vars, Reserved, Exists, JobsOf, Active
<1>. QED BY <1>2, <1>3, <1>4, <1>5, <1>6, Kinds

LEMMA TargetsStep ==
  ASSUME TypeOK, AgreeInv, [Next]_vars, ~Sqlite \/ OneClient
  PROVE  JobsHaveTargets'
<1>1. JobsHaveTargets
  BY DEF AgreeInv
<1>2. ASSUME NEW w \in Workers, Private(w) \/ WorkerCommit(w) PROVE JobsHaveTargets'
  <2>1. /\ targets' = targets
        /\ \A i \in Jobs : jobs'[i].target = jobs[i].target
        /\ \A i \in Jobs : jobs'[i].status = "ABSENT" <=> jobs[i].status = "ABSENT"
    BY <1>2, QueueAssumption, WorkersActivateNone
  <2>. QED BY <1>1, <2>1 DEF JobsHaveTargets, Exists
<1>3. ASSUME NEW c \in Clients, NEW j \in Jobs, CommitEnqueue(c, j) PROVE JobsHaveTargets'
  <2>1. Exists(client[c].target) /\ targets' = targets
    BY <1>3 DEF CommitEnqueue, AgreeInv, Reserved
  <2>2. jobs'[j].target = client[c].target /\ \A i \in Jobs \ {j} : jobs'[i] = jobs[i]
    BY <1>3, EnqueueType
  <2>. QED BY <1>1, <2>1, <2>2 DEF JobsHaveTargets, Exists
<1>4. ASSUME NEW c \in Clients, CommitUpdate(c) PROVE JobsHaveTargets'
  <2>1. client[c].url \in Urls /\ client[c].target \in Targets
    BY <1>4 DEF CommitUpdate, AgreeInv, Reserved, TypeOK, Client
  <2>2. targets' = [targets EXCEPT ![client[c].target] = client[c].url] /\ jobs' = jobs
    BY <1>4 DEF CommitUpdate
  <2>3. \A t \in Targets : targets[t] # NoUrl => targets'[t] # NoUrl
    BY <2>1, <2>2, QueueAssumption DEF TypeOK
  <2>4. \A i \in Jobs : jobs[i].target \in Targets
    BY DEF TypeOK, Job
  <2>. QED BY <1>1, <2>2, <2>3, <2>4 DEF JobsHaveTargets, Exists
<1>5. ASSUME NEW c \in Clients, CommitDelete(c) PROVE JobsHaveTargets'
  <2>1. JobsOf(client[c].target) = {}
    BY <1>5 DEF CommitDelete, AgreeInv, Reserved
  <2>2. targets' = [targets EXCEPT ![client[c].target] = NoUrl] /\ jobs' = jobs
    BY <1>5 DEF CommitDelete
  <2>3. \A i \in Jobs : jobs[i].status # "ABSENT" => jobs[i].target # client[c].target
    BY <2>1 DEF JobsOf
  <2>4. \A i \in Jobs : jobs[i].target \in Targets
    BY DEF TypeOK, Job
  <2>. QED BY <1>1, <2>2, <2>3, <2>4 DEF JobsHaveTargets, Exists, TypeOK
<1>6. ASSUME targets' = targets, jobs' = jobs PROVE JobsHaveTargets'
  BY <1>1, <1>6 DEF JobsHaveTargets, Exists
<1>7. ASSUME NEW c \in Clients, Asked(c) \/ Rollback(c) PROVE targets' = targets /\ jobs' = jobs
  BY <1>7, AskedShape DEF Rollback
<1>8. CASE UNCHANGED vars
  BY <1>6, <1>8 DEF vars
<1>. QED BY <1>2, <1>3, <1>4, <1>5, <1>6, <1>7, <1>8, Kinds DEF ClientCommit

(* Nobody moves a worker but itself. *)
LEMMA MovesItself ==
  ASSUME TypeOK, [Next]_vars, NEW w \in Workers, ~(Private(w) \/ WorkerCommit(w))
  PROVE  worker'[w] = worker[w]
<1>1. ASSUME NEW v \in Workers, Private(v) \/ WorkerCommit(v) PROVE worker'[w] = worker[w]
  BY <1>1, PrivateShape, CommitTypes
<1>2. ASSUME NEW c \in Clients, Asked(c) \/ ClientCommit(c) \/ Rollback(c) PROVE worker' = worker
  BY <1>2, AskedShape DEF ClientCommit, CommitEnqueue, CommitUpdate, CommitDelete, Rollback
<1>3. CASE UNCHANGED vars
  BY <1>3 DEF vars
<1>. QED BY <1>1, <1>2, <1>3, Kinds

LEMMA AgreeStep == ASSUME Orderly, TypeOK, AgreeInv, [Next]_vars PROVE AgreeInv'
<1>1. ASSUME NEW w \in Workers PROVE Unclaimed(w)' /\ Owned(w)'
  <2>1. CASE Private(w) \/ WorkerCommit(w)
    BY <2>1, HoldOwnStep
  <2>2. CASE ~(Private(w) \/ WorkerCommit(w))
    <3>1. worker'[w] = worker[w]
      BY <2>2, MovesItself
    <3>. QED BY <2>2, <3>1, HoldOtherStep
  <2>. QED BY <2>1, <2>2
<1>. QED BY <1>1, AgreeStep1, ReservedStep, TargetsStep DEF AgreeInv, OneClient

LEMMA AgreeInit == Init => AgreeInv
  BY DEF Init, AgreeInv, JobAndRunAgree, Unclaimed, Owned, Reserved, JobsHaveTargets, Idle, NoRequest

(* Whatever fails and whoever is killed between the commits, the two rows of a job agree
   (worker/cli.py, run_once: every commit writes both). *)
THEOREM RowsAgree == ASSUME Orderly PROVE Spec => []JobAndRunAgree
<1>1. TypeOK /\ AgreeInv /\ [Next]_vars => AgreeInv'
  BY AgreeStep
<1>2. AgreeInv => JobAndRunAgree
  BY DEF AgreeInv
<1>. QED BY <1>1, <1>2, AgreeInit, TypeCorrect, PTL DEF Spec
-----------------------------------------------------------------------------
(* EvidenceBacked.  What the open transaction of a worker holds: a new finding with its
   evidence, and evidence of nothing but findings committed or new. *)
Backed(w) ==
    /\ worker[w].pc # "scanning" =>
          worker[w].new = {} /\ worker[w].looked = {} /\ worker[w].shown = {}
    /\ \A f \in worker[w].new : \E e \in worker[w].shown : e.finding = f
    /\ \A e \in worker[w].shown : e.job = JobOf(w) /\ e.finding \in findings \cup worker[w].new
    /\ \A f \in worker[w].looked : f \in findings \cup worker[w].new \/ f.first = JobOf(w)

BackedInv == EvidenceBacked /\ \A w \in Workers : Backed(w)

LEMMA BackedOwnStep ==
  ASSUME TypeOK, BackedInv, NEW w \in Workers, Private(w) \/ WorkerCommit(w)
  PROVE  Backed(w)'
<1>1. worker[w] \in Worker /\ Backed(w)
  BY DEF TypeOK, BackedInv
<1>2. CASE worker'[w].pc # "scanning" /\ worker'[w].new = {} /\ worker'[w].looked = {} /\ worker'[w].shown = {}
  BY <1>2 DEF Backed
<1>3. Idle.pc # "scanning" /\ Idle.new = {} /\ Idle.looked = {} /\ Idle.shown = {}
  BY DEF Idle
<1>4. Dead.pc # "scanning" /\ Dead.new = {} /\ Dead.looked = {} /\ Dead.shown = {}
  BY DEF Idle, Dead
<1>5. CASE worker'[w] \in {Idle, Dead}
  BY <1>2, <1>3, <1>4, <1>5
<1>6. CASE Private(w) /\ Start(w)
  BY <1>2, <1>6 DEF Start, Idle
<1>7. CASE Private(w) /\ Looks(w)
  <2>1. findings' = findings
    BY <1>7, PrivateShape
  <2>2. PICK title \in Titles, f \in Finding :
          /\ worker'[w] = [worker[w] EXCEPT !.looked = {f}]
          /\ f.target = TargetOf(w) /\ f.title = title
          /\ \/ f \in Matching(w, title)
             \/ Matching(w, title) = {} /\ f.first = JobOf(w)
    BY <1>7 DEF Looks
  <2>3. /\ worker'[w].pc = "scanning" /\ worker'[w].looked = {f} /\ worker'[w].job = worker[w].job
        /\ worker'[w].new = worker[w].new /\ worker'[w].shown = worker[w].shown
    BY <1>1, <1>7, <2>2 DEF Worker, Looks
  <2>4. f \in findings \cup worker[w].new \/ f.first = JobOf(w)
    BY <2>2 DEF Matching
  <2>. QED BY <1>1, <2>1, <2>3, <2>4 DEF Backed, JobOf
<1>8. CASE Private(w) /\ Writes(w)
  <2>1. findings' = findings
    BY <1>8, PrivateShape
  <2>. DEFINE own == {f \in worker[w].looked : f.first = JobOf(w)}
              shows == {[finding |-> f, job |-> JobOf(w)] : f \in worker[w].looked}
  <2>2. /\ worker'[w].pc = "scanning" /\ worker'[w].looked = {} /\ worker'[w].job = worker[w].job
        /\ worker'[w].new = worker[w].new \cup own /\ worker'[w].shown = worker[w].shown \cup shows
    BY <1>1, <1>8 DEF Worker, Writes
  <2>3. ASSUME NEW f \in own PROVE \E e \in shows : e.finding = f
    <3>1. [finding |-> f, job |-> JobOf(w)] \in shows /\ [finding |-> f, job |-> JobOf(w)].finding = f
      OBVIOUS
    <3>. QED BY <3>1
  <2>4. \A e \in shows : e.job = JobOf(w) /\ e.finding \in findings \cup worker[w].new \cup own
    BY <1>1 DEF Backed
  <2>. HIDE DEF own, shows
  <2>. QED BY <1>1, <2>1, <2>2, <2>3, <2>4 DEF Backed, JobOf
<1>9. CASE Private(w) /\ Leaves(w) /\ worker'[w] \notin {Idle, Dead}
  <2>1. worker[w].pc = "selected" \/ worker[w].pc = "scanning"
    BY <1>9 DEF Leaves
  <2>2. CASE worker[w].pc = "selected"
    <3>1. /\ worker'[w].pc \in {"claiming", "rejecting"} /\ worker'[w].new = worker[w].new
          /\ worker'[w].looked = worker[w].looked /\ worker'[w].shown = worker[w].shown
      BY <1>1, <1>9, <2>2 DEF Leaves, Worker
    <3>. QED BY <1>1, <1>2, <2>2, <3>1 DEF Backed
  <2>3. CASE worker[w].pc = "scanning"
    BY <1>2, <1>9, <2>3 DEF Leaves, Idle
  <2>. QED BY <2>1, <2>2, <2>3
<1>10. CASE WorkerCommit(w) /\ worker'[w] # Idle
  <2>1. CommitClaim(w) /\ worker'[w] = [worker[w] EXCEPT !.pc = "scanning"]
    BY <1>10, CommitTypes
  <2>2. /\ worker'[w].pc = "scanning" /\ worker'[w].job = worker[w].job
        /\ worker'[w].new = worker[w].new /\ worker'[w].looked = worker[w].looked
        /\ worker'[w].shown = worker[w].shown
    BY <1>1, <2>1 DEF Worker
  <2>3. worker[w].pc = "claiming"
    BY <2>1 DEF CommitClaim, At
  <2>. QED BY <1>1, <2>2, <2>3 DEF Backed
<1>. QED BY <1>5, <1>6, <1>7, <1>8, <1>9, <1>10, PrivateShape

(* Findings and evidence only grow, by the completion of a scan. *)
LEMMA RowsGrow ==
  ASSUME TypeOK, [Next]_vars
  PROVE  \/ UNCHANGED <<findings, evidence>>
         \/ \E w \in Workers : /\ Complete(w)
                               /\ findings' = findings \cup worker[w].new
                               /\ evidence' = evidence \cup worker[w].shown
<1>1. ASSUME NEW w \in Workers, Private(w) PROVE UNCHANGED <<findings, evidence>>
  BY <1>1, PrivateShape
<1>2. ASSUME NEW w \in Workers, WorkerCommit(w), ~Complete(w) PROVE UNCHANGED <<findings, evidence>>
  BY <1>2 DEF WorkerCommit, CommitReject, CommitClaim, CommitFailure
<1>3. ASSUME NEW c \in Clients, Asked(c) \/ ClientCommit(c) \/ Rollback(c)
      PROVE  UNCHANGED <<findings, evidence>>
  BY <1>3, AskedShape DEF ClientCommit, CommitEnqueue, CommitUpdate, CommitDelete, Rollback
<1>4. CASE UNCHANGED vars
  BY <1>4 DEF vars
<1>5. ASSUME NEW w \in Workers, Complete(w)
      PROVE  findings' = findings \cup worker[w].new /\ evidence' = evidence \cup worker[w].shown
  BY <1>5 DEF Complete
<1>. QED BY <1>1, <1>2, <1>3, <1>4, <1>5, Kinds

LEMMA BackedStep == ASSUME TypeOK, BackedInv, [Next]_vars PROVE BackedInv'
<1>1. ASSUME NEW w \in Workers PROVE Backed(w)'
  <2>1. CASE Private(w) \/ WorkerCommit(w)
    BY <2>1, BackedOwnStep
  <2>2. CASE ~(Private(w) \/ WorkerCommit(w))
    <3>1. worker'[w] = worker[w]
      BY <2>2, MovesItself
    <3>2. findings \subseteq findings'
      BY RowsGrow
    <3>3. Backed(w)
      BY DEF BackedInv
    <3>. QED BY <3>1, <3>2, <3>3 DEF Backed, JobOf
  <2>. QED BY <2>1, <2>2
<1>2. EvidenceBacked'
  <2>1. CASE UNCHANGED <<findings, evidence>>
    BY <2>1 DEF EvidenceBacked, BackedInv
  <2>2. ASSUME NEW w \in Workers, findings' = findings \cup worker[w].new,
               evidence' = evidence \cup worker[w].shown
        PROVE  EvidenceBacked'
    <3>1. Backed(w) /\ EvidenceBacked
      BY DEF BackedInv
    <3>. QED BY <2>2, <3>1 DEF Backed, EvidenceBacked
  <2>. QED BY <2>1, <2>2, RowsGrow
<1>. QED BY <1>1, <1>2 DEF BackedInv

LEMMA BackedInit == Init => BackedInv
  BY DEF Init, BackedInv, EvidenceBacked, Backed, Idle

(* No crash and no failure leaves a finding without evidence, or evidence of nothing
   (docs/02-MODELO-DOMINIO.md; worker/cli.py, _persist_observation). *)
THEOREM FindingsHaveEvidence == Spec => []EvidenceBacked
<1>1. BackedInv => EvidenceBacked
  BY DEF BackedInv
<1>. QED BY <1>1, BackedInit, BackedStep, TypeCorrect, PTL DEF Spec
-----------------------------------------------------------------------------
(* The refinement of JobLifecycle.  Every step of the queue is one step of a job's life,
   or none that the promise tells apart. *)
LEMMA StatusBecomes ==
  ASSUME TypeOK, NEW j \in Jobs, jobs' \in [Jobs -> Job],
         \A i \in Jobs \ {j} : jobs'[i] = jobs[i]
  PROVE  [i \in Jobs |-> jobs'[i].status]
            = [[i \in Jobs |-> jobs[i].status] EXCEPT ![j] = jobs'[j].status]
  BY DEF TypeOK

LEMMA LifecycleStep ==
  ASSUME TypeOK, AgreeInv, BackedInv, [Next]_vars
  PROVE  [Lifecycle!Next]_(Lifecycle!vars)
<1>1. ASSUME NEW w \in Workers, WorkerCommit(w) PROVE Lifecycle!Next
  <2>. DEFINE j == JobOf(w)
  <2>1. /\ j \in Jobs
        /\ [i \in Jobs |-> jobs'[i].status]
              = [[i \in Jobs |-> jobs[i].status] EXCEPT ![j] = jobs'[j].status]
    BY ZenonT(40), <1>1, CommitTypes, StatusBecomes
  <2>2. CASE Complete(w)
    <3>1. jobs[j].status = "RUNNING" /\ jobs'[j].status = "COMPLETED"
      BY <1>1, <2>2, CommitShape DEF CommitClaim, CommitReject, CommitFailure, Complete, At
    <3>2. evidence' = evidence \cup worker[w].shown /\ \A e \in worker[w].shown : e.job = j
      BY <2>2 DEF Complete, BackedInv, Backed
    <3>3. {e.job : e \in evidence'} \in {{e.job : e \in evidence}, {e.job : e \in evidence} \cup {j}}
      BY <3>2
    <3>. QED BY <2>1, <3>1, <3>3 DEF Lifecycle!Next, Lifecycle!Complete, Lifecycle!Becomes
  <2>3. CASE ~Complete(w)
    <3>1. evidence' = evidence
      BY <1>1, <2>3 DEF WorkerCommit, CommitReject, CommitClaim, CommitFailure
    <3>2. \/ jobs[j].status = "PENDING" /\ jobs'[j].status \in {"RUNNING", "REJECTED"}
          \/ jobs[j].status = "RUNNING" /\ jobs'[j].status = "FAILED"
      BY <1>1, <2>3, CommitShape
    <3>. QED BY <2>1, <3>1, <3>2 DEF Lifecycle!Next, Lifecycle!Start, Lifecycle!Reject, Lifecycle!Fail, Lifecycle!Becomes
  <2>. QED BY <2>2, <2>3
<1>2. ASSUME NEW c \in Clients, NEW j \in Jobs, CommitEnqueue(c, j) PROVE Lifecycle!Next
  <2>1. jobs[j].status = "ABSENT" /\ jobs'[j].status = "PENDING" /\ evidence' = evidence
    BY <1>2, EnqueueType DEF CommitEnqueue
  <2>2. [i \in Jobs |-> jobs'[i].status]
           = [[i \in Jobs |-> jobs[i].status] EXCEPT ![j] = jobs'[j].status]
    BY <1>2, EnqueueType, StatusBecomes
  <2>. QED BY <2>1, <2>2 DEF Lifecycle!Next, Lifecycle!Submit, Lifecycle!Becomes
<1>3. ASSUME jobs' = jobs, evidence' = evidence PROVE UNCHANGED Lifecycle!vars
  BY <1>3 DEF Lifecycle!vars
<1>4. ASSUME NEW w \in Workers, Private(w) PROVE jobs' = jobs /\ evidence' = evidence
  BY <1>4, PrivateShape
<1>5. ASSUME NEW c \in Clients, Asked(c) \/ CommitUpdate(c) \/ CommitDelete(c) \/ Rollback(c)
      PROVE  jobs' = jobs /\ evidence' = evidence
  BY <1>5, AskedShape DEF CommitUpdate, CommitDelete, Rollback
<1>6. CASE UNCHANGED vars
  BY <1>3, <1>6 DEF vars
<1>. QED BY <1>1, <1>2, <1>3, <1>4, <1>5, <1>6, Kinds DEF ClientCommit

(* The queue keeps what it promises of each job: it runs once, its outcome is final, and
   its evidence appears with its completion (worker/cli.py, run_once). *)
THEOREM LifecycleImplemented == ASSUME Orderly PROVE Spec => ImplementsLifecycle
<1>1. Init => Lifecycle!Init
  BY DEF Init, Lifecycle!Init
<1>2. TypeOK /\ AgreeInv /\ [Next]_vars => AgreeInv'
  BY AgreeStep
<1>3. TypeOK /\ AgreeInv /\ BackedInv /\ [Next]_vars => [Lifecycle!Next]_(Lifecycle!vars)
  BY LifecycleStep
<1>. QED BY <1>1, <1>2, <1>3, AgreeInit, BackedInit, BackedStep, TypeCorrect, PTL
         DEF Spec, ImplementsLifecycle, Lifecycle!Spec
-----------------------------------------------------------------------------
(* What holds when the API handles one request at a time: nothing comes between the reads
   of a request and its commit. *)
IsActive(j) == jobs[j].status \in {"PENDING", "RUNNING"}

Single == \A i, j \in Jobs : IsActive(i) /\ IsActive(j) /\ jobs[i].target = jobs[j].target => i = j

LEMMA SingleStep == ASSUME OneClient, TypeOK, AgreeInv, Single, [Next]_vars PROVE Single'
<1>1. ASSUME NEW w \in Workers, Private(w) \/ WorkerCommit(w) PROVE Single'
  <2>1. ASSUME NEW i \in Jobs, IsActive(i)' PROVE IsActive(i) /\ jobs'[i].target = jobs[i].target
    <3>. DEFINE t == jobs[i].target
    <3>1. t \in Targets
      BY DEF TypeOK, Job
    <3>2. jobs'[i].target = t /\ Active(t)' \subseteq Active(t)
      BY <1>1, <3>1, WorkersActivateNone
    <3>. QED BY <2>1, <3>2 DEF IsActive, Active, JobsOf
  <2>. QED BY <2>1 DEF Single
<1>2. ASSUME NEW c \in Clients, NEW j \in Jobs, CommitEnqueue(c, j) PROVE Single'
  <2>1. Active(client[c].target) = {}
    BY <1>2 DEF CommitEnqueue, AgreeInv, Reserved
  <2>2. \A i \in Jobs : IsActive(i) => jobs[i].target # client[c].target
    BY <2>1 DEF IsActive, Active, JobsOf
  <2>3. jobs'[j].target = client[c].target /\ \A i \in Jobs \ {j} : jobs'[i] = jobs[i]
    BY <1>2, EnqueueType
  <2>. QED BY <2>2, <2>3 DEF Single, IsActive
<1>3. ASSUME jobs' = jobs PROVE Single'
  BY <1>3 DEF Single, IsActive
<1>4. ASSUME NEW c \in Clients, Asked(c) \/ CommitUpdate(c) \/ CommitDelete(c) \/ Rollback(c)
      PROVE  jobs' = jobs
  BY <1>4, AskedShape DEF CommitUpdate, CommitDelete, Rollback
<1>5. CASE UNCHANGED vars
  BY <1>3, <1>5 DEF vars
<1>. QED BY <1>1, <1>2, <1>3, <1>4, <1>5, Kinds DEF ClientCommit

(* enqueue_passive_scan: a target has at most one job pending or running. *)
THEOREM OneActive == ASSUME OneClient PROVE Spec => []OneActivePerTarget
<1>1. Init => Single
  BY DEF Init, Single, IsActive
<1>2. Single => OneActivePerTarget
  <2>. SUFFICES ASSUME Single, NEW t \in Targets PROVE Cardinality(Active(t)) <= 1
    BY DEF OneActivePerTarget
  <2>1. CASE Active(t) = {}
    BY <2>1, FS_EmptySet
  <2>2. ASSUME NEW j \in Active(t) PROVE Cardinality(Active(t)) <= 1
    <3>1. Active(t) = {j}
      BY <2>2 DEF Single, Active, JobsOf, IsActive
    <3>. QED BY SMTT(30), <3>1, FS_Singleton
  <2>. QED BY <2>1, <2>2
<1>3. TypeOK /\ AgreeInv /\ [Next]_vars => AgreeInv'
  BY AgreeStep DEF Orderly
<1>4. TypeOK /\ AgreeInv /\ Single /\ [Next]_vars => Single'
  BY SingleStep
<1>. QED BY <1>1, <1>2, <1>3, <1>4, AgreeInit, TypeCorrect, PTL DEF Spec

LEMMA SnapshotStep ==
  ASSUME OneClient, TypeOK, AgreeInv, SnapshotIsCurrent, [Next]_vars
  PROVE  SnapshotIsCurrent'
<1>1. ASSUME NEW w \in Workers, Private(w) \/ WorkerCommit(w) PROVE SnapshotIsCurrent'
  <2>1. /\ targets' = targets
        /\ \A i \in Jobs : jobs'[i].target = jobs[i].target /\ jobs'[i].origin = jobs[i].origin
        /\ \A i \in Jobs : jobs'[i].status = "ABSENT" <=> jobs[i].status = "ABSENT"
    BY <1>1, QueueAssumption, WorkersActivateNone
  <2>. QED BY <2>1 DEF SnapshotIsCurrent
<1>2. ASSUME NEW c \in Clients, NEW j \in Jobs, CommitEnqueue(c, j) PROVE SnapshotIsCurrent'
  <2>1. targets' = targets /\ client[c].url = targets[client[c].target]
    BY <1>2 DEF CommitEnqueue, AgreeInv, Reserved
  <2>2. /\ jobs'[j].target = client[c].target /\ jobs'[j].origin = client[c].url
        /\ \A i \in Jobs \ {j} : jobs'[i] = jobs[i]
    BY <1>2, EnqueueType
  <2>. QED BY <2>1, <2>2 DEF SnapshotIsCurrent
<1>3. ASSUME NEW c \in Clients, CommitUpdate(c) \/ CommitDelete(c) PROVE SnapshotIsCurrent'
  <2>1. JobsOf(client[c].target) = {} /\ jobs' = jobs
    BY <1>3 DEF CommitUpdate, CommitDelete, AgreeInv, Reserved
  <2>2. \A t \in Targets \ {client[c].target} : targets'[t] = targets[t]
    BY <1>3 DEF CommitUpdate, CommitDelete, TypeOK
  <2>3. \A i \in Jobs : jobs[i].status # "ABSENT" => jobs[i].target \in Targets \ {client[c].target}
    BY <2>1 DEF JobsOf, TypeOK, Job
  <2>. QED BY <2>1, <2>2, <2>3 DEF SnapshotIsCurrent
<1>4. ASSUME targets' = targets, jobs' = jobs PROVE SnapshotIsCurrent'
  BY <1>4 DEF SnapshotIsCurrent
<1>5. ASSUME NEW c \in Clients, Asked(c) \/ Rollback(c) PROVE targets' = targets /\ jobs' = jobs
  BY <1>5, AskedShape DEF Rollback
<1>6. CASE UNCHANGED vars
  BY <1>4, <1>6 DEF vars
<1>. QED BY <1>1, <1>2, <1>3, <1>4, <1>5, <1>6, Kinds DEF ClientCommit

(* update_target, delete_target: the address in the policy snapshot of a job is still the
   address of its target. *)
THEOREM SnapshotsCurrent == ASSUME OneClient PROVE Spec => []SnapshotIsCurrent
<1>1. Init => SnapshotIsCurrent
  BY DEF Init, SnapshotIsCurrent
<1>2. TypeOK /\ AgreeInv /\ [Next]_vars => AgreeInv'
  BY AgreeStep DEF Orderly
<1>3. TypeOK /\ AgreeInv /\ SnapshotIsCurrent /\ [Next]_vars => SnapshotIsCurrent'
  BY SnapshotStep
<1>. QED BY <1>1, <1>2, <1>3, AgreeInit, TypeCorrect, PTL DEF Spec

(* What a scan holds is about its target, and no title is twice among it and the rows that
   are committed; two scans under way are of different targets. *)
Distinct(rows) == \A f, g \in rows : f.target = g.target /\ f.title = g.title => f = g

Deduped(w) ==
    worker[w].pc = "scanning" =>
        /\ \A f \in worker[w].new \cup worker[w].looked : f.target = TargetOf(w)
        /\ Distinct(findings \cup worker[w].new \cup worker[w].looked)

DedupInv == FindingsDeduplicated /\ \A w \in Workers : Deduped(w)

LEMMA DedupOwnStep ==
  ASSUME TypeOK, AgreeInv, BackedInv, DedupInv, NEW w \in Workers, Private(w) \/ WorkerCommit(w)
  PROVE  Deduped(w)'
<1>1. worker[w] \in Worker /\ Deduped(w) /\ Distinct(findings) /\ Backed(w)
  BY DEF TypeOK, DedupInv, BackedInv, FindingsDeduplicated, Distinct
<1>2. CASE worker'[w].pc # "scanning"
  BY <1>2 DEF Deduped
<1>3. CASE Private(w) /\ Looks(w)
  <2>1. findings' = findings /\ jobs' = jobs
    BY <1>3, PrivateShape
  <2>2. PICK title \in Titles, f \in Finding :
          /\ worker'[w] = [worker[w] EXCEPT !.looked = {f}]
          /\ f.target = TargetOf(w) /\ f.title = title
          /\ \/ f \in Matching(w, title)
             \/ Matching(w, title) = {} /\ f.first = JobOf(w)
    BY <1>3 DEF Looks
  <2>3. /\ worker[w].pc = "scanning" /\ worker'[w].looked = {f} /\ worker'[w].job = worker[w].job
        /\ worker'[w].new = worker[w].new
    BY <1>1, <1>3, <2>2 DEF Worker, Looks
  <2>4. Distinct(findings \cup worker[w].new)
    BY <1>1, <2>3 DEF Deduped, Distinct
  <2>5. Distinct(findings \cup worker[w].new \cup {f})
    BY <2>2, <2>4 DEF Distinct, Matching
  <2>6. TargetOf(w)' = TargetOf(w)
    BY <2>1, <2>3 DEF TargetOf, JobOf
  <2>. QED BY <1>1, <2>1, <2>2, <2>3, <2>5, <2>6 DEF Deduped
<1>4. CASE Private(w) /\ Writes(w)
  <2>1. findings' = findings /\ jobs' = jobs
    BY <1>4, PrivateShape
  <2>2. /\ worker[w].pc = "scanning" /\ worker'[w].looked = {} /\ worker'[w].job = worker[w].job
        /\ worker'[w].new \subseteq worker[w].new \cup worker[w].looked
    BY <1>1, <1>4 DEF Worker, Writes
  <2>3. TargetOf(w)' = TargetOf(w)
    BY <2>1, <2>2 DEF TargetOf, JobOf
  <2>. QED BY <1>1, <2>1, <2>2, <2>3 DEF Deduped, Distinct
<1>5. CASE WorkerCommit(w) /\ worker'[w] # Idle
  <2>1. CommitClaim(w) /\ worker'[w] = [worker[w] EXCEPT !.pc = "scanning"] /\ findings' = findings
    BY <1>5, CommitTypes DEF CommitClaim
  <2>2. worker'[w].new = {} /\ worker'[w].looked = {}
    BY <1>1, <2>1 DEF Worker, CommitClaim, At, Backed
  <2>. QED BY <1>1, <2>1, <2>2 DEF Deduped, Distinct
<1>6. CASE Start(w) \/ Leaves(w) \/ worker'[w] = Idle
  <2>1. worker'[w].pc # "scanning"
    <3>1. CASE Start(w)
      BY <3>1 DEF Start, Idle
    <3>2. CASE worker'[w] \in {Idle, Dead}
      BY <3>2, IdleType
    <3>3. CASE Leaves(w) /\ worker[w].pc = "selected"
      BY <1>1, <3>3, IdleType DEF Leaves, Worker
    <3>4. CASE Leaves(w) /\ worker[w].pc # "selected"
      BY <3>4, IdleType DEF Leaves, Idle
    <3>. QED BY <1>6, <3>1, <3>2, <3>3, <3>4
  <2>. QED BY <1>2, <2>1
<1>. QED BY <1>3, <1>4, <1>5, <1>6, PrivateShape

LEMMA DedupStep ==
  ASSUME OneClient, TypeOK, AgreeInv, BackedInv, Single, DedupInv, [Next]_vars
  PROVE  DedupInv'
<1>1. ASSUME NEW v \in Workers, NEW w \in Workers, v # w, worker[v].pc = "scanning",
             worker[w].pc = "scanning"
      PROVE  TargetOf(v) # TargetOf(w)
  <2>1. JobOf(v) \in Jobs /\ JobOf(w) \in Jobs /\ Owned(v) /\ Owned(w)
    BY <1>1 DEF TypeOK, AgreeInv
  <2>2. JobOf(v) # JobOf(w) /\ IsActive(JobOf(v)) /\ IsActive(JobOf(w))
    BY <1>1, <2>1 DEF Owned, IsActive
  <2>. QED BY <2>1, <2>2 DEF Single, TargetOf
<1>2. ASSUME NEW w \in Workers PROVE Deduped(w)'
  <2>1. CASE Private(w) \/ WorkerCommit(w)
    BY <2>1, DedupOwnStep
  <2>2. ASSUME ~(Private(w) \/ WorkerCommit(w)), worker[w].pc = "scanning" PROVE Deduped(w)'
    <3>1. JobOf(w) \in Jobs /\ jobs[JobOf(w)].status # "ABSENT" /\ Deduped(w)
      BY <2>2 DEF TypeOK, AgreeInv, Owned, DedupInv
    <3>2. worker'[w] = worker[w] /\ TargetOf(w)' = TargetOf(w)
      <4>1. worker'[w] = worker[w]
        BY <2>2, MovesItself
      <4>. QED BY <3>1, <4>1, StaysEnqueued DEF TargetOf, JobOf
    <3>3. CASE UNCHANGED <<findings, evidence>>
      BY <3>1, <3>2, <3>3 DEF Deduped, Distinct
    <3>4. ASSUME NEW v \in Workers, Complete(v), findings' = findings \cup worker[v].new
          PROVE  Deduped(w)'
      <4>1. v # w /\ worker[v].pc = "scanning" /\ Deduped(v)
        BY <2>2, <3>4 DEF WorkerCommit, Complete, At, DedupInv
      <4>2. TargetOf(v) # TargetOf(w)
        BY <1>1, <2>2, <4>1
      <4>. DEFINE mine == worker[w].new \cup worker[w].looked
      <4>3. Distinct(findings \cup worker[v].new) /\ Distinct(findings \cup mine)
        BY <2>2, <3>1, <4>1 DEF Deduped, Distinct
      <4>4. \A f \in worker[v].new, g \in mine : f.target # g.target
        BY <2>2, <3>1, <4>1, <4>2 DEF Deduped
      <4>5. Distinct(findings \cup worker[v].new \cup mine)
        <5>. HIDE DEF mine
        <5>. QED BY <4>3, <4>4 DEF Distinct
      <4>6. \A f \in mine : f.target = TargetOf(w)
        BY <2>2, <3>1 DEF Deduped
      <4>7. findings' \cup worker'[w].new \cup worker'[w].looked = findings \cup worker[v].new \cup mine
        BY <3>2, <3>4
      <4>. QED BY <3>2, <4>5, <4>6, <4>7 DEF Deduped
    <3>. QED BY <3>3, <3>4, RowsGrow
  <2>3. ASSUME ~(Private(w) \/ WorkerCommit(w)), worker[w].pc # "scanning" PROVE Deduped(w)'
    <3>1. worker'[w] = worker[w]
      BY <2>3, MovesItself
    <3>. QED BY <2>3, <3>1 DEF Deduped
  <2>. QED BY <2>1, <2>2, <2>3
<1>3. FindingsDeduplicated'
  <2>1. CASE UNCHANGED <<findings, evidence>>
    BY <2>1 DEF FindingsDeduplicated, DedupInv
  <2>2. ASSUME NEW v \in Workers, Complete(v), findings' = findings \cup worker[v].new
        PROVE  FindingsDeduplicated'
    <3>1. Distinct(findings \cup worker[v].new)
      BY <2>2 DEF Complete, At, DedupInv, Deduped, Distinct
    <3>. QED BY <2>2, <3>1 DEF FindingsDeduplicated, Distinct
  <2>. QED BY <2>1, <2>2, RowsGrow
<1>. QED BY <1>2, <1>3 DEF DedupInv

(* A title is one finding of its target, whatever scans and workers observe it
   (worker/cli.py, _persist_observation: a row is looked up before it is inserted). *)
THEOREM FindingsDistinct == ASSUME OneClient PROVE Spec => []FindingsDeduplicated
<1>1. Init => Single /\ DedupInv
  BY DEF Init, Single, IsActive, DedupInv, FindingsDeduplicated, Deduped, Idle
<1>2. DedupInv => FindingsDeduplicated
  BY DEF DedupInv
<1>3. TypeOK /\ AgreeInv /\ [Next]_vars => AgreeInv'
  BY AgreeStep DEF Orderly
<1>4. TypeOK /\ AgreeInv /\ Single /\ [Next]_vars => Single'
  BY SingleStep
<1>5. TypeOK /\ AgreeInv /\ BackedInv /\ Single /\ DedupInv /\ [Next]_vars => DedupInv'
  BY DedupStep
<1>. QED BY <1>1, <1>2, <1>3, <1>4, <1>5, AgreeInit, BackedInit, BackedStep, TypeCorrect, PTL DEF Spec
=============================================================================
