----------------------------- MODULE JobLifecycle -----------------------------
(***************************************************************************)
(* What the queue promises of each scan job, without workers, database     *)
(* transactions or clients: "a request and an immutable execution of an    *)
(* assessment" (docs/02-MODELO-DOMINIO.md).  A job is executed at most     *)
(* once, what became of it never changes, and the evidence of a scan is    *)
(* visible exactly from the moment the job is completed.                   *)
(***************************************************************************)
CONSTANT Jobs

VARIABLES
    status,     \* of each job
    published   \* the jobs with evidence in the database

vars == <<status, published>>

Init ==
    /\ status = [j \in Jobs |-> "ABSENT"]
    /\ published = {}

Becomes(j, from, to) == status[j] = from /\ status' = [status EXCEPT ![j] = to]

Submit(j) == Becomes(j, "ABSENT", "PENDING")  /\ UNCHANGED published
Reject(j) == Becomes(j, "PENDING", "REJECTED") /\ UNCHANGED published
Start(j)  == Becomes(j, "PENDING", "RUNNING") /\ UNCHANGED published
Fail(j)   == Becomes(j, "RUNNING", "FAILED")  /\ UNCHANGED published

(* A scan may complete without any observation. *)
Complete(j) ==
    /\ Becomes(j, "RUNNING", "COMPLETED")
    /\ published' \in {published, published \cup {j}}

Next == \E j \in Jobs : Submit(j) \/ Reject(j) \/ Start(j) \/ Fail(j) \/ Complete(j)

Spec == Init /\ [][Next]_vars
=============================================================================
