---------------------------- MODULE MutationRecovery ----------------------------
(***************************************************************************)
(* The life of a restorable write: MutationPlan journals the restoration,  *)
(* registers the address in the run's ResourceLedger and only then writes; *)
(* cleanup() restores at the end; replay_restore_journal, run by a worker  *)
(* before it accepts a job, restores whatever a failure or a crash left.   *)
(*                                                                         *)
(* Coroutines of one run interleave at every await, so a request is three  *)
(* steps: it is sent, the target serves it (perhaps behind a redirect),    *)
(* and the caller gets the answer or gives up.                             *)
(***************************************************************************)
EXTENDS RestoreJournal

CONSTANTS
    LateDelivery,     \* which writes the target may serve after their sender gave up or died
    EarlyRedirects,   \* may the target redirect a write it has not carried out?
    SharedUrls,       \* may the scanner mutate a URL that has an open action?
    VerbLists, Scopes, ContentLists, PathLists   \* what the policies of runs are made of

ASSUME EnvironmentAssumption ==
    /\ LateDelivery \subseteq {"mutate", "restore"}
    /\ EarlyRedirects \in BOOLEAN
    /\ SharedUrls \in BOOLEAN
    /\ VerbLists \subseteq SUBSET WriteVerbs
    /\ Scopes \subseteq SUBSET Places
    /\ ContentLists \subseteq SUBSET Contents
    /\ PathLists \subseteq SUBSET Places

(* The policies ScanPolicyEngine.freeze() can hand to a run. *)
FrozenPolicies == [verbs : VerbLists, scope : Scopes, contents : ContentLists, paths : PathLists]

VARIABLES
    journal,   \* [Actions -> Entry]: the files of the journal directory
    target,    \* [Urls -> Values]: what the audited site holds
    applied,   \* [Actions -> Nat]: how often the write of an action took effect
    calls,     \* requests a live process awaits
    late,      \* writes still on their way whose sender no longer waits
    phase,     \* [Workers -> {"idle", "recover", "run"}]
    todo,      \* [Workers -> SUBSET Actions]: the list pending() returned, not yet replayed
    gate,      \* [Workers -> Gate]: the policy and ResourceLedger of the current run's gate
    pc         \* [Actions -> PlanState]: the coroutine of MutationPlan for an action

vars == <<journal, target, applied, calls, late, phase, todo, gate, pc>>

PlanState == {"none", "journaled", "mutating", "mutated", "cleaning", "done"}
Call == [act : Actions, what : {"mutate", "restore"}, by : Workers,
         method : {"WRITE", "GET"}, st : {"sent", "ok", "not_found", "error"}]
Gate == [policy : Policy, owns : SUBSET Urls, snaps : SUBSET Urls]

GateOf(policy) == [policy |-> policy, owns |-> {}, snaps |-> {}]
NoGate == GateOf(NoPolicy)
Baseline(u) == IF u \in ExistingUrls THEN Original ELSE NoResource

Init ==
    /\ journal = [a \in Actions |-> NoEntry]
    /\ target = [u \in Urls |-> Baseline(u)]
    /\ applied = [a \in Actions |-> 0]
    /\ calls = {}
    /\ late = {}
    /\ phase = [w \in Workers |-> "idle"]
    /\ todo = [w \in Workers |-> {}]
    /\ gate = [w \in Workers |-> NoGate]
    /\ pc = [a \in Actions |-> "none"]

-----------------------------------------------------------------------------
(* RequestGate.evaluate for a write.  First what only depends on the frozen policy: origin,
   exclusions, verb, content type, payload and allow_mutations. *)
Allows(policy, r) ==
    r.url \in policy.scope /\ r.verb \in policy.verbs /\ r.content \in policy.contents

(* Then the ledger's rules: DELETE only for what the scan created; another write for that,
   or in allow_write_paths and, if it changes what exists, after a snapshot. *)
Accounted(g, r) ==
    \/ r.url \in g.owns
    \/ /\ r.verb # "DELETE" /\ r.url \in g.policy.paths
       /\ r.verb \in {"PUT", "PATCH"} => r.url \in g.snaps

(* What else the gate and the transport may refuse for, the kill switch, the budget, the
   window or the address check, is the free choice "denied" of the actions below. *)
Permits(g, r) == Allows(g.policy, r) /\ Accounted(g, r)

Undo(a) == [verb |-> journal[a].verb, url |-> journal[a].url, content |-> journal[a].content]

(* Mutant: the replay takes every action for a snapshot. *)
ReplayGateOfSnapshot(a) == [policy |-> journal[a].policy, owns |-> {}, snaps |-> {journal[a].url}]

(* recover_pending_journal gives each replayed action a gate of its own. *)
ReplayGate(a) ==
    [policy |-> journal[a].policy,
     owns |-> IF journal[a].kind = "DELETE_CREATED" THEN {journal[a].url} ELSE {},
     snaps |-> IF journal[a].kind = "DELETE_CREATED" THEN {} ELSE {journal[a].url}]

(* Mutant: a 307/308 that replays the write. *)
RedirectKeepingMethod(method) == method

(* _redirect_descriptor: whatever was redirected is fetched with GET, without a body. *)
RedirectMethod(method) == "GET"

NewCall(a, what, w) ==
    [act |-> a, what |-> what, by |-> w, method |-> "WRITE", st |-> "sent"]

(* The value a write leaves at its URL. *)
Written(a, what) == IF what = "mutate" THEN a ELSE journal[a].restore

(* Mutant: any answer of the target counts as success. *)
AnyAnswerSucceeds(c) == c.st # "sent"

(* The success test of cleanup() and of the replay loop. *)
RestoreSucceeded(c) ==
    \/ c.st = "ok"
    \/ c.st = "not_found" /\ journal[c.act].kind = "DELETE_CREATED"

Marked(c) == IF RestoreSucceeded(c) THEN MarkCompleted(journal, c.act)
                                    ELSE MarkFailed(journal, c.act)

(* Writes that are still travelling when their sender stops waiting for them. *)
Orphans(cs) ==
    {[act |-> c.act, what |-> c.what] :
         c \in {d \in cs : d.st = "sent" /\ d.method = "WRITE" /\ d.what \in LateDelivery}}

CallsOf(w) == {c \in calls : c.by = w}

-----------------------------------------------------------------------------
(* MutationPlan *)

(* The scanner that drives a plan mutates one URL at a time unless SharedUrls. *)
MayMutate(w, a, u) ==
    /\ phase[w] = "run"
    /\ journal[a].status = "ABSENT"
    /\ SharedUrls \/ \A b \in Unresolved(journal) : journal[b].url # u

(* Mutant: the canary is registered in memory only. *)
CreateWithoutJournal(w, a, r) ==
    /\ MayMutate(w, a, r.url)
    /\ r.url \in CreatedUrls /\ r.verb = "DELETE"
    /\ gate' = [gate EXCEPT ![w].owns = @ \cup {r.url}]
    /\ pc' = [pc EXCEPT ![a] = "journaled"]
    /\ UNCHANGED <<journal, target, applied, calls, late, phase, todo>>

(* The policy_snapshot a plan journals is the one its gate was made from. *)
CreateCanary(w, a, r) ==
    /\ MayMutate(w, a, r.url)
    /\ r.url \in CreatedUrls /\ r.verb = "DELETE"
    /\ journal' = AppendAction(journal, a, "DELETE_CREATED", r, NoResource, w, gate[w].policy)
    /\ gate' = [gate EXCEPT ![w].owns = @ \cup {r.url}]
    /\ pc' = [pc EXCEPT ![a] = "journaled"]
    /\ UNCHANGED <<target, applied, calls, late, phase, todo>>

(* The caller passes as restore body what it has just read from the target. *)
ModifyWithSnapshot(w, a, r) ==
    /\ MayMutate(w, a, r.url)
    /\ r.url \in ExistingUrls /\ r.verb \in {"PUT", "PATCH"}
    /\ journal' = AppendAction(journal, a, "RESTORE_SNAPSHOT", r, target[r.url], w, gate[w].policy)
    /\ gate' = [gate EXCEPT ![w].snaps = @ \cup {r.url}]
    /\ pc' = [pc EXCEPT ![a] = "journaled"]
    /\ UNCHANGED <<target, applied, calls, late, phase, todo>>

(* The writes a plan may send for an action: a canary is posted anywhere on its origin, a
   resource is changed at the address that is restored, perhaps with another verb. *)
Mutations(a) ==
    IF journal[a].kind = "DELETE_CREATED"
    THEN [verb : {"POST"}, url : Places, content : Contents]
    ELSE [verb : {"PUT", "PATCH"}, url : {journal[a].url}, content : Contents]

(* A mutation the gate refuses raises before the caller gets a MutationResult: only
   the replay can resolve its action. *)
SendMutation(a) ==
    /\ pc[a] = "journaled"
    /\ \/ /\ pc' = [pc EXCEPT ![a] = "done"]
          /\ UNCHANGED calls
       \/ /\ \E r \in Mutations(a) : Permits(gate[journal[a].run], r)
          /\ pc' = [pc EXCEPT ![a] = "mutating"]
          /\ calls' = calls \cup {NewCall(a, "mutate", journal[a].run)}
    /\ UNCHANGED <<journal, target, applied, late, phase, todo, gate>>

(* Any status gives a MutationResult; a timeout or a network error raises. *)
EndMutation(c, answered) ==
    /\ c.what = "mutate"
    /\ answered => c.st # "sent"
    /\ pc' = [pc EXCEPT ![c.act] = IF answered THEN "mutated" ELSE "done"]
    /\ calls' = calls \ {c}
    /\ late' = IF answered THEN late ELSE late \cup Orphans({c})
    /\ UNCHANGED <<journal, target, applied, phase, todo, gate>>

Cleanup(a) ==
    LET w == journal[a].run IN
    /\ pc[a] = "mutated"
    /\ \/ /\ pc' = [pc EXCEPT ![a] = "done"]              \* denied: PolicyDeny
          /\ journal' = MarkFailed(journal, a)
          /\ UNCHANGED calls
       \/ /\ Permits(gate[w], Undo(a))
          /\ pc' = [pc EXCEPT ![a] = "cleaning"]
          /\ calls' = calls \cup {NewCall(a, "restore", w)}
          /\ UNCHANGED journal
    /\ UNCHANGED <<target, applied, late, phase, todo, gate>>

EndCleanup(c, answered) ==
    /\ c.what = "restore" /\ phase[c.by] = "run"
    /\ answered => c.st # "sent"
    /\ journal' = IF answered THEN Marked(c) ELSE MarkFailed(journal, c.act)
    /\ pc' = [pc EXCEPT ![c.act] = "done"]
    /\ calls' = calls \ {c}
    /\ late' = IF answered THEN late ELSE late \cup Orphans({c})
    /\ UNCHANGED <<target, applied, phase, todo, gate>>

-----------------------------------------------------------------------------
(* The target: serves a request, with or without effect, and answers it.  A 2xx to a
   write means it was carried out; an error may come before or after the effect, and
   a redirect after it (before it too, if EarlyRedirects). *)

Apply(a, what) ==
    /\ target' = [target EXCEPT ![journal[a].url] = Written(a, what)]
    /\ applied' = IF what = "mutate" THEN [applied EXCEPT ![a] = @ + 1] ELSE applied

Answer(c, method, st) == calls' = (calls \ {c}) \cup {[c EXCEPT !.method = method, !.st = st]}

NothingThere(c) == /\ c.what = "restore"
                   /\ journal[c.act].kind = "DELETE_CREATED"
                   /\ target[journal[c.act].url] = NoResource

ServeWrite(c) ==
    /\ c.st = "sent" /\ c.method = "WRITE"
    /\ \/ /\ ~NothingThere(c)
          /\ Apply(c.act, c.what)
          /\ \/ Answer(c, "WRITE", "ok")
             \/ Answer(c, "WRITE", "error")
             \/ Answer(c, RedirectMethod(c.method), "sent")
       \/ /\ \/ NothingThere(c) /\ Answer(c, "WRITE", "not_found")
             \/ Answer(c, "WRITE", "error")
             \/ EarlyRedirects /\ Answer(c, RedirectMethod(c.method), "sent")
          /\ UNCHANGED <<target, applied>>
    /\ UNCHANGED <<journal, late, phase, todo, gate, pc>>

ServeGet(c) ==
    /\ c.st = "sent" /\ c.method = "GET"
    /\ \E st \in {"ok", "not_found", "error"} : Answer(c, "GET", st)
    /\ UNCHANGED <<journal, target, applied, late, phase, todo, gate, pc>>

LateWrite(m) ==
    /\ m \in late
    /\ late' = late \ {m}
    /\ \/ Apply(m.act, m.what)
       \/ UNCHANGED <<target, applied>>
    /\ UNCHANGED <<journal, calls, phase, todo, gate, pc>>

-----------------------------------------------------------------------------
(* The worker: recover_pending_journal, replay_restore_journal, run_once *)

BeginRecovery(w) ==
    /\ phase[w] = "idle"
    /\ phase' = [phase EXCEPT ![w] = "recover"]
    /\ todo' = [todo EXCEPT ![w] = Pending(journal)]
    /\ UNCHANGED <<journal, target, applied, calls, late, gate, pc>>

ReplayNext(w) ==
    /\ phase[w] = "recover" /\ CallsOf(w) = {}
    /\ \E a \in First(todo[w]) :
          \/ /\ journal' = MarkFailed(journal, a)             \* denied: PolicyDeny
             /\ todo' = [todo EXCEPT ![w] = @ \ {a}]
             /\ UNCHANGED calls
          \/ /\ Permits(ReplayGate(a), Undo(a))
             /\ calls' = calls \cup {NewCall(a, "restore", w)}
             /\ UNCHANGED <<journal, todo>>
    /\ UNCHANGED <<target, applied, late, phase, gate, pc>>

(* Mutant: an action that got no answer stays at the head of the list, uncounted. *)
EndReplayStuck(c, answered) ==
    /\ c.what = "restore" /\ phase[c.by] = "recover"
    /\ answered => c.st # "sent"
    /\ journal' = IF answered THEN Marked(c) ELSE journal
    /\ todo' = IF answered THEN [todo EXCEPT ![c.by] = @ \ {c.act}] ELSE todo
    /\ calls' = calls \ {c}
    /\ late' = IF answered THEN late ELSE late \cup Orphans({c})
    /\ UNCHANGED <<target, applied, phase, gate, pc>>

EndReplay(c, answered) ==
    /\ c.what = "restore" /\ phase[c.by] = "recover"
    /\ answered => c.st # "sent"
    /\ journal' = IF answered THEN Marked(c) ELSE MarkFailed(journal, c.act)
    /\ todo' = [todo EXCEPT ![c.by] = @ \ {c.act}]
    /\ calls' = calls \ {c}
    /\ late' = IF answered THEN late ELSE late \cup Orphans({c})
    /\ UNCHANGED <<target, applied, phase, gate, pc>>

(* Mutant: exhausted actions no longer keep jobs out. *)
EndRecoveryOnPending(w) ==
    /\ phase[w] = "recover" /\ todo[w] = {} /\ CallsOf(w) = {}
    /\ \/ phase' = [phase EXCEPT ![w] = "idle"] /\ UNCHANGED gate
       \/ /\ Pending(journal) = {}
          /\ phase' = [phase EXCEPT ![w] = "run"]
          /\ \E policy \in FrozenPolicies : gate' = [gate EXCEPT ![w] = GateOf(policy)]
    /\ UNCHANGED <<journal, target, applied, calls, late, todo, pc>>

(* Anything unresolved, even exhausted, makes run_once raise instead of claiming a job.
   Without it there may still be no job, or the command was "worker recover". *)
EndRecovery(w) ==
    /\ phase[w] = "recover" /\ todo[w] = {} /\ CallsOf(w) = {}
    /\ \/ phase' = [phase EXCEPT ![w] = "idle"] /\ UNCHANGED gate
       \/ /\ Unresolved(journal) = {}
          /\ phase' = [phase EXCEPT ![w] = "run"]
          /\ \E policy \in FrozenPolicies : gate' = [gate EXCEPT ![w] = GateOf(policy)]
    /\ UNCHANGED <<journal, target, applied, calls, late, todo, pc>>

Abandoned(w) == [a \in Actions |->
    IF journal[a].run = w /\ pc[a] # "none" THEN "done" ELSE pc[a]]

(* The run returns; results nobody cleaned up are left to the next recovery. *)
EndRun(w) ==
    /\ phase[w] = "run" /\ CallsOf(w) = {}
    /\ \A a \in Actions : journal[a].run = w => pc[a] # "journaled"
    /\ phase' = [phase EXCEPT ![w] = "idle"]
    /\ gate' = [gate EXCEPT ![w] = NoGate]
    /\ pc' = Abandoned(w)
    /\ UNCHANGED <<journal, target, applied, calls, late, todo>>

Crash(w) ==
    /\ phase[w] # "idle"
    /\ phase' = [phase EXCEPT ![w] = "idle"]
    /\ todo' = [todo EXCEPT ![w] = {}]
    /\ gate' = [gate EXCEPT ![w] = NoGate]
    /\ calls' = calls \ CallsOf(w)
    /\ late' = late \cup Orphans(CallsOf(w))
    /\ pc' = Abandoned(w)
    /\ UNCHANGED <<journal, target, applied>>

-----------------------------------------------------------------------------
Plan(a) == SendMutation(a) \/ Cleanup(a)
           \/ \E w \in Workers, r \in Restorations : CreateCanary(w, a, r) \/ ModifyWithSnapshot(w, a, r)

(* A reply arrives, or the 10 s timeout of the client (or a network error) ends the wait. *)
Return(c) == \E answered \in BOOLEAN :
                 EndMutation(c, answered) \/ EndCleanup(c, answered) \/ EndReplay(c, answered)

Serve(c) == ServeWrite(c) \/ ServeGet(c)

Recover(w) == ReplayNext(w) \/ EndRecovery(w)

Next ==
    \/ \E a \in Actions : Plan(a)
    \/ \E c \in calls : Serve(c) \/ Return(c)
    \/ \E m \in late : LateWrite(m)
    \/ \E w \in Workers : BeginRecovery(w) \/ Recover(w) \/ EndRun(w) \/ Crash(w)

(* A worker that runs keeps running its own steps and a wait ends by its timeout; nothing
   obliges the target to answer, a scanner to act or an operator to start a worker. *)
Fairness == \A w \in Workers :
    /\ WF_vars(Recover(w))
    /\ WF_vars(\E c \in CallsOf(w) : Return(c))

Spec == Init /\ [][Next]_vars
FairSpec == Spec /\ Fairness

-----------------------------------------------------------------------------
TypeOK ==
    /\ journal \in [Actions -> Entry]
    /\ target \in [Urls -> Values]
    /\ applied \in [Actions -> Nat]
    /\ calls \subseteq Call
    /\ late \subseteq [act : Actions, what : {"mutate", "restore"}]
    /\ phase \in [Workers -> {"idle", "recover", "run"}]
    /\ todo \in [Workers -> SUBSET Actions]
    /\ gate \in [Workers -> Gate]
    /\ pc \in [Actions -> PlanState]

Journaled(a) == journal[a].status # "ABSENT"
Dirty == {u \in Urls : target[u] # Baseline(u)}

(* Restoration is on disk before any write it would undo can reach the target, in every
   order of crashes, late deliveries and workers: whatever is on its way has a document,
   and whatever is not as it was before the scans is the address of a document.
   mutations.py:26 "Persist rollback intent first, then let the gated transport write." *)
WriteAhead ==
    /\ \A c \in calls : Journaled(c.act)
    /\ \A m \in late : Journaled(m.act)
    /\ \A u \in Dirty : \E a \in Actions : Journaled(a) /\ journal[a].url = u

(* docs/04-MODO-AGRESSIVO.md:13, resources of a scan are cleaned "com limpeza confirmada":
   a resource that is not as it was before the scans still has an action the next boot
   counts as unresolved, so COMPLETED is never recorded ahead of the restoration. *)
DirtyIsUnresolved ==
    \A u \in Dirty : \E a \in Unresolved(journal) : journal[a].url = u

(* The write of an action takes effect at most once, whatever the redirects, the retries
   of its restoration and the crashes (transport.py:263-264 gives that reason for
   fetching every redirected write with GET). *)
MutationAppliedOnce == \A a \in Actions : applied[a] <= 1

(* The write of an action has passed the gate: its effect is there or may come. *)
WriteSent(a) == \/ pc[a] \in {"mutating", "mutated", "cleaning"}
                \/ applied[a] > 0
                \/ \E m \in late : m.act = a /\ m.what = "mutate"

(* Once a write has passed the gate, the ledger never stands in the way of undoing it: the
   run's own gate while its coroutine can clean up, and the gate a replay builds from the
   journal after any failure or crash (worker/cli.py:56-61), refuse the restoration only
   for what the frozen policy says of its origin, address, verb or content. *)
LedgerAdmitsUndo ==
    \A a \in Actions : WriteSent(a) =>
        /\ Permits(ReplayGate(a), Undo(a)) <=> Allows(journal[a].policy, Undo(a))
        /\ pc[a] \in {"mutating", "mutated"} =>
              (Permits(gate[journal[a].run], Undo(a)) <=> Allows(journal[a].policy, Undo(a)))

(* Not so: that the gate passes no write whose restoration it would refuse.  A policy with
   POST and no DELETE, with PATCH and a restoration by PUT, or that excludes the address of
   the canary, lets the write through and refuses every attempt to undo it; the action then
   stays unresolved and the worker accepts no further job. *)
EveryWriteCanBeUndone ==
    \A a \in Unresolved(journal) : WriteSent(a) => Permits(ReplayGate(a), Undo(a))

(* The inductive strengthening of WriteAhead: coroutines and replay lists, too, only know
   journaled actions.  Documents are never removed and never change their address. *)
WriteAheadInv ==
    /\ \A a \in Actions : pc[a] # "none" => Journaled(a)
    /\ \A w \in Workers : \A a \in todo[w] : Journaled(a)
    /\ WriteAhead

Writing(c) == c.what = "mutate" /\ c.st = "sent" /\ c.method = "WRITE"

(* The inductive strengthening of MutationAppliedOnce: the write of an action is in one
   place at most, still unsent, travelling for its coroutine, or travelling alone, and
   while it is anywhere it has had no effect. *)
AppliedOnceInv ==
    /\ \A a \in Actions : pc[a] \in {"none", "journaled"} =>
          /\ applied[a] = 0
          /\ \A c \in calls : c.act = a => c.what = "restore"
          /\ \A m \in late : m.act = a => m.what = "restore"
    /\ \A c, d \in calls : c.what = "mutate" /\ d.what = "mutate" /\ c.act = d.act => c = d
    /\ \A m \in late : m.what = "mutate" =>
          /\ applied[m.act] = 0
          /\ \A c \in calls : c.act = m.act => c.what = "restore"
    /\ \A c \in calls : Writing(c) => applied[c.act] = 0
    /\ MutationAppliedOnce

Contract == INSTANCE RestoreContract WITH
    Debts <- Actions, Resources <- Urls, Runs <- Workers,
    owed <- {<<a, journal[a].url>> : a \in Unresolved(journal)},
    settled <- {a \in Actions : journal[a].status = "COMPLETED"},
    dirty <- Dirty,
    running <- {w \in Workers : phase[w] = "run"}

(* Journal, plan, target and replay together keep the promise of RestoreContract: debts
   are settled once, only with the resource back as it was, and no run starts before
   all are settled. *)
ImplementsContract == Contract!Spec

(* The replay of a boot ends, with every listed action tried once, although the target
   may never answer and the gate may refuse everything. *)
RecoveryTerminates == \A w \in Workers : phase[w] = "recover" ~> phase[w] # "recover"

(* ledger.py:35 "Cleanup at end -> iterate pending() and DELETE each, confirm removal":
   when every canary of a run has been removed, its ledger has nothing pending.
   mark_cleaned has no caller, so pending() is all the ledger owns. *)
LedgerEmptyAfterCleanup ==
    \A w \in Workers :
        (phase[w] = "run" /\ \A a \in Actions : journal[a].run = w /\ Journaled(a)
                                  => journal[a].status = "COMPLETED")
        => gate[w].owns = {}
=============================================================================
