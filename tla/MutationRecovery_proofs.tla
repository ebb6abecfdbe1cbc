------------------------- MODULE MutationRecovery_proofs -------------------------
(***************************************************************************)
(* Machine-checked safety of MutationRecovery, for any number of actions   *)
(* and attempts.  Types, WriteAhead, MutationAppliedOnce and               *)
(* LedgerAdmitsUndo hold for any number of workers, any policies and every *)
(* LateDelivery, EarlyRedirects and SharedUrls; DirtyIsUnresolved and the  *)
(* refinement of RestoreContract need the hypothesis Careful, without any  *)
(* part of which TLC refutes them.  The theorems about RestoreContract     *)
(* itself, and what the refinement carries over, are at the end.           *)
(***************************************************************************)
EXTENDS MutationRecovery, TLAPS

(* A fresh document is well typed. *)
LEMMA NoEntryType == NoEntry \in Entry
<1>1. (CHOOSE u \in Urls : TRUE) \in Urls /\ (CHOOSE w \in Workers : TRUE) \in Workers
      /\ (CHOOSE c \in Contents : TRUE) \in Contents
  BY JournalAssumption
<1>2. NoPolicy \in Policy /\ "DELETE" \in WriteVerbs
  BY DEF NoPolicy, Policy, WriteVerbs
<1>. QED BY <1>1, <1>2 DEF NoEntry, Entry, Status, Kinds, Values

(* What the methods of the journal do to one document, and to nothing else. *)
LEMMA MarkLemma ==
  ASSUME NEW j \in [Actions -> Entry], NEW a \in Actions
  PROVE  /\ MarkCompleted(j, a) \in [Actions -> Entry]
         /\ MarkFailed(j, a) \in [Actions -> Entry]
         /\ MarkCompleted(j, a)[a].status = "COMPLETED" /\ MarkFailed(j, a)[a].status = "FAILED"
         /\ \A b \in Actions :
              /\ MarkCompleted(j, a)[b].url = j[b].url
              /\ MarkFailed(j, a)[b].url = j[b].url
              /\ MarkCompleted(j, a)[b].run = j[b].run
              /\ MarkFailed(j, a)[b].run = j[b].run
              /\ MarkCompleted(j, a)[b].kind = j[b].kind /\ MarkCompleted(j, a)[b].restore = j[b].restore
              /\ MarkFailed(j, a)[b].kind = j[b].kind /\ MarkFailed(j, a)[b].restore = j[b].restore
              /\ MarkCompleted(j, a)[b].verb = j[b].verb /\ MarkCompleted(j, a)[b].policy = j[b].policy
              /\ MarkFailed(j, a)[b].verb = j[b].verb /\ MarkFailed(j, a)[b].policy = j[b].policy
              /\ b # a => MarkCompleted(j, a)[b] = j[b] /\ MarkFailed(j, a)[b] = j[b]
              /\ j[b].status # "ABSENT" => /\ MarkCompleted(j, a)[b].status # "ABSENT"
                                           /\ MarkFailed(j, a)[b].status # "ABSENT"
<1> DEFINE ca == [j[a] EXCEPT !.status = "COMPLETED"]
           fa == [j[a] EXCEPT !.status = "FAILED", !.attempts = @ + 1]
<1>1. /\ MarkCompleted(j, a) = [j EXCEPT ![a] = ca]
      /\ MarkFailed(j, a) = [j EXCEPT ![a] = fa]
  BY DEF MarkCompleted, MarkFailed
<1>2. j[a] \in Entry
  OBVIOUS
<1>3. /\ ca \in Entry /\ ca.url = j[a].url /\ ca.run = j[a].run /\ ca.status = "COMPLETED"
      /\ ca.kind = j[a].kind /\ ca.restore = j[a].restore
      /\ ca.verb = j[a].verb /\ ca.policy = j[a].policy
  BY <1>2 DEF Entry, Status
<1>4. /\ fa.url = j[a].url /\ fa.run = j[a].run /\ fa.status = "FAILED"
      /\ fa.kind = j[a].kind /\ fa.restore = j[a].restore
      /\ fa.verb = j[a].verb /\ fa.policy = j[a].policy
  BY <1>2 DEF Entry
<1>5. fa \in Entry
  <2>1. j[a].attempts + 1 \in Nat
    BY <1>2 DEF Entry
  <2>2. QED
    BY <1>2, <2>1 DEF Entry, Status
<1> HIDE DEF ca, fa
<1>6. QED
  BY <1>1, <1>3, <1>4, <1>5

LEMMA AppendLemma ==
  ASSUME NEW j \in [Actions -> Entry], NEW a \in Actions, NEW kind \in Kinds, NEW r \in Restorations,
         NEW restore \in Values, NEW w \in Workers, NEW policy \in Policy
  PROVE  LET k == AppendAction(j, a, kind, r, restore, w, policy) IN
         /\ k \in [Actions -> Entry]
         /\ k[a].status # "ABSENT" /\ k[a].status = "PENDING"
         /\ k[a].run = w /\ k[a].policy = policy
         /\ k[a].url = r.url /\ k[a].verb = r.verb
         /\ k[a].kind = kind /\ k[a].restore = restore
         /\ \A b \in Actions \ {a} : k[b] = j[b]
<1> DEFINE e == [status |-> "PENDING", attempts |-> 0, kind |-> kind, verb |-> r.verb,
                 url |-> r.url, content |-> r.content, restore |-> restore,
                 run |-> w, policy |-> policy]
<1>1. AppendAction(j, a, kind, r, restore, w, policy) = [j EXCEPT ![a] = e]
  BY DEF AppendAction
<1>2. /\ e.status = "PENDING" /\ e.run = w /\ e.policy = policy
      /\ e.url = r.url /\ e.verb = r.verb /\ e.kind = kind /\ e.restore = restore
  OBVIOUS
<1>3. r.verb \in WriteVerbs /\ r.url \in Urls /\ r.content \in Contents
  BY DEF Restorations
<1>4. e \in Entry
  BY <1>3 DEF Entry, Status
<1> HIDE DEF e
<1>5. QED
  BY <1>1, <1>2, <1>4

-----------------------------------------------------------------------------
LateMessages == [act : Actions, what : {"mutate", "restore"}]

LEMMA OrphansType ==
  ASSUME NEW cs \in SUBSET Call
  PROVE  /\ Orphans(cs) \subseteq LateMessages
         /\ \A m \in Orphans(cs) : \E c \in cs :
               /\ c.act = m.act /\ c.what = m.what /\ c.st = "sent" /\ c.method = "WRITE"
  BY DEF Orphans, Call, LateMessages

LEMMA NewCallType ==
  ASSUME NEW a \in Actions, NEW what \in {"mutate", "restore"}, NEW w \in Workers
  PROVE  /\ NewCall(a, what, w) \in Call
         /\ NewCall(a, what, w).act = a
         /\ NewCall(a, what, w).what = what
         /\ NewCall(a, what, w).st = "sent"
  BY DEF NewCall, Call

LEMMA TypeStep == TypeOK /\ [Next]_vars => TypeOK'
<1> SUFFICES ASSUME TypeOK, [Next]_vars PROVE TypeOK'
  OBVIOUS
<1> USE DEF TypeOK
<1>1. ASSUME NEW a \in Actions, NEW w \in Workers, NEW r \in Restorations, CreateCanary(w, a, r)
      PROVE  TypeOK'
  <2>1. journal' \in [Actions -> Entry]
    <3>1. gate[w].policy \in Policy /\ NoResource \in Values /\ "DELETE_CREATED" \in Kinds
      BY DEF Gate, Values, Kinds
    <3>. QED BY <1>1, <3>1, AppendLemma DEF CreateCanary
  <2>2. gate' \in [Workers -> Gate]
    <3>1. r.url \in Urls
      BY DEF Restorations
    <3>. QED BY <1>1, <3>1 DEF CreateCanary, Gate
  <2>3. QED
    BY <1>1, <2>1, <2>2 DEF CreateCanary, PlanState
<1>2. ASSUME NEW a \in Actions, NEW w \in Workers, NEW r \in Restorations, ModifyWithSnapshot(w, a, r)
      PROVE  TypeOK'
  <2>1. journal' \in [Actions -> Entry]
    <3>1. gate[w].policy \in Policy /\ target[r.url] \in Values /\ "RESTORE_SNAPSHOT" \in Kinds
      BY DEF Gate, Kinds, Restorations
    <3>. QED BY <1>2, <3>1, AppendLemma DEF ModifyWithSnapshot
  <2>2. gate' \in [Workers -> Gate]
    <3>1. r.url \in Urls
      BY DEF Restorations
    <3>. QED BY <1>2, <3>1 DEF ModifyWithSnapshot, Gate
  <2>3. QED
    BY <1>2, <2>1, <2>2 DEF ModifyWithSnapshot, PlanState
<1>3. ASSUME NEW a \in Actions, SendMutation(a)
      PROVE  TypeOK'
  <2>1. journal[a].run \in Workers
    BY DEF Entry
  <2>2. NewCall(a, "mutate", journal[a].run) \in Call
    BY <2>1, NewCallType
  <2>3. /\ UNCHANGED <<journal, target, applied, late, phase, todo, gate>>
        /\ calls' = calls \/ calls' = calls \cup {NewCall(a, "mutate", journal[a].run)}
        /\ pc' = [pc EXCEPT ![a] = "done"] \/ pc' = [pc EXCEPT ![a] = "mutating"]
    BY <1>3 DEF SendMutation
  <2>4. calls' \subseteq Call /\ pc' \in [Actions -> PlanState]
    BY <2>2, <2>3 DEF PlanState
  <2>5. QED
    BY <2>3, <2>4
<1>4. ASSUME NEW a \in Actions, Cleanup(a)
      PROVE  TypeOK'
  <2>1. journal[a].run \in Workers
    BY DEF Entry
  <2>2. journal' \in [Actions -> Entry]
    <3>1. MarkFailed(journal, a) \in [Actions -> Entry]
      BY MarkLemma
    <3>2. journal' = MarkFailed(journal, a) \/ journal' = journal
      BY <1>4 DEF Cleanup
    <3>3. QED
      BY <3>1, <3>2
  <2>3. calls' \subseteq Call
    BY <1>4, <2>1, NewCallType DEF Cleanup
  <2>4. QED
    BY <1>4, <2>2, <2>3 DEF Cleanup, PlanState
<1>5. ASSUME NEW c \in calls, NEW answered \in BOOLEAN,
             EndMutation(c, answered) \/ EndCleanup(c, answered) \/ EndReplay(c, answered)
      PROVE  TypeOK'
  <2>1. /\ c.act \in Actions /\ c.by \in Workers
        /\ Orphans({c}) \subseteq LateMessages
    BY OrphansType DEF Call
  <2>2. Marked(c) \in [Actions -> Entry] /\ MarkFailed(journal, c.act) \in [Actions -> Entry]
    BY <2>1, MarkLemma DEF Marked
  <2>3. CASE EndMutation(c, answered)
    BY <2>1, <2>3 DEF EndMutation, PlanState, LateMessages
  <2>4. CASE EndCleanup(c, answered)
    BY <2>1, <2>2, <2>4 DEF EndCleanup, PlanState, LateMessages
  <2>5. CASE EndReplay(c, answered)
    BY <2>1, <2>2, <2>5 DEF EndReplay, LateMessages
  <2>6. QED
    BY <1>5, <2>3, <2>4, <2>5
<1>6. ASSUME NEW c \in calls, ServeWrite(c)
      PROVE  TypeOK'
  <2>1. /\ c.act \in Actions /\ c.what \in {"mutate", "restore"}
        /\ journal[c.act].url \in Urls
        /\ Written(c.act, c.what) \in Values
    BY DEF Call, Entry, Written, Values
  <2>2. /\ target' \in [Urls -> Values]
        /\ applied' \in [Actions -> Nat]
    BY <1>6, <2>1 DEF ServeWrite, Apply
  <2>3. calls' \subseteq Call
    <3>1. \E method \in {"WRITE", "GET"}, st \in {"sent", "ok", "not_found", "error"} :
             Answer(c, method, st)
      BY <1>6 DEF ServeWrite, RedirectMethod
    <3>2. QED
      BY <3>1 DEF Answer, Call
  <2>4. QED
    BY <1>6, <2>2, <2>3 DEF ServeWrite
<1>7. ASSUME NEW c \in calls, ServeGet(c)
      PROVE  TypeOK'
  BY <1>7 DEF ServeGet, Answer, Call
<1>8. ASSUME NEW m \in late, LateWrite(m)
      PROVE  TypeOK'
  <2>1. /\ m.act \in Actions /\ journal[m.act].url \in Urls
        /\ Written(m.act, m.what) \in Values
    BY DEF Entry, Written, Values
  <2>2. QED
    BY <1>8, <2>1 DEF LateWrite, Apply
<1>9. ASSUME NEW w \in Workers, BeginRecovery(w)
      PROVE  TypeOK'
  <2>1. Pending(journal) \subseteq Actions
    BY DEF Pending, Unresolved
  <2>2. QED
    BY <1>9, <2>1 DEF BeginRecovery
<1>10. ASSUME NEW w \in Workers, ReplayNext(w)
       PROVE  TypeOK'
  <2>1. First(todo[w]) \subseteq Actions
    BY DEF First
  <2>2. journal' \in [Actions -> Entry]
    <3>1. \A a \in Actions : MarkFailed(journal, a) \in [Actions -> Entry]
      BY MarkLemma
    <3>2. \/ journal' = journal
          \/ \E a \in Actions : journal' = MarkFailed(journal, a)
      BY <1>10, <2>1 DEF ReplayNext
    <3>3. QED
      BY <3>1, <3>2
  <2>3. calls' \subseteq Call
    BY <1>10, <2>1, NewCallType DEF ReplayNext
  <2>4. todo' \in [Workers -> SUBSET Actions]
    BY <1>10 DEF ReplayNext
  <2>5. QED
    BY <1>10, <2>2, <2>3, <2>4 DEF ReplayNext
<1>11. ASSUME NEW w \in Workers, EndRecovery(w)
       PROVE  TypeOK'
  <2>1. \A policy \in FrozenPolicies : GateOf(policy) \in Gate
    BY EnvironmentAssumption DEF FrozenPolicies, GateOf, Gate, Policy
  <2>2. gate' \in [Workers -> Gate]
    BY <1>11, <2>1 DEF EndRecovery
  <2>. QED BY <1>11, <2>2 DEF EndRecovery
<1>12. ASSUME NEW w \in Workers, EndRun(w) \/ Crash(w)
       PROVE  TypeOK'
  <2>1. Abandoned(w) \in [Actions -> PlanState]
    BY DEF Abandoned, PlanState
  <2>2. CallsOf(w) \subseteq calls /\ Orphans(CallsOf(w)) \subseteq LateMessages
    BY OrphansType DEF CallsOf
  <2>3. CASE EndRun(w)
    BY <2>1, <2>3 DEF EndRun, NoGate, GateOf, NoPolicy, Policy, Gate
  <2>4. CASE Crash(w)
    BY <2>1, <2>2, <2>4 DEF Crash, NoGate, GateOf, NoPolicy, Policy, Gate, LateMessages
  <2>5. QED
    BY <1>12, <2>3, <2>4
<1>13. CASE UNCHANGED vars
  BY <1>13 DEF vars
<1>14. QED
  BY <1>1, <1>2, <1>3, <1>4, <1>5, <1>6, <1>7, <1>8, <1>9, <1>10, <1>11, <1>12, <1>13
     DEF Next, Plan, Serve, Return, Recover

(* The state of journal, target, workers and requests is what it should be. *)
THEOREM TypeCorrect == Spec => []TypeOK
<1>1. Init => TypeOK
  BY NoEntryType, JournalAssumption
     DEF Init, TypeOK, Baseline, Values, NoGate, GateOf, NoPolicy, Policy, Gate, PlanState
<1>. QED
  BY <1>1, TypeStep, PTL DEF Spec

-----------------------------------------------------------------------------
(* The journal changes only by its own methods, and append only writes a new document. *)
LEMMA JournalSteps ==
  ASSUME TypeOK, [Next]_vars
  PROVE  \/ journal' = journal
         \/ \E a \in Actions : journal' = MarkFailed(journal, a)
         \/ \E a \in Actions : journal' = MarkCompleted(journal, a)
         \/ \E a \in Actions, kind \in Kinds, r \in Restorations, v \in Values, w \in Workers, p \in Policy :
               journal[a].status = "ABSENT" /\ journal' = AppendAction(journal, a, kind, r, v, w, p)
<1>1. ASSUME NEW a \in Actions, NEW w \in Workers, NEW r \in Restorations, CreateCanary(w, a, r)
      PROVE  /\ journal[a].status = "ABSENT"
             /\ journal' = AppendAction(journal, a, "DELETE_CREATED", r, NoResource, w, gate[w].policy)
             /\ "DELETE_CREATED" \in Kinds /\ NoResource \in Values /\ gate[w].policy \in Policy
  BY <1>1 DEF CreateCanary, MayMutate, Kinds, Values, TypeOK, Gate
<1>2. ASSUME NEW a \in Actions, NEW w \in Workers, NEW r \in Restorations, ModifyWithSnapshot(w, a, r)
      PROVE  /\ journal[a].status = "ABSENT"
             /\ journal' = AppendAction(journal, a, "RESTORE_SNAPSHOT", r, target[r.url], w, gate[w].policy)
             /\ "RESTORE_SNAPSHOT" \in Kinds /\ target[r.url] \in Values /\ gate[w].policy \in Policy
  BY <1>2 DEF ModifyWithSnapshot, MayMutate, Kinds, TypeOK, Gate, Restorations
<1>3. ASSUME NEW a \in Actions, SendMutation(a) \/ Cleanup(a)
      PROVE  journal' = journal \/ journal' = MarkFailed(journal, a)
  BY <1>3 DEF SendMutation, Cleanup
<1>4. ASSUME NEW c \in calls, Serve(c) \/ Return(c)
      PROVE  \/ journal' = journal
             \/ \E a \in Actions : journal' = MarkFailed(journal, a)
             \/ \E a \in Actions : journal' = MarkCompleted(journal, a)
  <2>1. c.act \in Actions
    BY DEF TypeOK, Call
  <2>2. QED
    BY <1>4, <2>1 DEF Serve, ServeWrite, ServeGet, Return, EndMutation, EndCleanup, EndReplay, Marked
<1>5. ASSUME NEW m \in late, LateWrite(m)
      PROVE  journal' = journal
  BY <1>5 DEF LateWrite
<1>6. ASSUME NEW w \in Workers, ReplayNext(w)
      PROVE  journal' = journal \/ \E a \in Actions : journal' = MarkFailed(journal, a)
  BY <1>6 DEF ReplayNext, First, TypeOK
<1>7. ASSUME NEW w \in Workers, BeginRecovery(w) \/ EndRecovery(w) \/ EndRun(w) \/ Crash(w)
      PROVE  journal' = journal
  BY <1>7 DEF BeginRecovery, EndRecovery, EndRun, Crash
<1>8. CASE UNCHANGED vars
  BY <1>8 DEF vars
<1>9. CASE \E a \in Actions : Plan(a)
  <2>1. PICK a \in Actions : Plan(a)
    BY <1>9
  <2>2. CASE SendMutation(a) \/ Cleanup(a)
    BY <2>2, <1>3
  <2>3. CASE \E w \in Workers, r \in Restorations : CreateCanary(w, a, r)
    BY <2>3, <1>1
  <2>4. CASE \E w \in Workers, r \in Restorations : ModifyWithSnapshot(w, a, r)
    BY <2>4, <1>2
  <2>5. QED
    BY <2>1, <2>2, <2>3, <2>4 DEF Plan
<1>10. QED
  BY <1>4, <1>5, <1>6, <1>7, <1>8, <1>9 DEF Next, Recover

(* Documents are never removed and keep the address they protect. *)
LEMMA JournalGrows ==
  ASSUME TypeOK, [Next]_vars, NEW b \in Actions, Journaled(b)
  PROVE  Journaled(b)' /\ journal'[b].url = journal[b].url
<1>1. journal \in [Actions -> Entry]
  BY DEF TypeOK
<1>2. CASE journal' = journal
  BY <1>2 DEF Journaled
<1>3. ASSUME NEW a \in Actions, journal' = MarkFailed(journal, a) \/ journal' = MarkCompleted(journal, a)
      PROVE  Journaled(b)' /\ journal'[b].url = journal[b].url
  <2>1. /\ MarkFailed(journal, a)[b].url = journal[b].url
        /\ MarkCompleted(journal, a)[b].url = journal[b].url
        /\ MarkFailed(journal, a)[b].status # "ABSENT"
        /\ MarkCompleted(journal, a)[b].status # "ABSENT"
    BY <1>1, MarkLemma DEF Journaled
  <2>. QED BY <1>3, <2>1 DEF Journaled
<1>4. ASSUME NEW a \in Actions, NEW kind \in Kinds, NEW r \in Restorations, NEW v \in Values,
             NEW w \in Workers, NEW p \in Policy,
             journal[a].status = "ABSENT", journal' = AppendAction(journal, a, kind, r, v, w, p)
      PROVE  Journaled(b)' /\ journal'[b].url = journal[b].url
  <2>1. b # a
    BY <1>4 DEF Journaled
  <2>2. AppendAction(journal, a, kind, r, v, w, p)[b] = journal[b]
    BY <1>1, <2>1, AppendLemma
  <2>. QED BY <1>4, <2>2 DEF Journaled
<1>5. QED
  BY <1>2, <1>3, <1>4, JournalSteps

LEMMA WriteAheadStep == TypeOK /\ WriteAheadInv /\ [Next]_vars => WriteAheadInv'
<1> SUFFICES ASSUME TypeOK, WriteAheadInv, [Next]_vars PROVE WriteAheadInv'
  OBVIOUS
<1> USE DEF TypeOK
<1>1. \A b \in Actions : Journaled(b) => Journaled(b)' /\ journal'[b].url = journal[b].url
  BY JournalGrows
<1>2. /\ \A c \in calls : c.act \in Actions /\ c.by \in Workers /\ Journaled(c.act)
      /\ \A m \in late : m.act \in Actions /\ Journaled(m.act)
      /\ \A u \in Dirty : \E a \in Actions : Journaled(a) /\ journal[a].url = u
      /\ \A a \in Actions : pc[a] # "none" => Journaled(a)
      /\ \A w \in Workers : \A a \in todo[w] : Journaled(a)
  BY DEF WriteAheadInv, WriteAhead, Call
(* What a step may add: calls, late writes, coroutines, list entries, dirty URLs. *)
<1> DEFINE Known ==
      /\ \A c \in calls' : c.act \in Actions /\ Journaled(c.act)'
      /\ \A m \in late' : m.act \in Actions /\ Journaled(m.act)'
      /\ \A u \in Dirty' : \E a \in Actions : Journaled(a)' /\ journal'[a].url = u
      /\ \A a \in Actions : pc'[a] # "none" => Journaled(a)'
      /\ \A w \in Workers : \A a \in todo'[w] : Journaled(a)'
<1>3. SUFFICES Known
  BY DEF WriteAheadInv, WriteAhead
<1>4. ASSUME UNCHANGED target PROVE \A u \in Dirty' : \E a \in Actions : Journaled(a)' /\ journal'[a].url = u
  BY <1>1, <1>2, <1>4 DEF Dirty
<1>5. ASSUME NEW a \in Actions, NEW w \in Workers, NEW r \in Restorations,
             CreateCanary(w, a, r) \/ ModifyWithSnapshot(w, a, r)
      PROVE  Known
  <2>1. Journaled(a)'
    <3>1. CASE CreateCanary(w, a, r)
      <4>1. NoResource \in Values /\ "DELETE_CREATED" \in Kinds /\ gate[w].policy \in Policy
        BY DEF Values, Kinds, Gate
      <4>2. journal' = AppendAction(journal, a, "DELETE_CREATED", r, NoResource, w, gate[w].policy)
        BY <3>1 DEF CreateCanary
      <4>3. AppendAction(journal, a, "DELETE_CREATED", r, NoResource, w, gate[w].policy)[a].status = "PENDING"
        BY <4>1, AppendLemma
      <4>4. QED
        BY <4>2, <4>3 DEF Journaled
    <3>2. CASE ModifyWithSnapshot(w, a, r)
      <4>1. target[r.url] \in Values /\ "RESTORE_SNAPSHOT" \in Kinds /\ gate[w].policy \in Policy
        BY DEF Kinds, Gate, Restorations
      <4>2. journal' = AppendAction(journal, a, "RESTORE_SNAPSHOT", r, target[r.url], w, gate[w].policy)
        BY <3>2 DEF ModifyWithSnapshot
      <4>3. QED
        BY <4>1, <4>2, AppendLemma DEF Journaled
    <3>3. QED
      BY <1>5, <3>1, <3>2
  <2>2. UNCHANGED <<calls, late, todo, target>> /\ \A b \in Actions \ {a} : pc'[b] = pc[b]
    BY <1>5 DEF CreateCanary, ModifyWithSnapshot
  <2>3. QED
    BY <1>1, <1>2, <1>4, <2>1, <2>2
<1>6. ASSUME NEW a \in Actions, SendMutation(a) \/ Cleanup(a)
      PROVE  Known
  <2>1. Journaled(a) /\ journal[a].run \in Workers
    BY <1>2, <1>6 DEF SendMutation, Cleanup, Entry
  <2>2. /\ UNCHANGED <<late, todo, target>>
        /\ \A b \in Actions \ {a} : pc'[b] = pc[b]
        /\ \A c \in calls' : c \in calls \/ c.act = a
    BY <1>6, <2>1, NewCallType DEF SendMutation, Cleanup
  <2>3. QED
    BY <1>1, <1>2, <1>4, <2>1, <2>2
<1>7. ASSUME NEW c \in calls, NEW answered \in BOOLEAN,
             EndMutation(c, answered) \/ EndCleanup(c, answered) \/ EndReplay(c, answered)
      PROVE  Known
  <2>1. /\ UNCHANGED target
        /\ calls' \subseteq calls
        /\ \A b \in Actions \ {c.act} : pc'[b] = pc[b]
        /\ \A w \in Workers : todo'[w] \subseteq todo[w]
        /\ late' \subseteq late \cup Orphans({c})
    <3>1. CASE EndMutation(c, answered)
      BY <1>2, <3>1 DEF EndMutation
    <3>2. CASE EndCleanup(c, answered)
      BY <1>2, <3>2 DEF EndCleanup
    <3>3. CASE EndReplay(c, answered)
      BY <1>2, <3>3 DEF EndReplay
    <3>. QED BY <1>7, <3>1, <3>2, <3>3
  <2>2. \A m \in late' : m \in late \/ m.act = c.act
    BY <2>1, OrphansType
  <2>3. Journaled(c.act) /\ c.act \in Actions
    BY <1>2
  <2>4. \A d \in calls' : d.act \in Actions /\ Journaled(d.act)'
    BY <1>1, <1>2, <2>1
  <2>5. \A m \in late' : m.act \in Actions /\ Journaled(m.act)'
    BY <1>1, <1>2, <2>2, <2>3
  <2>6. /\ \A a \in Actions : pc'[a] # "none" => Journaled(a)'
        /\ \A w \in Workers : \A a \in todo'[w] : Journaled(a)'
    BY <1>1, <1>2, <2>1, <2>3
  <2>. QED
    BY <1>4, <2>1, <2>4, <2>5, <2>6
<1>8. ASSUME NEW c \in calls, ServeWrite(c)
      PROVE  Known
  <2>1. /\ UNCHANGED <<late, todo, pc, journal>>
        /\ \A d \in calls' : d \in calls \/ d.act = c.act
    BY <1>8 DEF ServeWrite, Answer, Call
  <2>2. \A u \in Dirty' : u \in Dirty \/ u = journal[c.act].url
    BY <1>8, <1>2 DEF ServeWrite, Apply, Dirty, Baseline
  <2>3. QED
    BY <1>1, <1>2, <2>1, <2>2
<1>9. ASSUME NEW c \in calls, ServeGet(c)
      PROVE  Known
  <2>1. /\ UNCHANGED <<late, todo, pc, journal, target>>
        /\ \A d \in calls' : d \in calls \/ d.act = c.act
    BY <1>9 DEF ServeGet, Answer, Call
  <2>2. QED
    BY <1>1, <1>2, <1>4, <2>1
<1>10. ASSUME NEW m \in late, LateWrite(m)
       PROVE  Known
  <2>1. UNCHANGED <<calls, todo, pc, journal>> /\ late' \subseteq late
    BY <1>10 DEF LateWrite
  <2>2. \A u \in Dirty' : u \in Dirty \/ u = journal[m.act].url
    BY <1>10, <1>2 DEF LateWrite, Apply, Dirty, Baseline
  <2>3. QED
    BY <1>1, <1>2, <2>1, <2>2
<1>11. ASSUME NEW w \in Workers, BeginRecovery(w)
       PROVE  Known
  <2>1. /\ UNCHANGED <<journal, target, calls, late, pc>>
        /\ \A v \in Workers : todo'[v] = todo[v] \/ todo'[v] = Pending(journal)
    BY <1>11 DEF BeginRecovery
  <2>2. \A a \in Pending(journal) : a \in Actions /\ Journaled(a)
    BY DEF Pending, Unresolved, Journaled
  <2>3. QED
    BY <1>1, <1>2, <1>4, <2>1, <2>2
<1>12. ASSUME NEW w \in Workers, ReplayNext(w)
       PROVE  Known
  <2>1. /\ UNCHANGED <<target, late, pc>>
        /\ \A v \in Workers : todo'[v] \subseteq todo[v]
        /\ \A c \in calls' : c \in calls \/ c.act \in todo[w]
    BY <1>12, NewCallType DEF ReplayNext, First
  <2>2. QED
    BY <1>1, <1>2, <1>4, <2>1
<1>13. ASSUME NEW w \in Workers, EndRecovery(w)
       PROVE  Known
  <2>1. UNCHANGED <<target, late, pc, calls, todo>>
    BY <1>13 DEF EndRecovery
  <2>2. QED
    BY <1>1, <1>2, <1>4, <2>1
<1>14. ASSUME NEW w \in Workers, EndRun(w) \/ Crash(w)
       PROVE  Known
  <2>1. /\ UNCHANGED target /\ calls' \subseteq calls
        /\ \A v \in Workers : todo'[v] \subseteq todo[v]
        /\ \A a \in Actions : pc'[a] # "none" => pc[a] # "none"
        /\ late' \subseteq late \cup Orphans(CallsOf(w))
    BY <1>14 DEF EndRun, Crash, Abandoned
  <2>2. \A m \in Orphans(CallsOf(w)) : \E c \in calls : m.act = c.act
    BY OrphansType DEF CallsOf
  <2>3. QED
    BY <1>1, <1>2, <1>4, <2>1, <2>2
<1>15. CASE UNCHANGED vars
  BY <1>15, <1>1, <1>2, <1>4 DEF vars
<1>16. QED
  BY <1>5, <1>6, <1>7, <1>8, <1>9, <1>10, <1>11, <1>12, <1>13, <1>14, <1>15
     DEF Next, Plan, Serve, Return, Recover

(* Restoration is journaled before any write can reach the target, whatever crashes,
   is late or runs beside (mutations.py:60-62 and 88-90; worker/cli.py:52-67). *)
THEOREM WriteAheadHolds == Spec => []WriteAhead
<1>1. Init => WriteAheadInv
  BY DEF Init, WriteAheadInv, WriteAhead, Dirty
<1>2. TypeOK /\ WriteAheadInv /\ [Next]_vars => WriteAheadInv'
  BY WriteAheadStep
<1>3. WriteAheadInv => WriteAhead
  BY DEF WriteAheadInv
<1>4. QED
  BY <1>1, <1>2, <1>3, TypeCorrect, PTL DEF Spec

-----------------------------------------------------------------------------
(* A step that removes calls, may orphan some of them and sends no mutation. *)
LEMMA AppliedOnceRemoval ==
  ASSUME TypeOK, AppliedOnceInv, NEW gone \in SUBSET calls,
         applied' = applied,
         \A c \in calls' : c \in calls \ gone \/ c.what = "restore",
         late' \subseteq late \cup Orphans(gone),
         \A a \in Actions : pc'[a] \in {"none", "journaled"} => pc[a] \in {"none", "journaled"}
  PROVE  AppliedOnceInv'
<1> USE DEF TypeOK
<1>1. gone \in SUBSET Call
  OBVIOUS
<1>2. \A m \in Orphans(gone) : \E c \in gone : c.act = m.act /\ c.what = m.what /\ (m.what = "mutate" => Writing(c))
  BY <1>1, OrphansType DEF Writing
<1>3. \A c \in calls : c.act \in Actions /\ c.what \in {"mutate", "restore"}
  BY DEF Call
<1>4. \A m \in late' : m.act \in Actions /\ m.what \in {"mutate", "restore"}
  BY <1>1, OrphansType DEF LateMessages
<1>5. ASSUME NEW a \in Actions, pc'[a] \in {"none", "journaled"}
      PROVE  /\ applied'[a] = 0
             /\ \A c \in calls' : c.act = a => c.what = "restore"
             /\ \A m \in late' : m.act = a => m.what = "restore"
  BY <1>2, <1>3, <1>4, <1>5 DEF AppliedOnceInv
<1>6. \A c, d \in calls' : c.what = "mutate" /\ d.what = "mutate" /\ c.act = d.act => c = d
  BY DEF AppliedOnceInv
<1>7. ASSUME NEW m \in late', m.what = "mutate"
      PROVE  /\ applied'[m.act] = 0
             /\ \A c \in calls' : c.act = m.act => c.what = "restore"
  <2>1. CASE m \in late
    BY <2>1, <1>7 DEF AppliedOnceInv
  <2>2. CASE m \in Orphans(gone)
    <3>1. PICK c \in gone : c.act = m.act /\ c.what = "mutate" /\ Writing(c)
      BY <1>2, <1>7, <2>2
    <3>2. QED
      BY <1>3, <3>1 DEF AppliedOnceInv
  <2>3. QED
    BY <2>1, <2>2
<1>8. \A c \in calls' : Writing(c) => applied'[c.act] = 0
  BY DEF AppliedOnceInv, Writing
<1>9. QED
  BY <1>5, <1>6, <1>7, <1>8 DEF AppliedOnceInv, MutationAppliedOnce, Writing

LEMMA AppliedOnceStep == TypeOK /\ WriteAheadInv /\ AppliedOnceInv /\ [Next]_vars => AppliedOnceInv'
<1> SUFFICES ASSUME TypeOK, WriteAheadInv, AppliedOnceInv, [Next]_vars PROVE AppliedOnceInv'
  OBVIOUS
<1> USE DEF TypeOK
<1>1. \A c \in calls : c.act \in Actions /\ c.what \in {"mutate", "restore"}
  BY DEF Call
<1>2. ASSUME UNCHANGED <<applied, calls, late>>,
             \A a \in Actions : pc'[a] \in {"none", "journaled"} => pc[a] \in {"none", "journaled"}
      PROVE  AppliedOnceInv'
  BY <1>2 DEF AppliedOnceInv, MutationAppliedOnce
<1>3. ASSUME NEW a \in Actions, NEW w \in Workers, NEW r \in Restorations,
             CreateCanary(w, a, r) \/ ModifyWithSnapshot(w, a, r)
      PROVE  AppliedOnceInv'
  <2>1. pc[a] = "none" /\ UNCHANGED <<applied, calls, late>> /\ pc' = [pc EXCEPT ![a] = "journaled"]
    BY <1>3 DEF CreateCanary, ModifyWithSnapshot, MayMutate, WriteAheadInv, Journaled
  <2>2. QED
    BY <1>2, <2>1
<1>4. ASSUME NEW a \in Actions, SendMutation(a)
      PROVE  AppliedOnceInv'
  <2>1. /\ pc[a] = "journaled" /\ UNCHANGED <<applied, late>> /\ journal[a].run \in Workers
        /\ \A b \in Actions : pc'[b] \in {"none", "journaled"} => b # a /\ pc'[b] = pc[b]
    BY <1>4 DEF SendMutation, Entry
  <2>2. /\ applied[a] = 0
        /\ \A c \in calls : c.act = a => c.what = "restore"
        /\ \A m \in late : m.act = a => m.what = "restore"
    BY <2>1 DEF AppliedOnceInv
  <2> DEFINE n == NewCall(a, "mutate", journal[a].run)
  <2>3. n.act = a /\ n.what = "mutate"
    BY <2>1, NewCallType
  <2>4. calls' = calls \/ calls' = calls \cup {n}
    BY <1>4 DEF SendMutation
  <2> HIDE DEF n
  <2>5. \A c, d \in calls' : c.what = "mutate" /\ d.what = "mutate" /\ c.act = d.act => c = d
    BY <2>2, <2>3, <2>4 DEF AppliedOnceInv
  <2>6. \A b \in Actions : pc'[b] \in {"none", "journaled"} =>
          /\ applied'[b] = 0
          /\ \A c \in calls' : c.act = b => c.what = "restore"
          /\ \A m \in late' : m.act = b => m.what = "restore"
    BY <2>1, <2>3, <2>4 DEF AppliedOnceInv
  <2>7. \A m \in late' : m.what = "mutate" =>
          /\ applied'[m.act] = 0
          /\ \A c \in calls' : c.act = m.act => c.what = "restore"
    BY <2>1, <2>2, <2>3, <2>4 DEF AppliedOnceInv
  <2>8. \A c \in calls' : Writing(c) => applied'[c.act] = 0
    BY <2>1, <2>2, <2>3, <2>4 DEF AppliedOnceInv
  <2>9. QED
    BY <2>1, <2>5, <2>6, <2>7, <2>8 DEF AppliedOnceInv, MutationAppliedOnce, Writing
<1>5. ASSUME NEW a \in Actions, Cleanup(a)
      PROVE  AppliedOnceInv'
  <2>1. journal[a].run \in Workers
    BY DEF Entry
  <2>2. /\ UNCHANGED <<applied, late>>
        /\ \A c \in calls' : c \in calls \ {} \/ c.what = "restore"
        /\ \A b \in Actions : pc'[b] \in {"none", "journaled"} => pc[b] \in {"none", "journaled"}
    BY <1>5, <2>1, NewCallType DEF Cleanup
  <2>3. QED
    BY <2>2, AppliedOnceRemoval
<1>6. ASSUME NEW c \in calls, NEW answered \in BOOLEAN,
             EndMutation(c, answered) \/ EndCleanup(c, answered) \/ EndReplay(c, answered)
      PROVE  AppliedOnceInv'
  <2>1. /\ UNCHANGED applied
        /\ calls' = calls \ {c}
        /\ late' \subseteq late \cup Orphans({c})
        /\ \A b \in Actions : pc'[b] \in {"none", "journaled"} => pc[b] \in {"none", "journaled"}
    BY <1>1, <1>6 DEF EndMutation, EndCleanup, EndReplay
  <2>2. QED
    BY <2>1, AppliedOnceRemoval
<1>7. ASSUME NEW c \in calls, ServeWrite(c)
      PROVE  AppliedOnceInv'
  <2>1. PICK method \in {"WRITE", "GET"}, st \in {"sent", "ok", "not_found", "error"} :
           /\ calls' = (calls \ {c}) \cup {[c EXCEPT !.method = method, !.st = st]}
           /\ ~(method = "WRITE" /\ st = "sent")
    BY <1>7 DEF ServeWrite, Answer, RedirectMethod
  <2> DEFINE d == [c EXCEPT !.method = method, !.st = st]
  <2>2. d.act = c.act /\ d.what = c.what /\ ~Writing(d)
    BY <2>1 DEF Call, Writing
  <2>3. calls' = (calls \ {c}) \cup {d} /\ UNCHANGED <<late, pc>>
    BY <1>7, <2>1 DEF ServeWrite
  <2> HIDE DEF d
  <2>4. CASE c.what = "restore"
    <3>1. UNCHANGED applied
      BY <1>7, <2>4 DEF ServeWrite, Apply
    <3>2. QED
      BY <2>2, <2>3, <2>4, <3>1, AppliedOnceRemoval
  <2>5. CASE c.what = "mutate"
    <3>1. c.act \in Actions /\ Writing(c) /\ applied[c.act] = 0
      BY <1>1, <1>7, <2>5 DEF ServeWrite, Writing, AppliedOnceInv
    <3>2. applied'[c.act] \in {0, 1} /\ \A a \in Actions \ {c.act} : applied'[a] = applied[a]
      BY <1>7, <2>5, <3>1 DEF ServeWrite, Apply
    <3>3. /\ pc[c.act] \notin {"none", "journaled"}
          /\ \A e \in calls : e.act = c.act /\ e.what = "mutate" => e = c
          /\ \A m \in late : m.what = "mutate" => m.act # c.act
      BY <2>5, <3>1 DEF AppliedOnceInv
    <3>4. \A m \in late : m.act \in Actions
      OBVIOUS
    <3>5. \A b \in Actions : pc'[b] \in {"none", "journaled"} =>
            /\ applied'[b] = 0
            /\ \A e \in calls' : e.act = b => e.what = "restore"
            /\ \A m \in late' : m.act = b => m.what = "restore"
      BY <2>2, <2>3, <3>2, <3>3 DEF AppliedOnceInv
    <3>6. \A e, f \in calls' : e.what = "mutate" /\ f.what = "mutate" /\ e.act = f.act => e = f
      BY <2>2, <2>3, <3>3 DEF AppliedOnceInv
    <3>7. \A m \in late' : m.what = "mutate" =>
            /\ applied'[m.act] = 0
            /\ \A e \in calls' : e.act = m.act => e.what = "restore"
      BY <2>2, <2>3, <3>2, <3>3, <3>4 DEF AppliedOnceInv
    <3>8. \A e \in calls' : Writing(e) => applied'[e.act] = 0
      <4>1. ASSUME NEW e \in calls', Writing(e) PROVE applied'[e.act] = 0
        <5>1. e \in calls /\ e # c /\ e.what = "mutate"
          BY <2>2, <2>3, <4>1 DEF Writing
        <5>2. e.act # c.act /\ applied[e.act] = 0
          BY <3>3, <4>1, <5>1 DEF AppliedOnceInv
        <5>3. QED
          BY <1>1, <3>2, <5>1, <5>2
      <4>2. QED
        BY <4>1
    <3>9. MutationAppliedOnce'
      BY <3>2 DEF AppliedOnceInv, MutationAppliedOnce
    <3>10. QED
      BY <3>5, <3>6, <3>7, <3>8, <3>9 DEF AppliedOnceInv, Writing
  <2>6. QED
    BY <1>1, <2>4, <2>5
<1>8. ASSUME NEW c \in calls, ServeGet(c)
      PROVE  AppliedOnceInv'
  <2>1. PICK st \in {"ok", "not_found", "error"} :
           calls' = (calls \ {c}) \cup {[c EXCEPT !.method = "GET", !.st = st]}
    BY <1>8 DEF ServeGet, Answer
  <2> DEFINE d == [c EXCEPT !.method = "GET", !.st = st]
  <2>2. d.act = c.act /\ d.what = c.what /\ ~Writing(d)
    BY DEF Call, Writing
  <2>3. calls' = (calls \ {c}) \cup {d} /\ UNCHANGED <<applied, late, pc>>
    BY <1>8, <2>1 DEF ServeGet
  <2> HIDE DEF d
  <2>4. \A e, f \in calls' : e.what = "mutate" /\ f.what = "mutate" /\ e.act = f.act => e = f
    BY <2>2, <2>3 DEF AppliedOnceInv
  <2>5. \A e \in calls' : \E f \in calls : e.act = f.act /\ e.what = f.what /\ (Writing(e) => e = f)
    BY <2>2, <2>3
  <2>6. QED
    BY <2>3, <2>4, <2>5 DEF AppliedOnceInv, MutationAppliedOnce, Writing
<1>9. ASSUME NEW m \in late, LateWrite(m)
      PROVE  AppliedOnceInv'
  <2>1. m.act \in Actions /\ UNCHANGED <<calls, pc>> /\ late' = late \ {m} /\ m \in LateMessages
    BY <1>9 DEF LateWrite, LateMessages
  <2>2. CASE UNCHANGED applied
    BY <2>1, <2>2, AppliedOnceRemoval
  <2>3. CASE ~UNCHANGED applied
    <3>1. m.what = "mutate" /\ applied' = [applied EXCEPT ![m.act] = @ + 1]
      BY <1>9, <2>3 DEF LateWrite, Apply
    <3>2. /\ applied[m.act] = 0 /\ \A c \in calls : c.act = m.act => c.what = "restore"
          /\ pc[m.act] \notin {"none", "journaled"}
      BY <2>1, <3>1 DEF AppliedOnceInv
    <3>3. \A n \in late' : n.what = "mutate" => n.act \in Actions \ {m.act}
      BY <2>1, <3>1 DEF LateMessages
    <3>4. \A c \in calls : Writing(c) => c.act \in Actions \ {m.act}
      BY <1>1, <3>2 DEF Writing
    <3>5. applied'[m.act] = 1 /\ \A a \in Actions \ {m.act} : applied'[a] = applied[a]
      BY <2>1, <3>1, <3>2
    <3>6. \A c \in calls' : Writing(c) => applied'[c.act] = 0
      BY <2>1, <3>4, <3>5 DEF AppliedOnceInv
    <3>7. \A n \in late' : n.what = "mutate" =>
            applied'[n.act] = 0 /\ \A c \in calls' : c.act = n.act => c.what = "restore"
      BY <2>1, <3>3, <3>5 DEF AppliedOnceInv
    <3>8. \A b \in Actions : pc'[b] \in {"none", "journaled"} =>
            /\ applied'[b] = 0
            /\ \A e \in calls' : e.act = b => e.what = "restore"
            /\ \A n \in late' : n.act = b => n.what = "restore"
      BY <2>1, <3>2, <3>5 DEF AppliedOnceInv
    <3>9. MutationAppliedOnce'
      BY <3>5 DEF AppliedOnceInv, MutationAppliedOnce
    <3>10. QED
      BY <2>1, <3>6, <3>7, <3>8, <3>9 DEF AppliedOnceInv, Writing
  <2>4. QED
    BY <2>2, <2>3
<1>10. ASSUME NEW w \in Workers, BeginRecovery(w) \/ EndRecovery(w)
       PROVE  AppliedOnceInv'
  BY <1>2, <1>10 DEF BeginRecovery, EndRecovery
<1>11. ASSUME NEW w \in Workers, ReplayNext(w)
       PROVE  AppliedOnceInv'
  <2>1. /\ UNCHANGED <<applied, late, pc>>
        /\ \A c \in calls' : c \in calls \ {} \/ c.what = "restore"
    BY <1>11, NewCallType DEF ReplayNext, First
  <2>2. QED
    BY <2>1, AppliedOnceRemoval
<1>12. ASSUME NEW w \in Workers, EndRun(w) \/ Crash(w)
       PROVE  AppliedOnceInv'
  <2>1. \A a \in Actions : Abandoned(w)[a] \in {"none", "journaled"} => pc[a] \in {"none", "journaled"}
    BY DEF Abandoned
  <2>2. CASE EndRun(w)
    BY <1>2, <2>1, <2>2 DEF EndRun
  <2>3. CASE Crash(w)
    <3>1. CallsOf(w) \in SUBSET calls
      BY DEF CallsOf
    <3>2. /\ UNCHANGED applied /\ calls' = calls \ CallsOf(w)
          /\ late' = late \cup Orphans(CallsOf(w)) /\ pc' = Abandoned(w)
      BY <2>3 DEF Crash
    <3>3. QED
      BY <2>1, <3>1, <3>2, AppliedOnceRemoval
  <2>4. QED
    BY <1>12, <2>2, <2>3
<1>13. CASE UNCHANGED vars
  BY <1>2, <1>13 DEF vars
<1>14. QED
  BY <1>3, <1>4, <1>5, <1>6, <1>7, <1>8, <1>9, <1>10, <1>11, <1>12, <1>13
     DEF Next, Plan, Serve, Return, Recover

(* Neither redirects, nor late delivery, nor recovery can make the write of an action
   take effect twice (transport.py:259-276: a redirected write is not sent again). *)
THEOREM AppliedOnce == Spec => []MutationAppliedOnce
<1>1. Init => WriteAheadInv
  BY DEF Init, WriteAheadInv, WriteAhead, Dirty
<1>2. Init => AppliedOnceInv
  BY DEF Init, AppliedOnceInv, MutationAppliedOnce
<1>3. TypeOK /\ WriteAheadInv /\ [Next]_vars => WriteAheadInv'
  BY WriteAheadStep
<1>4. TypeOK /\ WriteAheadInv /\ AppliedOnceInv /\ [Next]_vars => AppliedOnceInv'
  BY AppliedOnceStep
<1>5. AppliedOnceInv => MutationAppliedOnce
  BY DEF AppliedOnceInv
<1>6. QED
  BY <1>1, <1>2, <1>3, <1>4, <1>5, TypeCorrect, PTL DEF Spec
-----------------------------------------------------------------------------
(* The effects of the steps that the next proofs keep needing. *)

(* A new document: of which address, whose, and what restores it. *)
LEMMA CreateShape ==
  ASSUME TypeOK, NEW a \in Actions, NEW w \in Workers, NEW r \in Restorations,
         CreateCanary(w, a, r) \/ ModifyWithSnapshot(w, a, r)
  PROVE  /\ phase[w] = "run" /\ journal[a].status = "ABSENT"
         /\ journal'[a].status = "PENDING" /\ journal'[a].url = r.url /\ journal'[a].run = w
         /\ journal'[a].verb = r.verb /\ journal'[a].policy = gate[w].policy
         /\ \/ /\ r.url \in CreatedUrls /\ r.verb = "DELETE" /\ r.url \in gate'[w].owns
               /\ journal'[a].kind = "DELETE_CREATED" /\ journal'[a].restore = NoResource
            \/ /\ r.url \in ExistingUrls /\ r.verb \in {"PUT", "PATCH"} /\ r.url \in gate'[w].snaps
               /\ journal'[a].kind = "RESTORE_SNAPSHOT" /\ journal'[a].restore = target[r.url]
         /\ \A b \in Actions \ {a} : journal'[b] = journal[b] /\ pc'[b] = pc[b]
         /\ pc'[a] = "journaled"
         /\ \A v \in Workers : /\ gate'[v].policy = gate[v].policy
                               /\ gate[v].owns \subseteq gate'[v].owns
                               /\ gate[v].snaps \subseteq gate'[v].snaps
                               /\ gate'[v].owns \subseteq gate[v].owns \cup CreatedUrls
         /\ UNCHANGED <<target, applied, calls, late, phase, todo>>
<1>1. /\ journal \in [Actions -> Entry] /\ NoResource \in Values /\ target[r.url] \in Values
      /\ "DELETE_CREATED" \in Kinds /\ "RESTORE_SNAPSHOT" \in Kinds
      /\ gate[w].policy \in Policy
  BY DEF TypeOK, Values, Kinds, Gate, Restorations
<1>2. pc'[a] = "journaled" /\ \A b \in Actions \ {a} : pc'[b] = pc[b]
  BY DEF CreateCanary, ModifyWithSnapshot, TypeOK
<1>3. /\ phase[w] = "run" /\ journal[a].status = "ABSENT"
      /\ UNCHANGED <<target, applied, calls, late, phase, todo>>
  BY DEF CreateCanary, ModifyWithSnapshot, MayMutate
<1>4. CASE CreateCanary(w, a, r)
  <2>1. /\ \A v \in Workers : /\ gate'[v].policy = gate[v].policy
                              /\ gate[v].owns \subseteq gate'[v].owns
                              /\ gate[v].snaps \subseteq gate'[v].snaps
                              /\ gate'[v].owns \subseteq gate[v].owns \cup CreatedUrls
        /\ r.url \in gate'[w].owns
    BY <1>4 DEF CreateCanary, TypeOK, Gate
  <2>2. r.url \in CreatedUrls /\ r.verb = "DELETE"
    BY <1>4 DEF CreateCanary
  <2>3. journal' = AppendAction(journal, a, "DELETE_CREATED", r, NoResource, w, gate[w].policy)
    BY <1>4 DEF CreateCanary
  <2>4. /\ journal'[a].status = "PENDING" /\ journal'[a].url = r.url /\ journal'[a].run = w
        /\ journal'[a].verb = r.verb /\ journal'[a].policy = gate[w].policy
        /\ journal'[a].kind = "DELETE_CREATED" /\ journal'[a].restore = NoResource
        /\ \A b \in Actions \ {a} : journal'[b] = journal[b]
    BY <1>1, <2>3, AppendLemma
  <2>. QED BY <1>2, <1>3, <2>1, <2>2, <2>4
<1>5. CASE ModifyWithSnapshot(w, a, r)
  <2>1. /\ \A v \in Workers : /\ gate'[v].policy = gate[v].policy
                              /\ gate[v].owns \subseteq gate'[v].owns
                              /\ gate[v].snaps \subseteq gate'[v].snaps
                              /\ gate'[v].owns \subseteq gate[v].owns \cup CreatedUrls
        /\ r.url \in gate'[w].snaps
    BY <1>5 DEF ModifyWithSnapshot, TypeOK, Gate
  <2>2. r.url \in ExistingUrls /\ r.verb \in {"PUT", "PATCH"}
    BY <1>5 DEF ModifyWithSnapshot
  <2>3. journal' = AppendAction(journal, a, "RESTORE_SNAPSHOT", r, target[r.url], w, gate[w].policy)
    BY <1>5 DEF ModifyWithSnapshot
  <2>4. /\ journal'[a].status = "PENDING" /\ journal'[a].url = r.url /\ journal'[a].run = w
        /\ journal'[a].verb = r.verb /\ journal'[a].policy = gate[w].policy
        /\ journal'[a].kind = "RESTORE_SNAPSHOT" /\ journal'[a].restore = target[r.url]
        /\ \A b \in Actions \ {a} : journal'[b] = journal[b]
    BY <1>1, <2>3, AppendLemma
  <2>. QED BY <1>2, <1>3, <2>1, <2>2, <2>4
<1>. QED BY <1>4, <1>5

(* No other step changes what a document says of the action. *)
LEMMA DocumentsFixed ==
  ASSUME TypeOK, [Next]_vars, NEW b \in Actions, Journaled(b)
  PROVE  /\ journal'[b].url = journal[b].url /\ journal'[b].kind = journal[b].kind
         /\ journal'[b].run = journal[b].run /\ journal'[b].restore = journal[b].restore
         /\ journal'[b].verb = journal[b].verb /\ journal'[b].policy = journal[b].policy
<1>1. journal \in [Actions -> Entry]
  BY DEF TypeOK
<1>2. ASSUME NEW a \in Actions, journal' = MarkFailed(journal, a) \/ journal' = MarkCompleted(journal, a)
      PROVE  /\ journal'[b].url = journal[b].url /\ journal'[b].kind = journal[b].kind
             /\ journal'[b].run = journal[b].run /\ journal'[b].restore = journal[b].restore
             /\ journal'[b].verb = journal[b].verb /\ journal'[b].policy = journal[b].policy
  BY <1>1, <1>2, MarkLemma
<1>3. ASSUME NEW a \in Actions, NEW kind \in Kinds, NEW r \in Restorations, NEW v \in Values,
             NEW w \in Workers, NEW p \in Policy,
             journal[a].status = "ABSENT", journal' = AppendAction(journal, a, kind, r, v, w, p)
      PROVE  journal'[b] = journal[b]
  BY <1>1, <1>3, AppendLemma DEF Journaled
<1>. QED BY <1>2, <1>3, JournalSteps

(* The target's answer changes the call and leaves whose it is. *)
LEMMA ServeShape ==
  ASSUME TypeOK, NEW c \in calls, Serve(c)
  PROVE  /\ UNCHANGED <<journal, late, phase, todo, gate, pc>>
         /\ \E d \in Call : /\ calls' = (calls \ {c}) \cup {d}
                            /\ d.act = c.act /\ d.what = c.what /\ d.by = c.by
<1>1. UNCHANGED <<journal, late, phase, todo, gate, pc>>
  BY DEF Serve, ServeWrite, ServeGet
<1>2. PICK method \in {"WRITE", "GET"}, st \in {"sent", "ok", "not_found", "error"} :
         calls' = (calls \ {c}) \cup {[c EXCEPT !.method = method, !.st = st]}
  BY DEF Serve, ServeWrite, ServeGet, Answer, RedirectMethod
<1>. DEFINE d == [c EXCEPT !.method = method, !.st = st]
<1>3. d \in Call /\ d.act = c.act /\ d.what = c.what /\ d.by = c.by
  BY DEF TypeOK, Call
<1>. QED BY <1>1, <1>2, <1>3

(* A call that has just been sent. *)
LEMMA SentShape ==
  ASSUME NEW a \in Actions, NEW what \in {"mutate", "restore"}, NEW w \in Workers
  PROVE  /\ NewCall(a, what, w).act = a /\ NewCall(a, what, w).what = what
         /\ NewCall(a, what, w).by = w /\ NewCall(a, what, w).st = "sent"
         /\ NewCall(a, what, w).method = "WRITE"
  BY DEF NewCall
-----------------------------------------------------------------------------
Underway == {"journaled", "mutating", "mutated", "cleaning"}

(* Only a run has coroutines, and each awaits at most one call, its own; a mutation is
   always awaited by the coroutine of its action. *)
CoroutineInv ==
    /\ \A a \in Actions : pc[a] \in Underway => phase[journal[a].run] = "run"
    /\ \A c \in calls :
          /\ phase[c.by] \in {"run", "recover"} /\ (c.what = "mutate" => phase[c.by] = "run")
          /\ phase[c.by] = "run" => /\ pc[c.act] = IF c.what = "mutate" THEN "mutating" ELSE "cleaning"
                                    /\ c.by = journal[c.act].run
    /\ \A c, d \in calls : phase[c.by] = "run" /\ phase[d.by] = "run" /\ c.act = d.act => c = d

LEMMA CoroutineStep == TypeOK /\ WriteAheadInv /\ CoroutineInv /\ [Next]_vars => CoroutineInv'
<1>. SUFFICES ASSUME TypeOK, WriteAheadInv, CoroutineInv, [Next]_vars PROVE CoroutineInv'
  OBVIOUS
<1>1. /\ \A c \in calls : /\ c.act \in Actions /\ c.by \in Workers /\ c.what \in {"mutate", "restore"}
                          /\ Journaled(c.act) /\ journal'[c.act].run = journal[c.act].run
      /\ \A a \in Actions : /\ journal[a].run \in Workers /\ journal'[a].run \in Workers
                            /\ pc[a] # "none" => Journaled(a) /\ journal'[a].run = journal[a].run
  <2>1. TypeOK'
    BY TypeStep
  <2>. QED BY <2>1, DocumentsFixed DEF TypeOK, Call, Entry, WriteAheadInv, WriteAhead
(* Calls only end, and with each its coroutine moves on. *)
<1>2. ASSUME phase' = phase, calls' \subseteq calls,
             \A a \in Actions : pc'[a] \in Underway => pc[a] \in Underway,
             \A c \in calls' : phase[c.by] = "run" => pc'[c.act] = pc[c.act]
      PROVE  CoroutineInv'
  <2>1. \A a \in Actions : pc'[a] \in Underway => phase'[journal'[a].run] = "run"
    BY <1>1, <1>2 DEF CoroutineInv, Underway
  <2>2. ASSUME NEW c \in calls'
        PROVE  /\ phase'[c.by] \in {"run", "recover"} /\ (c.what = "mutate" => phase'[c.by] = "run")
               /\ phase'[c.by] = "run" => /\ pc'[c.act] = IF c.what = "mutate" THEN "mutating" ELSE "cleaning"
                                          /\ c.by = journal'[c.act].run
    BY <1>1, <1>2 DEF CoroutineInv
  <2>3. \A c, d \in calls' : phase'[c.by] = "run" /\ phase'[d.by] = "run" /\ c.act = d.act => c = d
    BY <1>2 DEF CoroutineInv
  <2>. QED BY <2>1, <2>2, <2>3 DEF CoroutineInv
(* A coroutine that awaits nothing sends its call. *)
<1>3. ASSUME NEW a \in Actions, NEW n, phase' = phase, calls' = calls \cup {n},
             n.act = a, n.by = journal[a].run, n.what \in {"mutate", "restore"},
             pc[a] \in {"journaled", "mutated"},
             pc' = [pc EXCEPT ![a] = IF n.what = "mutate" THEN "mutating" ELSE "cleaning"]
      PROVE  CoroutineInv'
  <2>1. phase[journal[a].run] = "run" /\ journal'[a].run = journal[a].run
    BY <1>1, <1>3 DEF CoroutineInv, Underway
  <2>2. \A c \in calls : phase[c.by] = "run" => c.act # a
    BY <1>3 DEF CoroutineInv
  <2>3. pc'[a] = (IF n.what = "mutate" THEN "mutating" ELSE "cleaning") /\ \A b \in Actions \ {a} : pc'[b] = pc[b]
    BY <1>3 DEF TypeOK
  <2>4. \A b \in Actions : pc'[b] \in Underway => phase'[journal'[b].run] = "run"
    BY <1>1, <1>3, <2>1, <2>3 DEF CoroutineInv, Underway
  <2>5. ASSUME NEW c \in calls'
        PROVE  /\ phase'[c.by] \in {"run", "recover"} /\ (c.what = "mutate" => phase'[c.by] = "run")
               /\ phase'[c.by] = "run" => /\ pc'[c.act] = IF c.what = "mutate" THEN "mutating" ELSE "cleaning"
                                          /\ c.by = journal'[c.act].run
    <3>1. CASE c = n
      BY <1>3, <2>1, <2>3, <3>1
    <3>2. CASE c \in calls
      BY <1>1, <1>3, <2>2, <2>3, <3>2 DEF CoroutineInv
    <3>. QED BY <1>3, <3>1, <3>2
  <2>6. \A c, d \in calls' : phase'[c.by] = "run" /\ phase'[d.by] = "run" /\ c.act = d.act => c = d
    BY <1>3, <2>2 DEF CoroutineInv
  <2>. QED BY <2>4, <2>5, <2>6 DEF CoroutineInv
<1>4. ASSUME NEW a \in Actions, NEW w \in Workers, NEW r \in Restorations,
             CreateCanary(w, a, r) \/ ModifyWithSnapshot(w, a, r)
      PROVE  CoroutineInv'
  <2>1. /\ phase[w] = "run" /\ journal'[a].run = w /\ calls' = calls /\ phase' = phase
        /\ \A b \in Actions \ {a} : pc'[b] = pc[b]
        /\ ~Journaled(a)
    BY <1>4, CreateShape DEF Journaled
  <2>2. \A c \in calls : c.act # a
    BY <1>1, <2>1
  <2>3. \A b \in Actions : pc'[b] \in Underway => phase'[journal'[b].run] = "run"
    BY <1>1, <2>1 DEF CoroutineInv, Underway
  <2>4. \A c \in calls : pc'[c.act] = pc[c.act] /\ journal'[c.act].run = journal[c.act].run
    BY <1>1, <2>1, <2>2
  <2>. QED BY <2>1, <2>3, <2>4 DEF CoroutineInv
<1>5. ASSUME NEW a \in Actions, SendMutation(a) PROVE CoroutineInv'
  <2>1. CASE calls' = calls
    BY <1>1, <1>2, <1>5, <2>1 DEF SendMutation, CoroutineInv, Underway, TypeOK
  <2>2. CASE pc' = [pc EXCEPT ![a] = "mutating"] /\ calls' = calls \cup {NewCall(a, "mutate", journal[a].run)}
    <3>. DEFINE n == NewCall(a, "mutate", journal[a].run)
    <3>1. n.act = a /\ n.by = journal[a].run /\ n.what = "mutate"
      BY <1>1, SentShape
    <3>2. phase' = phase /\ pc[a] = "journaled" /\ calls' = calls \cup {n}
      BY <1>5, <2>2 DEF SendMutation
    <3>. HIDE DEF n
    <3>3. pc' = [pc EXCEPT ![a] = IF n.what = "mutate" THEN "mutating" ELSE "cleaning"]
      BY <2>2, <3>1
    <3>. QED BY <1>3, <3>1, <3>2, <3>3
  <2>. QED BY <1>5, <2>1, <2>2 DEF SendMutation
<1>6. ASSUME NEW a \in Actions, Cleanup(a) PROVE CoroutineInv'
  <2>1. CASE calls' = calls /\ pc' = [pc EXCEPT ![a] = "done"]
    BY <1>1, <1>2, <1>6, <2>1 DEF Cleanup, CoroutineInv, Underway, TypeOK
  <2>2. CASE pc' = [pc EXCEPT ![a] = "cleaning"] /\ calls' = calls \cup {NewCall(a, "restore", journal[a].run)}
    <3>. DEFINE n == NewCall(a, "restore", journal[a].run)
    <3>1. n.act = a /\ n.by = journal[a].run /\ n.what = "restore"
      BY <1>1, SentShape
    <3>2. phase' = phase /\ pc[a] = "mutated" /\ calls' = calls \cup {n}
      BY <1>6, <2>2 DEF Cleanup
    <3>. HIDE DEF n
    <3>3. pc' = [pc EXCEPT ![a] = IF n.what = "mutate" THEN "mutating" ELSE "cleaning"]
      BY <2>2, <3>1
    <3>. QED BY <1>3, <3>1, <3>2, <3>3
  <2>. QED BY <1>6, <2>1, <2>2 DEF Cleanup
<1>7. ASSUME NEW c \in calls, NEW answered \in BOOLEAN, EndMutation(c, answered) \/ EndCleanup(c, answered)
      PROVE  CoroutineInv'
  <2>1. /\ calls' = calls \ {c} /\ phase' = phase /\ phase[c.by] = "run"
        /\ \A b \in Actions \ {c.act} : pc'[b] = pc[b]
        /\ pc'[c.act] \in Underway => c.what = "mutate"
    BY <1>1, <1>7 DEF EndMutation, EndCleanup, CoroutineInv, Underway, TypeOK
  <2>2. \A d \in calls' : phase[d.by] = "run" => d.act # c.act
    BY <2>1 DEF CoroutineInv
  <2>3. \A a \in Actions : pc'[a] \in Underway => pc[a] \in Underway
    BY <1>1, <2>1 DEF CoroutineInv, Underway
  <2>. QED BY <1>1, <1>2, <2>1, <2>2, <2>3
<1>8. ASSUME NEW c \in calls, NEW answered \in BOOLEAN, EndReplay(c, answered) PROVE CoroutineInv'
  BY <1>2, <1>8 DEF EndReplay
<1>9. ASSUME NEW c \in calls, Serve(c) PROVE CoroutineInv'
  <2>1. PICK d \in Call : /\ calls' = (calls \ {c}) \cup {d}
                          /\ d.act = c.act /\ d.what = c.what /\ d.by = c.by
    BY <1>9, ServeShape
  <2>2. UNCHANGED <<journal, phase, pc>>
    BY <1>9, ServeShape
  <2>. QED BY <2>1, <2>2 DEF CoroutineInv
<1>10. ASSUME NEW m \in late, LateWrite(m) PROVE CoroutineInv'
  BY <1>2, <1>10 DEF LateWrite
<1>11. ASSUME NEW w \in Workers, ReplayNext(w) PROVE CoroutineInv'
  <2>1. phase' = phase /\ phase[w] = "recover" /\ pc' = pc
    BY <1>11 DEF ReplayNext
  <2>2. PICK a \in First(todo[w]) : calls' = calls \/ calls' = calls \cup {NewCall(a, "restore", w)}
    BY <1>11 DEF ReplayNext
  <2>3. a \in Actions
    BY DEF First, TypeOK
  <2>4. CASE calls' = calls
    BY <1>2, <2>1, <2>4
  <2>5. CASE calls' = calls \cup {NewCall(a, "restore", w)}
    <3>. DEFINE n == NewCall(a, "restore", w)
    <3>1. n.by = w /\ n.what = "restore"
      BY <2>3, SentShape
    <3>. HIDE DEF n
    <3>2. \A b \in Actions : pc'[b] \in Underway => phase'[journal'[b].run] = "run"
      BY <1>1, <2>1 DEF CoroutineInv, Underway
    <3>3. \A d \in calls' : d = n \/ d \in calls
      BY <2>5 DEF n
    <3>. QED BY <1>1, <2>1, <3>1, <3>2, <3>3 DEF CoroutineInv
  <2>. QED BY <2>2, <2>4, <2>5
(* A worker that awaits nothing enters another phase with no coroutine underway. *)
<1>12. ASSUME NEW w \in Workers, \A v \in Workers \ {w} : phase'[v] = phase[v],
              calls' = calls \ CallsOf(w),
              \A a \in Actions : pc'[a] \in Underway => journal[a].run # w /\ pc'[a] = pc[a],
              \A a \in Actions : journal[a].run # w => pc'[a] = pc[a]
       PROVE  CoroutineInv'
  <2>1. \A c \in calls' : c \in calls /\ c.by \in Workers \ {w}
    BY <1>1, <1>12 DEF CallsOf
  <2>2. \A a \in Actions : pc'[a] \in Underway => phase'[journal'[a].run] = "run"
    BY <1>1, <1>12 DEF CoroutineInv, Underway
  <2>3. ASSUME NEW c \in calls'
        PROVE  /\ phase'[c.by] \in {"run", "recover"} /\ (c.what = "mutate" => phase'[c.by] = "run")
               /\ phase'[c.by] = "run" => /\ pc'[c.act] = IF c.what = "mutate" THEN "mutating" ELSE "cleaning"
                                          /\ c.by = journal'[c.act].run
    BY <1>1, <1>12, <2>1 DEF CoroutineInv
  <2>4. \A c, d \in calls' : phase'[c.by] = "run" /\ phase'[d.by] = "run" /\ c.act = d.act => c = d
    BY <1>12, <2>1 DEF CoroutineInv
  <2>. QED BY <2>2, <2>3, <2>4 DEF CoroutineInv
<1>13. ASSUME NEW w \in Workers, BeginRecovery(w) \/ EndRecovery(w) PROVE CoroutineInv'
  <2>1. phase[w] # "run" /\ calls' = calls /\ pc' = pc /\ \A v \in Workers \ {w} : phase'[v] = phase[v]
    BY <1>13 DEF BeginRecovery, EndRecovery, TypeOK
  <2>2. CallsOf(w) = {}
    BY <1>1, <1>13 DEF BeginRecovery, EndRecovery, CallsOf, CoroutineInv
  <2>3. \A a \in Actions : pc'[a] \in Underway => journal[a].run # w /\ pc'[a] = pc[a]
    BY <2>1 DEF CoroutineInv
  <2>4. calls' = calls \ CallsOf(w) /\ \A a \in Actions : journal[a].run # w => pc'[a] = pc[a]
    BY <2>1, <2>2
  <2>5. \A v \in Workers \ {w} : phase'[v] = phase[v]
    BY <2>1
  <2>. QED BY <1>12, <2>3, <2>4, <2>5
<1>14. ASSUME NEW w \in Workers, EndRun(w) \/ Crash(w) PROVE CoroutineInv'
  <2>1. /\ \A v \in Workers \ {w} : phase'[v] = phase[v]
        /\ calls' = calls \ CallsOf(w)
        /\ pc' = Abandoned(w)
    BY <1>14 DEF EndRun, Crash, TypeOK
  <2>2. \A a \in Actions : pc'[a] \in Underway => journal[a].run # w /\ pc'[a] = pc[a]
    BY <2>1 DEF Abandoned, Underway
  <2>3. \A a \in Actions : journal[a].run # w => pc'[a] = pc[a]
    BY <2>1 DEF Abandoned
  <2>. QED BY <1>12, <2>1, <2>2, <2>3
<1>15. CASE UNCHANGED vars
  BY <1>2, <1>15 DEF vars
<1>16. ASSUME NEW c \in calls, Return(c) PROVE CoroutineInv'
  BY <1>7, <1>8, <1>16 DEF Return
<1>17. ASSUME NEW a \in Actions, Plan(a) PROVE CoroutineInv'
  BY <1>4, <1>5, <1>6, <1>17 DEF Plan
<1>. QED
  BY <1>9, <1>10, <1>11, <1>13, <1>14, <1>15, <1>16, <1>17 DEF Next, Recover

-----------------------------------------------------------------------------
(* The inductive strengthening of LedgerAdmitsUndo: documents say what restores them, the
   gate of a run is the one its documents were journaled under and knows their addresses,
   and a resource was only changed at an address of allow_write_paths. *)
Known(g, a) == /\ g.policy = journal[a].policy
               /\ journal[a].url \in IF journal[a].kind = "DELETE_CREATED" THEN g.owns ELSE g.snaps

UndoInv ==
    /\ \A w \in Workers : gate[w].owns \subseteq CreatedUrls
    /\ \A a \in Actions : Journaled(a) =>
          \/ journal[a].kind = "DELETE_CREATED" /\ journal[a].verb = "DELETE"
          \/ /\ journal[a].kind = "RESTORE_SNAPSHOT" /\ journal[a].verb \in {"PUT", "PATCH"}
             /\ journal[a].url \in ExistingUrls
    /\ \A a \in Actions : pc[a] \in Underway => Known(gate[journal[a].run], a)
    /\ \A a \in Actions : WriteSent(a) =>
          /\ Journaled(a)
          /\ journal[a].kind = "RESTORE_SNAPSHOT" => journal[a].url \in journal[a].policy.paths

LEMMA UndoInvAdmits == TypeOK /\ UndoInv => LedgerAdmitsUndo
<1>. SUFFICES ASSUME TypeOK, UndoInv, NEW a \in Actions, WriteSent(a)
              PROVE  /\ Permits(ReplayGate(a), Undo(a)) <=> Allows(journal[a].policy, Undo(a))
                     /\ pc[a] \in {"mutating", "mutated"} =>
                           (Permits(gate[journal[a].run], Undo(a)) <=> Allows(journal[a].policy, Undo(a)))
  BY DEF LedgerAdmitsUndo
<1>1. \/ journal[a].kind = "DELETE_CREATED" /\ journal[a].verb = "DELETE"
      \/ /\ journal[a].kind = "RESTORE_SNAPSHOT" /\ journal[a].verb \in {"PUT", "PATCH"}
         /\ journal[a].url \in journal[a].policy.paths
  BY DEF UndoInv
<1>2. Undo(a).verb = journal[a].verb /\ Undo(a).url = journal[a].url
  BY DEF Undo
<1>3. ASSUME NEW g, Known(g, a) PROVE Permits(g, Undo(a)) <=> Allows(journal[a].policy, Undo(a))
  BY <1>1, <1>2, <1>3 DEF Known, Permits, Accounted
<1>4. Known(ReplayGate(a), a)
  BY <1>1 DEF Known, ReplayGate
<1>5. pc[a] \in {"mutating", "mutated"} => Known(gate[journal[a].run], a)
  BY DEF UndoInv, Underway
<1>. QED BY <1>3, <1>4, <1>5

(* No step but SendMutation lets a write out, and that one asks the gate. *)
LEMMA SentByGate ==
  ASSUME TypeOK, WriteAheadInv, CoroutineInv, [Next]_vars, NEW a \in Actions, WriteSent(a)'
  PROVE  \/ WriteSent(a)
         \/ pc[a] = "journaled" /\ \E r \in Mutations(a) : Permits(gate[journal[a].run], r)
<1>. DEFINE Out == {"mutating", "mutated", "cleaning"}
<1>1. /\ \A c \in calls : c.act \in Actions /\ c.what \in {"mutate", "restore"} /\ c.by \in Workers
      /\ \A c \in calls : c.what = "mutate" => pc[c.act] = "mutating"
      /\ \A m \in late : m.act \in Actions
      /\ applied[a] \in Nat /\ pc \in [Actions -> PlanState]
  BY DEF TypeOK, Call, CoroutineInv
<1>2. ASSUME applied' = applied, pc'[a] \in Out => pc[a] \in Out,
             \A m \in late' : m \in late \/ (m.what = "mutate" => pc[m.act] \in Out)
      PROVE  WriteSent(a)
  BY <1>2 DEF WriteSent
<1>3. ASSUME NEW b \in Actions, SendMutation(b)
      PROVE  \/ WriteSent(a)
             \/ pc[a] = "journaled" /\ \E r \in Mutations(a) : Permits(gate[journal[a].run], r)
  <2>1. CASE calls' = calls
    BY <1>1, <1>2, <1>3, <2>1 DEF SendMutation, WriteSent
  <2>2. CASE b # a
    BY <1>1, <1>2, <1>3, <2>2 DEF SendMutation, WriteSent
  <2>3. CASE b = a /\ \E r \in Mutations(a) : Permits(gate[journal[a].run], r)
    BY <1>3, <2>3 DEF SendMutation
  <2>4. (\E r \in Mutations(b) : Permits(gate[journal[b].run], r)) \/ pc' = [pc EXCEPT ![b] = "done"]
    BY <1>3 DEF SendMutation
  <2>5. CASE pc' = [pc EXCEPT ![b] = "done"]
    BY <1>1, <1>2, <1>3, <2>5 DEF SendMutation, WriteSent
  <2>. QED BY <2>2, <2>3, <2>4, <2>5
<1>4. ASSUME NEW b \in Actions, Cleanup(b) PROVE WriteSent(a)
  BY <1>1, <1>2, <1>4 DEF Cleanup
<1>5. ASSUME NEW b \in Actions, NEW w \in Workers, NEW r \in Restorations,
             CreateCanary(w, b, r) \/ ModifyWithSnapshot(w, b, r)
      PROVE  WriteSent(a)
  <2>1. UNCHANGED <<applied, late>> /\ pc'[b] = "journaled" /\ \A d \in Actions \ {b} : pc'[d] = pc[d]
    BY <1>5, CreateShape
  <2>. QED BY <1>2, <2>1
<1>6. ASSUME NEW c \in calls, Return(c) PROVE WriteSent(a)
  <2>1. /\ applied' = applied /\ late' \subseteq late \cup Orphans({c})
        /\ pc'[a] \in Out => pc[a] \in Out
    BY <1>1, <1>6 DEF Return, EndMutation, EndCleanup, EndReplay
  <2>2. \A m \in Orphans({c}) : m.what = "mutate" => pc[m.act] = "mutating"
    BY <1>1 DEF Orphans
  <2>. QED BY <1>2, <2>1, <2>2
<1>7. ASSUME NEW c \in calls, Serve(c) PROVE WriteSent(a)
  <2>1. UNCHANGED <<late, pc>>
    BY <1>7, ServeShape
  <2>2. applied'[a] = applied[a] \/ (c.act = a /\ c.what = "mutate")
    BY <1>1, <1>7 DEF Serve, ServeWrite, ServeGet, Apply, TypeOK
  <2>. QED BY <1>1, <2>1, <2>2 DEF WriteSent
<1>8. ASSUME NEW m \in late, LateWrite(m) PROVE WriteSent(a)
  <2>1. late' \subseteq late /\ pc' = pc
    BY <1>8 DEF LateWrite
  <2>2. applied'[a] = applied[a] \/ (m.act = a /\ m.what = "mutate")
    BY <1>1, <1>8 DEF LateWrite, Apply, TypeOK
  <2>. QED BY <2>1, <2>2 DEF WriteSent
<1>9. ASSUME NEW w \in Workers, BeginRecovery(w) \/ Recover(w) PROVE WriteSent(a)
  BY <1>2, <1>9 DEF BeginRecovery, Recover, ReplayNext, EndRecovery
<1>10. ASSUME NEW w \in Workers, EndRun(w) \/ Crash(w) PROVE WriteSent(a)
  <2>1. /\ applied' = applied /\ late' \subseteq late \cup Orphans(CallsOf(w))
        /\ pc'[a] \in Out => pc[a] \in Out
    BY <1>10 DEF EndRun, Crash, Abandoned
  <2>2. \A m \in Orphans(CallsOf(w)) : m.what = "mutate" => pc[m.act] = "mutating"
    BY <1>1 DEF Orphans, CallsOf
  <2>. QED BY <1>2, <2>1, <2>2
<1>11. CASE UNCHANGED vars
  BY <1>2, <1>11 DEF vars
<1>12. ASSUME NEW b \in Actions, Plan(b)
       PROVE  \/ WriteSent(a)
              \/ pc[a] = "journaled" /\ \E r \in Mutations(a) : Permits(gate[journal[a].run], r)
  BY <1>3, <1>4, <1>5, <1>12 DEF Plan
<1>. QED BY <1>6, <1>7, <1>8, <1>9, <1>10, <1>11, <1>12 DEF Next

(* A write that changes a resource passes the gate only in allow_write_paths: what the
   ledger owns are canaries. *)
LEMMA GatedPath ==
  ASSUME TypeOK, UndoInv, NEW a \in Actions, pc[a] = "journaled", Journaled(a),
         journal[a].kind = "RESTORE_SNAPSHOT",
         NEW r \in Mutations(a), Permits(gate[journal[a].run], r)
  PROVE  journal[a].url \in journal[a].policy.paths
<1>1. r.url = journal[a].url
  BY DEF Mutations
<1>2. journal[a].run \in Workers /\ journal[a].url \in ExistingUrls
  BY DEF TypeOK, Entry, UndoInv
<1>3. r.url \notin gate[journal[a].run].owns
  BY <1>1, <1>2, JournalAssumption DEF UndoInv
<1>4. gate[journal[a].run].policy = journal[a].policy
  BY DEF UndoInv, Underway, Known
<1>. QED BY <1>1, <1>3, <1>4 DEF Permits, Accounted

(* Marking a document makes no other one. *)
LEMMA MarkingAddsNone ==
  ASSUME NEW j \in [Actions -> Entry], NEW a \in Actions, j[a].status # "ABSENT",
         NEW b \in Actions
  PROVE  /\ MarkFailed(j, a)[b].status # "ABSENT" => j[b].status # "ABSENT"
         /\ MarkCompleted(j, a)[b].status # "ABSENT" => j[b].status # "ABSENT"
<1>1. CASE b = a
  BY <1>1
<1>2. CASE b # a
  <2>1. MarkFailed(j, a)[b] = j[b] /\ MarkCompleted(j, a)[b] = j[b]
    BY <1>2, MarkLemma
  <2>. QED BY <2>1
<1>. QED BY <1>1, <1>2

LEMMA UndoStep == TypeOK /\ WriteAheadInv /\ CoroutineInv /\ UndoInv /\ [Next]_vars => UndoInv'
<1>. SUFFICES ASSUME TypeOK, WriteAheadInv, CoroutineInv, UndoInv, [Next]_vars PROVE UndoInv'
  OBVIOUS
<1>1. \A a \in Actions : Journaled(a) =>
         /\ Journaled(a)' /\ journal'[a].url = journal[a].url /\ journal'[a].kind = journal[a].kind
         /\ journal'[a].run = journal[a].run /\ journal'[a].verb = journal[a].verb
         /\ journal'[a].policy = journal[a].policy
  BY DocumentsFixed, JournalGrows
<1>2. /\ \A a \in Actions : pc[a] # "none" => Journaled(a)
      /\ \A a \in Actions : journal[a].run \in Workers
      /\ \A c \in calls : c.act \in Actions
      /\ journal \in [Actions -> Entry]
  BY DEF TypeOK, Call, Entry, WriteAheadInv
(* The last conjunct is one of the writes, whatever the step. *)
<1>3. ASSUME NEW a \in Actions, WriteSent(a)'
      PROVE  /\ Journaled(a)'
             /\ journal'[a].kind = "RESTORE_SNAPSHOT" => journal'[a].url \in journal'[a].policy.paths
  <2>1. CASE WriteSent(a)
    BY <1>1, <2>1 DEF UndoInv
  <2>2. CASE pc[a] = "journaled" /\ \E r \in Mutations(a) : Permits(gate[journal[a].run], r)
    BY <1>1, <1>2, <2>2, GatedPath
  <2>. QED BY <1>3, <2>1, <2>2, SentByGate
(* What a step keeps: the coroutines it leaves underway still have their gate. *)
<1>. DEFINE Kept(a) == LET w == journal[a].run IN
                       /\ pc[a] \in Underway /\ gate'[w].policy = gate[w].policy
                       /\ gate[w].owns \subseteq gate'[w].owns
                       /\ gate[w].snaps \subseteq gate'[w].snaps
<1>4. ASSUME NEW a \in Actions, Kept(a) PROVE Known(gate[journal[a].run], a)'
  <2>1. Journaled(a) /\ Known(gate[journal[a].run], a)
    BY <1>2, <1>4 DEF UndoInv, Underway
  <2>. QED BY <1>1, <1>4, <2>1 DEF Known
<1>5. ASSUME \A w \in Workers : gate'[w].owns \subseteq CreatedUrls,
             \A a \in Actions : Journaled(a)' => Journaled(a),
             \A a \in Actions : pc'[a] \in Underway => Kept(a)
      PROVE  UndoInv'
  <2>1. \A a \in Actions : Journaled(a)' =>
          \/ journal'[a].kind = "DELETE_CREATED" /\ journal'[a].verb = "DELETE"
          \/ /\ journal'[a].kind = "RESTORE_SNAPSHOT" /\ journal'[a].verb \in {"PUT", "PATCH"}
             /\ journal'[a].url \in ExistingUrls
    BY <1>1, <1>5 DEF UndoInv
  <2>2. \A a \in Actions : pc'[a] \in Underway => Known(gate[journal[a].run], a)'
    BY <1>4, <1>5
  <2>. QED BY <1>3, <1>5, <2>1, <2>2 DEF UndoInv
<1>6. ASSUME gate' = gate, \A a \in Actions : pc'[a] \in Underway => pc[a] \in Underway,
             \A a \in Actions : Journaled(a)' => Journaled(a)
      PROVE  UndoInv'
  BY <1>5, <1>6 DEF UndoInv
<1>. HIDE DEF Kept
<1>7. ASSUME NEW a \in Actions, NEW w \in Workers, NEW r \in Restorations,
             CreateCanary(w, a, r) \/ ModifyWithSnapshot(w, a, r)
      PROVE  UndoInv'
  <2>1. /\ journal'[a].url = r.url /\ journal'[a].run = w /\ journal'[a].verb = r.verb
        /\ journal'[a].policy = gate[w].policy /\ gate'[w].policy = gate[w].policy
        /\ \/ /\ r.verb = "DELETE" /\ r.url \in gate'[w].owns /\ journal'[a].kind = "DELETE_CREATED"
           \/ /\ r.url \in ExistingUrls /\ r.verb \in {"PUT", "PATCH"} /\ r.url \in gate'[w].snaps
              /\ journal'[a].kind = "RESTORE_SNAPSHOT"
    BY <1>7, CreateShape
  <2>2. \A v \in Workers : /\ gate'[v].policy = gate[v].policy
                           /\ gate[v].owns \subseteq gate'[v].owns
                           /\ gate[v].snaps \subseteq gate'[v].snaps
                           /\ gate'[v].owns \subseteq gate[v].owns \cup CreatedUrls
    BY <1>7, CreateShape
  <2>3. \A b \in Actions \ {a} : pc'[b] = pc[b] /\ journal'[b] = journal[b]
    BY <1>7, CreateShape
  <2>4. \A v \in Workers : gate'[v].owns \subseteq CreatedUrls
    BY <2>2 DEF UndoInv
  <2>5. \A b \in Actions : Journaled(b)' =>
          \/ journal'[b].kind = "DELETE_CREATED" /\ journal'[b].verb = "DELETE"
          \/ /\ journal'[b].kind = "RESTORE_SNAPSHOT" /\ journal'[b].verb \in {"PUT", "PATCH"}
             /\ journal'[b].url \in ExistingUrls
    BY <2>1, <2>3 DEF UndoInv, Journaled
  <2>6. Known(gate[journal[a].run], a)'
    BY <2>1 DEF Known
  <2>7. \A b \in Actions \ {a} : pc'[b] \in Underway => Known(gate[journal[b].run], b)'
    BY <1>2, <1>4, <2>2, <2>3 DEF Kept
  <2>8. \A b \in Actions : pc'[b] \in Underway => Known(gate[journal[b].run], b)'
    BY <2>6, <2>7
  <2>. QED BY <1>3, <2>4, <2>5, <2>8 DEF UndoInv
<1>8. ASSUME NEW a \in Actions, SendMutation(a) \/ Cleanup(a) PROVE UndoInv'
  <2>1. gate' = gate /\ \A b \in Actions : pc'[b] \in Underway => pc[b] \in Underway
    BY <1>8 DEF SendMutation, Cleanup, TypeOK, Underway
  <2>2. journal' = journal \/ journal' = MarkFailed(journal, a)
    BY <1>8 DEF SendMutation, Cleanup
  <2>3. Journaled(a)
    BY <1>2, <1>8 DEF SendMutation, Cleanup
  <2>4. \A b \in Actions : Journaled(b)' => Journaled(b)
    BY <1>2, <2>2, <2>3, MarkingAddsNone DEF Journaled
  <2>. QED BY <1>6, <2>1, <2>4
<1>9. ASSUME NEW c \in calls, Return(c) PROVE UndoInv'
  <2>1. c.what = "mutate" => pc[c.act] = "mutating"
    BY DEF CoroutineInv
  <2>2. gate' = gate /\ \A b \in Actions : pc'[b] \in Underway => pc[b] \in Underway
    BY <1>2, <1>9, <2>1 DEF Return, EndMutation, EndCleanup, EndReplay, TypeOK, Underway
  <2>3. \/ journal' = journal \/ journal' = MarkFailed(journal, c.act)
        \/ journal' = MarkCompleted(journal, c.act)
    BY <1>9 DEF Return, EndMutation, EndCleanup, EndReplay, Marked
  <2>4. Journaled(c.act)
    BY DEF WriteAheadInv, WriteAhead
  <2>5. \A b \in Actions : Journaled(b)' => Journaled(b)
    BY <1>2, <2>3, <2>4, MarkingAddsNone DEF Journaled
  <2>. QED BY <1>6, <2>2, <2>5
<1>10. ASSUME NEW c \in calls, Serve(c) PROVE UndoInv'
  BY <1>6, <1>10, ServeShape DEF Journaled
<1>11. ASSUME NEW m \in late, LateWrite(m) PROVE UndoInv'
  BY <1>6, <1>11 DEF LateWrite, Journaled
<1>12. ASSUME NEW w \in Workers, BeginRecovery(w) PROVE UndoInv'
  BY <1>6, <1>12 DEF BeginRecovery, Journaled
<1>13. ASSUME NEW w \in Workers, ReplayNext(w) PROVE UndoInv'
  <2>1. UNCHANGED <<gate, pc>>
    BY <1>13 DEF ReplayNext
  <2>2. PICK b \in First(todo[w]) : journal' = journal \/ journal' = MarkFailed(journal, b)
    BY <1>13 DEF ReplayNext
  <2>3. b \in Actions /\ Journaled(b)
    BY DEF First, TypeOK, WriteAheadInv
  <2>4. \A d \in Actions : Journaled(d)' => Journaled(d)
    BY <1>2, <2>2, <2>3, MarkingAddsNone DEF Journaled
  <2>. QED BY <1>6, <2>1, <2>4
(* A worker gets another gate: it has no coroutine underway, before or after. *)
<1>14. ASSUME NEW w \in Workers, EndRecovery(w) \/ EndRun(w) \/ Crash(w) PROVE UndoInv'
  <2>1. /\ journal' = journal /\ \A v \in Workers \ {w} : gate'[v] = gate[v]
        /\ gate'[w].owns = {} \/ gate'[w] = gate[w]
    BY <1>14 DEF EndRecovery, EndRun, Crash, NoGate, GateOf, TypeOK
  <2>2. \A a \in Actions : pc'[a] \in Underway => journal[a].run # w /\ pc[a] \in Underway
    <3>1. CASE EndRecovery(w)
      BY <3>1 DEF EndRecovery, CoroutineInv
    <3>2. CASE EndRun(w) \/ Crash(w)
      BY <3>2 DEF EndRun, Crash, Abandoned, Underway
    <3>. QED BY <1>14, <3>1, <3>2
  <2>3. \A a \in Actions : pc'[a] \in Underway => Kept(a)
    BY <1>2, <2>1, <2>2 DEF Kept
  <2>4. \A v \in Workers : gate'[v].owns \subseteq CreatedUrls
    BY <2>1 DEF UndoInv
  <2>. QED BY <1>5, <2>1, <2>3, <2>4 DEF Journaled
<1>15. CASE UNCHANGED vars
  BY <1>6, <1>15 DEF vars, Journaled
<1>16. ASSUME NEW a \in Actions, Plan(a) PROVE UndoInv'
  BY <1>7, <1>8, <1>16 DEF Plan
<1>. QED BY <1>9, <1>10, <1>11, <1>12, <1>13, <1>14, <1>15, <1>16 DEF Next, Recover

(* For any policies, workers, late writes, redirects and crashes: once a write has passed
   the gate, the run's gate and every gate a replay builds (worker/cli.py:56-61) answer its
   restoration as the frozen policy's lists do; the ledger's rules (gate.py:234-252) never
   refuse it.  That the lists allow it is not promised: see EveryWriteCanBeUndone. *)
THEOREM LedgerAlwaysAdmitsUndo == Spec => []LedgerAdmitsUndo
<1>1. Init => WriteAheadInv /\ CoroutineInv
  BY DEF Init, WriteAheadInv, WriteAhead, Dirty, CoroutineInv, Underway
<1>2. Init => UndoInv
  BY DEF Init, UndoInv, Underway, WriteSent, NoGate, GateOf, NoPolicy, NoEntry, Journaled
<1>. QED
  BY <1>1, <1>2, WriteAheadStep, CoroutineStep, UndoStep, UndoInvAdmits, TypeCorrect, PTL DEF Spec

-----------------------------------------------------------------------------
(* What DirtyIsUnresolved and the refinement of RestoreContract depend on: only a
   restoration may be served after its sender gave up, the target redirects a write after
   carrying it out, a URL has one open action, and one worker uses the directory. *)
Careful ==
    /\ LateDelivery \subseteq {"restore"} /\ ~EarlyRedirects /\ ~SharedUrls
    /\ \A v, w \in Workers : v = w

(* A document restores what was there before the scans, and no URL has two of them open. *)
DocumentsInv ==
    /\ \A a \in Actions : Journaled(a) =>
          /\ journal[a].restore = Baseline(journal[a].url)
          /\ journal[a].kind = "DELETE_CREATED" => journal[a].url \in CreatedUrls
    /\ \A a, b \in Unresolved(journal) : journal[a].url = journal[b].url => a = b

(* Coroutines, calls and replay lists are about unresolved actions. *)
ControlInv ==
    /\ \A a \in Actions : pc[a] \in Underway => a \in Unresolved(journal)
    /\ \A w \in Workers : /\ todo[w] \subseteq Unresolved(journal)
                          /\ phase[w] # "recover" => todo[w] = {}
    /\ \A m \in late : m.what = "restore"
    /\ \A c, d \in calls : c.act = d.act => c = d
    /\ \A c \in calls :
          /\ c.act \in Unresolved(journal)
          /\ phase[c.by] = "recover" => c.act \in todo[c.by] /\ calls = {c}

(* A restoration that was carried out has restored. *)
RestoredInv ==
    \A c \in calls : c.what = "restore" /\ (c.method = "GET" \/ RestoreSucceeded(c)) =>
        journal[c.act].url \notin Dirty

RecoveryInv == DocumentsInv /\ ControlInv /\ RestoredInv /\ DirtyIsUnresolved

SafeInv == TypeOK /\ WriteAheadInv /\ CoroutineInv /\ RecoveryInv

(* Which documents count as unresolved after a method of the journal. *)
LEMMA UnresolvedAfter ==
  ASSUME NEW j \in [Actions -> Entry], NEW a \in Actions
  PROVE  /\ Unresolved(MarkFailed(j, a)) = Unresolved(j) \cup {a}
         /\ Unresolved(MarkCompleted(j, a)) = Unresolved(j) \ {a}
<1>1. MarkFailed(j, a)[a].status = "FAILED" /\ \A b \in Actions \ {a} : MarkFailed(j, a)[b] = j[b]
  BY MarkLemma
<1>2. MarkCompleted(j, a)[a].status = "COMPLETED" /\ \A b \in Actions \ {a} : MarkCompleted(j, a)[b] = j[b]
  BY MarkLemma
<1>. QED BY <1>1, <1>2 DEF Unresolved

(* How a write that takes effect changes the set of dirty URLs. *)
LEMMA ApplyShape ==
  ASSUME TypeOK, DocumentsInv, NEW a \in Actions, Journaled(a), NEW what, Apply(a, what)
  PROVE  /\ what = "mutate" => Dirty' = Dirty \cup {journal[a].url}
         /\ what # "mutate" => Dirty' = Dirty \ {journal[a].url}
<1>1. /\ journal[a].url \in Urls /\ journal[a].restore = Baseline(journal[a].url)
      /\ target' = [target EXCEPT ![journal[a].url] = Written(a, what)]
  BY DEF TypeOK, Entry, DocumentsInv, Apply
<1>2. /\ target'[journal[a].url] = Written(a, what)
      /\ \A u \in Urls \ {journal[a].url} : target'[u] = target[u]
  BY <1>1 DEF TypeOK
<1>3. what = "mutate" => Written(a, what) # Baseline(journal[a].url)
  BY JournalAssumption DEF Written, Baseline
<1>4. what # "mutate" => Written(a, what) = Baseline(journal[a].url)
  BY <1>1 DEF Written
<1>. QED BY <1>1, <1>2, <1>3, <1>4 DEF Dirty

(* How the journal changes: a failure is counted on what is unresolved, only a successful
   restoration completes an action, and only a new mutation appends one. *)
LEMMA JournalMoves ==
  ASSUME SafeInv, [Next]_vars
  PROVE  \/ journal' = journal
         \/ \E a \in Unresolved(journal) : journal' = MarkFailed(journal, a)
         \/ \E c \in calls : /\ c.what = "restore" /\ RestoreSucceeded(c)
                             /\ journal' = MarkCompleted(journal, c.act)
                             /\ target' = target /\ calls' = calls \ {c}
         \/ \E a \in Actions, w \in Workers, r \in Restorations :
               CreateCanary(w, a, r) \/ ModifyWithSnapshot(w, a, r)
<1>. USE DEF SafeInv, RecoveryInv
<1>1. ASSUME NEW a \in Actions, SendMutation(a) \/ Cleanup(a)
      PROVE  journal' = journal \/ \E b \in Unresolved(journal) : journal' = MarkFailed(journal, b)
  <2>1. CASE SendMutation(a)
    BY <2>1 DEF SendMutation
  <2>2. CASE Cleanup(a)
    <3>1. a \in Unresolved(journal)
      BY <2>2 DEF Cleanup, ControlInv, Underway
    <3>. QED BY <2>2, <3>1 DEF Cleanup
  <2>. QED BY <1>1, <2>1, <2>2
<1>2. ASSUME NEW c \in calls, Return(c)
      PROVE  \/ journal' = journal
             \/ \E b \in Unresolved(journal) : journal' = MarkFailed(journal, b)
             \/ /\ c.what = "restore" /\ RestoreSucceeded(c)
                /\ journal' = MarkCompleted(journal, c.act)
                /\ target' = target /\ calls' = calls \ {c}
  <2>1. c.act \in Unresolved(journal)
    BY DEF ControlInv
  <2>. QED BY <1>2, <2>1 DEF Return, EndMutation, EndCleanup, EndReplay, Marked
<1>3. ASSUME NEW w \in Workers, ReplayNext(w)
      PROVE  journal' = journal \/ \E b \in Unresolved(journal) : journal' = MarkFailed(journal, b)
  <2>1. First(todo[w]) \subseteq Unresolved(journal)
    BY DEF First, ControlInv
  <2>. QED BY <1>3, <2>1 DEF ReplayNext
<1>4. ASSUME NEW c \in calls, Serve(c) PROVE journal' = journal
  BY <1>4 DEF Serve, ServeWrite, ServeGet
<1>5. ASSUME NEW m \in late, LateWrite(m) PROVE journal' = journal
  BY <1>5 DEF LateWrite
<1>6. ASSUME NEW w \in Workers, BeginRecovery(w) \/ EndRecovery(w) \/ EndRun(w) \/ Crash(w)
      PROVE  journal' = journal
  BY <1>6 DEF BeginRecovery, EndRecovery, EndRun, Crash
<1>7. CASE UNCHANGED vars
  BY <1>7 DEF vars
<1>8. CASE \E a \in Actions : Plan(a)
  <2>1. PICK a \in Actions : Plan(a)
    BY <1>8
  <2>2. CASE SendMutation(a) \/ Cleanup(a)
    BY <2>2, <1>1
  <2>3. CASE \E w \in Workers, r \in Restorations : CreateCanary(w, a, r) \/ ModifyWithSnapshot(w, a, r)
    BY <2>3
  <2>. QED BY <2>1, <2>2, <2>3 DEF Plan
<1>9. CASE \E c \in calls : Serve(c) \/ Return(c)
  <2>1. PICK c \in calls : Serve(c) \/ Return(c)
    BY <1>9
  <2>. QED BY <1>2, <1>4, <2>1
<1>. QED BY <1>3, <1>5, <1>6, <1>7, <1>8, <1>9 DEF Next, Recover

LEMMA DocumentsStep == ~SharedUrls /\ SafeInv /\ [Next]_vars => DocumentsInv'
<1>. SUFFICES ASSUME ~SharedUrls, SafeInv, [Next]_vars PROVE DocumentsInv'
  OBVIOUS
<1>. USE DEF SafeInv, RecoveryInv
<1>1. journal \in [Actions -> Entry] /\ Unresolved(journal) \subseteq Actions
  BY DEF TypeOK, Unresolved
<1>2. ASSUME NEW b \in Actions, Journaled(b)
      PROVE  /\ journal'[b].url = journal[b].url
             /\ journal'[b].restore = Baseline(journal'[b].url)
             /\ journal'[b].kind = "DELETE_CREATED" => journal'[b].url \in CreatedUrls
  BY <1>2, DocumentsFixed DEF DocumentsInv
<1>3. \A b \in Unresolved(journal) : Journaled(b)
  BY DEF Unresolved, Journaled
(* A method that marks an unresolved document leaves the others. *)
<1>4. ASSUME Unresolved(journal)' \subseteq Unresolved(journal),
             \A b \in Actions : Journaled(b)' => Journaled(b)
      PROVE  DocumentsInv'
  <2>1. \A a, b \in Unresolved(journal)' : journal'[a].url = journal'[b].url => a = b
    BY <1>1, <1>2, <1>3, <1>4 DEF DocumentsInv
  <2>2. \A a \in Actions : Journaled(a)' =>
          /\ journal'[a].restore = Baseline(journal'[a].url)
          /\ journal'[a].kind = "DELETE_CREATED" => journal'[a].url \in CreatedUrls
    BY <1>2, <1>4
  <2>3. \A a \in Actions : Baseline(journal[a].url)' = Baseline(journal'[a].url)
    BY DEF Baseline
  <2>. QED BY <2>1, <2>2, <2>3 DEF DocumentsInv
<1>5. CASE journal' = journal
  BY <1>4, <1>5 DEF Journaled
<1>6. ASSUME NEW a \in Unresolved(journal),
             journal' = MarkFailed(journal, a) \/ journal' = MarkCompleted(journal, a)
      PROVE  DocumentsInv'
  <2>1. Unresolved(journal)' \subseteq Unresolved(journal)
    BY <1>1, <1>6, UnresolvedAfter
  <2>2. \A b \in Actions \ {a} : journal'[b] = journal[b]
    BY <1>1, <1>6, MarkLemma
  <2>3. \A b \in Actions : Journaled(b)' => Journaled(b)
    BY <1>3, <2>2 DEF Journaled
  <2>. QED BY <1>4, <2>1, <2>3
<1>7. ASSUME NEW a \in Actions, NEW w \in Workers, NEW r \in Restorations,
             CreateCanary(w, a, r) \/ ModifyWithSnapshot(w, a, r)
      PROVE  DocumentsInv'
  <2>1. /\ journal'[a].url = r.url /\ journal'[a].status = "PENDING" /\ journal[a].status = "ABSENT"
        /\ \/ r.url \in CreatedUrls /\ journal'[a].kind = "DELETE_CREATED" /\ journal'[a].restore = NoResource
           \/ r.url \in ExistingUrls /\ journal'[a].kind = "RESTORE_SNAPSHOT" /\ journal'[a].restore = target[r.url]
    BY <1>7, CreateShape
  <2>2. \A b \in Actions \ {a} : journal'[b] = journal[b]
    BY <1>7, CreateShape
  <2>3. \A b \in Unresolved(journal) : journal[b].url # r.url
    BY <1>7 DEF CreateCanary, ModifyWithSnapshot, MayMutate
  <2>4. target[r.url] = Baseline(r.url)
    BY <2>3 DEF Restorations, DirtyIsUnresolved, Dirty
  <2>5. /\ journal'[a].restore = Baseline(journal'[a].url)
        /\ journal'[a].kind = "DELETE_CREATED" => journal'[a].url \in CreatedUrls
    BY <2>1, <2>4, JournalAssumption DEF Baseline
  <2>6. \A b \in Actions : Journaled(b)' => b = a \/ Journaled(b)
    BY <2>2 DEF Journaled
  <2>7. \A b \in Unresolved(journal)' : b = a \/ b \in Unresolved(journal)
    BY <2>2 DEF Unresolved
  <2>8. \A b, d \in Unresolved(journal)' : journal'[b].url = journal'[d].url => b = d
    BY <1>1, <1>2, <1>3, <2>1, <2>3, <2>7 DEF DocumentsInv
  <2>9. \A b \in Actions : Journaled(b)' =>
          /\ journal'[b].restore = Baseline(journal'[b].url)
          /\ journal'[b].kind = "DELETE_CREATED" => journal'[b].url \in CreatedUrls
    BY <1>2, <2>5, <2>6
  <2>. QED BY <2>8, <2>9 DEF DocumentsInv, Baseline
<1>8. ASSUME NEW c \in calls, journal' = MarkCompleted(journal, c.act) PROVE DocumentsInv'
  BY <1>6, <1>8 DEF ControlInv
<1>. QED BY <1>5, <1>6, <1>7, <1>8, JournalMoves

LEMMA ControlStep == Careful /\ SafeInv /\ [Next]_vars => ControlInv'
<1>. SUFFICES ASSUME Careful, SafeInv, [Next]_vars PROVE ControlInv'
  OBVIOUS
<1>. USE DEF SafeInv, RecoveryInv
<1>. DEFINE U == Unresolved(journal)
<1>1. /\ journal \in [Actions -> Entry] /\ U \subseteq Actions
      /\ \A c \in calls : c.act \in U /\ c.act \in Actions /\ c.by \in Workers
      /\ \A v, w \in Workers : v = w
      /\ \A a \in Actions : journal[a].run \in Workers /\ (pc[a] \in Underway => a \in U)
  BY DEF TypeOK, Unresolved, ControlInv, Careful, Entry, Call
<1>2. /\ \A a \in U : Unresolved(MarkFailed(journal, a)) = U
      /\ \A a \in U : Unresolved(MarkCompleted(journal, a)) = U \ {a}
  <2>. SUFFICES ASSUME NEW a \in U
                PROVE  /\ Unresolved(MarkFailed(journal, a)) = U
                       /\ Unresolved(MarkCompleted(journal, a)) = U \ {a}
    OBVIOUS
  <2>1. /\ Unresolved(MarkFailed(journal, a)) = U \cup {a}
        /\ Unresolved(MarkCompleted(journal, a)) = U \ {a}
    BY <1>1, UnresolvedAfter
  <2>. QED BY <2>1
<1>. DEFINE N == Unresolved(journal)'
<1>. HIDE DEF U, N
(* The conclusion, in terms of what the step leaves unresolved. *)
<1>3. SUFFICES /\ \A a \in Actions : pc'[a] \in Underway => a \in N
               /\ \A w \in Workers : todo'[w] \subseteq N /\ (phase'[w] # "recover" => todo'[w] = {})
               /\ \A m \in late' : m.what = "restore"
               /\ \A c, d \in calls' : c.act = d.act => c = d
               /\ \A c \in calls' : /\ c.act \in N
                                    /\ phase'[c.by] = "recover" => c.act \in todo'[c.by] /\ calls' = {c}
  BY DEF ControlInv, N
<1>. DEFINE Goal == /\ \A a \in Actions : pc'[a] \in Underway => a \in N
                    /\ \A w \in Workers : todo'[w] \subseteq N /\ (phase'[w] # "recover" => todo'[w] = {})
                    /\ \A m \in late' : m.what = "restore"
                    /\ \A c, d \in calls' : c.act = d.act => c = d
                    /\ \A c \in calls' : /\ c.act \in N
                                         /\ phase'[c.by] = "recover" => c.act \in todo'[c.by] /\ calls' = {c}
<1>4. SUFFICES Goal
  OBVIOUS
<1>5. /\ \A w \in Workers : todo[w] \subseteq U /\ (phase[w] # "recover" => todo[w] = {})
      /\ \A m \in late : m.what = "restore"
      /\ \A c, d \in calls : c.act = d.act => c = d
      /\ \A c \in calls : phase[c.by] = "recover" => c.act \in todo[c.by] /\ calls = {c}
  BY DEF ControlInv, U
<1>6. \A cs \in SUBSET calls : \A m \in Orphans(cs) : m.what = "restore"
  <2>1. \A cs \in SUBSET calls : \A m \in Orphans(cs) : m.what \in LateDelivery
    BY DEF Orphans
  <2>. QED BY <2>1 DEF Careful
<1>7. ASSUME UNCHANGED <<journal, calls, todo, phase, pc>>, \A m \in late' : m.what = "restore"
      PROVE  Goal
  BY <1>1, <1>5, <1>7 DEF N, U
<1>8. ASSUME NEW a \in Actions, NEW w \in Workers, NEW r \in Restorations,
             CreateCanary(w, a, r) \/ ModifyWithSnapshot(w, a, r)
      PROVE  Goal
  <2>1. /\ journal'[a].status = "PENDING" /\ \A b \in Actions \ {a} : journal'[b] = journal[b] /\ pc'[b] = pc[b]
        /\ UNCHANGED <<calls, late, phase, todo>>
    BY <1>8, CreateShape
  <2>2. U \subseteq N /\ a \in N
    BY <2>1 DEF U, N, Unresolved
  <2>. QED BY <1>1, <1>5, <2>1, <2>2
<1>9. ASSUME NEW a \in Actions, SendMutation(a) PROVE Goal
  <2>1. pc[a] = "journaled" /\ UNCHANGED <<journal, late, phase, todo>>
    BY <1>9 DEF SendMutation
  <2>2. N = U /\ a \in U
    BY <1>1, <2>1 DEF N, U, Underway
  <2>3. /\ pc'[a] \in {"done", "mutating"} /\ \A b \in Actions \ {a} : pc'[b] = pc[b]
    BY <1>9 DEF SendMutation, TypeOK
  <2>4. phase[journal[a].run] = "run" /\ \A c \in calls : c.act # a
    <3>1. phase[journal[a].run] = "run"
      BY <2>1 DEF CoroutineInv, Underway
    <3>2. \A c \in calls : phase[c.by] = "run"
      BY <1>1, <3>1
    <3>. QED BY <2>1, <3>1, <3>2 DEF CoroutineInv
  <2>5. \E n : /\ calls' = calls \/ calls' = calls \cup {n}
               /\ n.act = a /\ n.by = journal[a].run
    <3>. DEFINE n == NewCall(a, "mutate", journal[a].run)
    <3>1. n.act = a /\ n.by = journal[a].run
      BY <1>1, SentShape
    <3>2. calls' = calls \/ calls' = calls \cup {n}
      BY <1>9 DEF SendMutation
    <3>. HIDE DEF n
    <3>. QED BY <3>1, <3>2
  <2>. QED BY <1>1, <1>5, <2>1, <2>2, <2>3, <2>4, <2>5
<1>10. ASSUME NEW a \in Actions, Cleanup(a) PROVE Goal
  <2>1. pc[a] = "mutated" /\ UNCHANGED <<late, phase, todo>>
    BY <1>10 DEF Cleanup
  <2>2. a \in U
    BY <1>1, <2>1 DEF Underway
  <2>3. N = U
    BY <1>2, <1>10, <2>2 DEF Cleanup, N, U
  <2>4. pc'[a] \in {"done", "cleaning"} /\ \A b \in Actions \ {a} : pc'[b] = pc[b]
    BY <1>10 DEF Cleanup, TypeOK
  <2>5. phase[journal[a].run] = "run" /\ \A c \in calls : c.act # a
    <3>1. phase[journal[a].run] = "run"
      BY <2>1 DEF CoroutineInv, Underway
    <3>2. \A c \in calls : phase[c.by] = "run"
      BY <1>1, <3>1
    <3>. QED BY <2>1, <3>1, <3>2 DEF CoroutineInv
  <2>6. \E n : /\ calls' = calls \/ calls' = calls \cup {n}
               /\ n.act = a /\ n.by = journal[a].run
    <3>. DEFINE n == NewCall(a, "restore", journal[a].run)
    <3>1. n.act = a /\ n.by = journal[a].run
      BY <1>1, SentShape
    <3>2. calls' = calls \/ calls' = calls \cup {n}
      BY <1>10 DEF Cleanup
    <3>. HIDE DEF n
    <3>. QED BY <3>1, <3>2
  <2>. QED BY <1>1, <1>5, <2>1, <2>2, <2>3, <2>4, <2>5, <2>6
(* The end of a call: nothing else is about the action it may complete. *)
<1>11. ASSUME NEW c \in calls, Return(c) PROVE Goal
  <2>1. /\ calls' = calls \ {c} /\ phase' = phase
        /\ \A v \in Workers : todo'[v] \subseteq todo[v]
        /\ \A b \in Actions : pc'[b] \in Underway => pc[b] \in Underway
    <3>1. c.what = "mutate" => pc[c.act] = "mutating"
      BY DEF CoroutineInv
    <3>. QED BY <1>1, <1>11, <3>1 DEF Return, EndMutation, EndCleanup, EndReplay, TypeOK, Underway
  <2>2. late' \subseteq late \cup Orphans({c})
    BY <1>11 DEF Return, EndMutation, EndCleanup, EndReplay
  <2>3. \A m \in late' : m.what = "restore"
    BY <1>5, <1>6, <2>2
  <2>4. \A d \in calls' : d \in calls /\ d.act # c.act
    BY <1>5, <2>1
  <2>5. N = U \/ N = U \ {c.act}
    BY <1>1, <1>2, <1>11 DEF Return, EndMutation, EndCleanup, EndReplay, Marked, N, U
  <2>6. N # U => /\ pc'[c.act] \notin Underway
                 /\ \A v \in Workers : c.act \notin todo'[v]
    <3>1. CASE EndMutation(c, TRUE) \/ EndMutation(c, FALSE)
      BY <3>1 DEF EndMutation, N, U
    <3>2. CASE EndCleanup(c, TRUE) \/ EndCleanup(c, FALSE)
      BY <1>1, <1>5, <3>2 DEF EndCleanup, TypeOK, Underway
    <3>3. CASE EndReplay(c, TRUE) \/ EndReplay(c, FALSE)
      <4>1. phase[c.by] = "recover" /\ pc' = pc /\ c.act \notin todo'[c.by]
        BY <1>1, <3>3 DEF EndReplay, TypeOK
      <4>2. \A b \in Actions : pc[b] \notin Underway
        BY <1>1, <4>1 DEF CoroutineInv
      <4>. QED BY <1>1, <4>1, <4>2
    <3>. QED BY <1>11, <3>1, <3>2, <3>3 DEF Return
  <2>7. \A d \in calls' : phase[d.by] = "recover" => FALSE
    BY <1>5, <2>1
  <2>8. \A v \in Workers : todo'[v] \subseteq N
    BY <1>5, <2>1, <2>5, <2>6
  <2>9. \A b \in Actions : pc'[b] \in Underway => b \in N
    BY <1>1, <2>1, <2>5, <2>6
  <2>10. \A d \in calls' : d.act \in N
    BY <1>1, <2>4, <2>5
  <2>. QED BY <1>5, <2>1, <2>3, <2>4, <2>7, <2>8, <2>9, <2>10
<1>12. ASSUME NEW c \in calls, Serve(c) PROVE Goal
  <2>1. UNCHANGED <<journal, late, phase, todo, pc>>
    BY <1>12, ServeShape
  <2>2. PICK d \in Call : /\ calls' = (calls \ {c}) \cup {d}
                          /\ d.act = c.act /\ d.what = c.what /\ d.by = c.by
    BY <1>12, ServeShape
  <2>3. N = U
    BY <2>1 DEF N, U
  <2>. QED BY <1>1, <1>5, <2>1, <2>2, <2>3
<1>13. ASSUME NEW m \in late, LateWrite(m) PROVE Goal
  BY <1>5, <1>7, <1>13 DEF LateWrite
<1>14. ASSUME NEW w \in Workers, BeginRecovery(w) PROVE Goal
  <2>1. calls = {} /\ N = U
    BY <1>1, <1>14 DEF BeginRecovery, CoroutineInv, N, U
  <2>2. Pending(journal) \subseteq U
    BY DEF Pending, U
  <2>. QED BY <1>1, <1>5, <1>14, <2>1, <2>2 DEF BeginRecovery, TypeOK
<1>15. ASSUME NEW w \in Workers, ReplayNext(w) PROVE Goal
  <2>1. /\ phase[w] = "recover" /\ calls = {} /\ UNCHANGED <<late, phase, pc>>
    BY <1>1, <1>15 DEF ReplayNext, CallsOf
  <2>2. PICK a \in First(todo[w]) :
           \/ journal' = MarkFailed(journal, a) /\ todo' = [todo EXCEPT ![w] = @ \ {a}] /\ calls' = calls
           \/ journal' = journal /\ todo' = todo /\ calls' = calls \cup {NewCall(a, "restore", w)}
    BY <1>15 DEF ReplayNext
  <2>3. a \in todo[w] /\ a \in U /\ a \in Actions
    BY <1>1, <1>5 DEF First
  <2>4. N = U
    BY <1>2, <2>2, <2>3 DEF N, U
  <2>5. CASE todo' = [todo EXCEPT ![w] = @ \ {a}] /\ calls' = calls
    BY <1>1, <1>5, <2>1, <2>4, <2>5 DEF TypeOK
  <2>6. CASE todo' = todo /\ calls' = calls \cup {NewCall(a, "restore", w)}
    <3>. DEFINE n == NewCall(a, "restore", w)
    <3>1. n.act = a /\ n.by = w
      BY <2>3, SentShape
    <3>2. calls' = {n}
      BY <2>1, <2>6
    <3>. HIDE DEF n
    <3>. QED BY <1>1, <1>5, <2>1, <2>3, <2>4, <2>6, <3>1, <3>2
  <2>. QED BY <2>2, <2>5, <2>6
<1>16. ASSUME NEW w \in Workers, EndRecovery(w) PROVE Goal
  <2>1. calls = {} /\ todo[w] = {} /\ N = U /\ UNCHANGED <<late, calls, todo, pc>>
    BY <1>1, <1>16 DEF EndRecovery, CallsOf, N, U
  <2>. QED BY <1>1, <1>5, <2>1
<1>17. ASSUME NEW w \in Workers, EndRun(w) \/ Crash(w) PROVE Goal
  <2>1. /\ pc' = Abandoned(w) /\ calls' = {} /\ N = U
        /\ todo'[w] = {} /\ late' \subseteq late \cup Orphans(CallsOf(w))
    <3>1. CallsOf(w) = calls
      BY <1>1 DEF CallsOf
    <3>2. todo'[w] = {}
      BY <1>5, <1>17 DEF EndRun, Crash, TypeOK
    <3>. QED BY <1>17, <3>1, <3>2 DEF EndRun, Crash, N, U
  <2>2. \A a \in Actions : pc'[a] \notin Underway
    <3>1. \A a \in Actions : journal[a].run = w
      BY <1>1
    <3>. QED BY <2>1, <3>1 DEF Abandoned, Underway
  <2>3. \A m \in late' : m.what = "restore"
    BY <1>5, <1>6, <2>1 DEF CallsOf
  <2>. QED BY <1>1, <2>1, <2>2, <2>3
<1>18. CASE UNCHANGED vars
  BY <1>5, <1>7, <1>18 DEF vars
<1>. HIDE DEF Goal
<1>19. ASSUME NEW a \in Actions, Plan(a) PROVE Goal
  BY <1>8, <1>9, <1>10, <1>19 DEF Plan
<1>. QED BY <1>11, <1>12, <1>13, <1>14, <1>15, <1>16, <1>17, <1>18, <1>19 DEF Next, Recover

LEMMA RestoredStep == Careful /\ SafeInv /\ [Next]_vars => RestoredInv'
<1>. SUFFICES ASSUME Careful, SafeInv, [Next]_vars PROVE RestoredInv'
  OBVIOUS
<1>. USE DEF SafeInv, RecoveryInv
<1>1. /\ \A c \in calls : /\ c.act \in Actions /\ Journaled(c.act)
                          /\ journal'[c.act].url = journal[c.act].url
                          /\ journal'[c.act].kind = journal[c.act].kind
      /\ \A c, d \in calls : c.act = d.act => c = d
      /\ \A m \in late : m.act \in Actions /\ Journaled(m.act) /\ m.what = "restore"
  BY DocumentsFixed DEF TypeOK, Call, WriteAheadInv, WriteAhead, ControlInv
(* A step that dirties nothing and whose new calls are unserved. *)
<1>2. ASSUME Dirty' \subseteq Dirty,
             \A c \in calls' : c \in calls \/ (c.st = "sent" /\ c.method = "WRITE")
      PROVE  RestoredInv'
  <2>1. ASSUME NEW c \in calls', c.what = "restore", c.method = "GET" \/ RestoreSucceeded(c)'
        PROVE  journal'[c.act].url \notin Dirty'
    <3>1. c \in calls
      BY <1>2, <2>1 DEF RestoreSucceeded
    <3>2. RestoreSucceeded(c)' <=> RestoreSucceeded(c)
      BY <1>1, <3>1 DEF RestoreSucceeded
    <3>. QED BY <1>1, <1>2, <2>1, <3>1, <3>2 DEF RestoredInv
  <2>. QED BY <2>1 DEF RestoredInv
<1>3. ASSUME UNCHANGED target, calls' \subseteq calls PROVE RestoredInv'
  BY <1>2, <1>3 DEF Dirty, Baseline
<1>4. ASSUME NEW a \in Actions, SendMutation(a) \/ Cleanup(a) PROVE RestoredInv'
  <2>1. journal[a].run \in Workers
    BY DEF TypeOK, Entry
  <2>2. /\ target' = target
        /\ \/ calls' = calls \/ calls' = calls \cup {NewCall(a, "mutate", journal[a].run)}
           \/ calls' = calls \cup {NewCall(a, "restore", journal[a].run)}
    BY <1>4 DEF SendMutation, Cleanup
  <2>3. \A c \in calls' : c \in calls \/ (c.st = "sent" /\ c.method = "WRITE")
    BY <2>1, <2>2, SentShape
  <2>. QED BY <1>2, <2>2, <2>3 DEF Dirty, Baseline
<1>5. ASSUME NEW a \in Actions, NEW w \in Workers, NEW r \in Restorations,
             CreateCanary(w, a, r) \/ ModifyWithSnapshot(w, a, r)
      PROVE  RestoredInv'
  BY <1>3, <1>5, CreateShape
<1>6. ASSUME NEW c \in calls, Return(c) PROVE RestoredInv'
  BY <1>3, <1>6 DEF Return, EndMutation, EndCleanup, EndReplay
<1>7. ASSUME NEW c \in calls, NEW method, NEW st, Answer(c, method, st), UNCHANGED journal,
             \/ Dirty' \subseteq Dirty
             \/ c.what = "mutate" /\ Dirty' = Dirty \cup {journal[c.act].url},
             /\ c.what = "restore" /\ (method = "GET" \/ st = "ok" \/ st = "not_found")
                => journal[c.act].url \notin Dirty'
      PROVE  RestoredInv'
  <2>. DEFINE e == [c EXCEPT !.method = method, !.st = st]
  <2>1. /\ e.act = c.act /\ e.what = c.what /\ e.method = method /\ e.st = st
        /\ calls' = (calls \ {c}) \cup {e}
    BY <1>7 DEF Answer, TypeOK, Call
  <2>. HIDE DEF e
  <2>2. ASSUME NEW d \in calls', d.what = "restore", d.method = "GET" \/ RestoreSucceeded(d)'
        PROVE  journal'[d.act].url \notin Dirty'
    <3>1. RestoreSucceeded(d)' => d.st = "ok" \/ d.st = "not_found"
      BY DEF RestoreSucceeded
    <3>2. CASE d = e
      BY <1>7, <2>1, <2>2, <3>1, <3>2
    <3>3. CASE d \in calls /\ d # c
      <4>1. journal[d.act].url \notin Dirty
        BY <1>7, <2>2, <3>3 DEF RestoredInv, RestoreSucceeded
      <4>2. d.act # c.act /\ journal[d.act].url # journal[c.act].url
        BY <1>1, <3>3 DEF ControlInv, DocumentsInv
      <4>. QED BY <1>7, <4>1, <4>2
    <3>. QED BY <2>1, <3>2, <3>3
  <2>. QED BY <2>2 DEF RestoredInv
<1>8. ASSUME NEW c \in calls, ServeWrite(c) PROVE RestoredInv'
  <2>1. /\ journal' = journal /\ c.st = "sent" /\ c.method = "WRITE"
        /\ c.what \in {"mutate", "restore"}
    BY <1>8 DEF ServeWrite, TypeOK, Call
  <2>2. PICK method \in {"WRITE", "GET"}, st \in {"sent", "ok", "not_found", "error"} :
          /\ Answer(c, method, st)
          /\ \/ Apply(c.act, c.what) /\ ~NothingThere(c)
             \/ NothingThere(c) /\ method = "WRITE" /\ st = "not_found" /\ UNCHANGED target
             \/ method = "WRITE" /\ st = "error" /\ UNCHANGED target
    BY <1>8 DEF ServeWrite, RedirectMethod, Careful
  <2>3. CASE Apply(c.act, c.what)
    <3>1. /\ c.what = "mutate" => Dirty' = Dirty \cup {journal[c.act].url}
          /\ c.what # "mutate" => Dirty' = Dirty \ {journal[c.act].url}
      BY <1>1, <2>3, ApplyShape
    <3>. QED BY <1>7, <2>1, <2>2, <3>1
  <2>4. CASE UNCHANGED target /\ method = "WRITE" /\ st = "error"
    <3>1. Dirty' = Dirty
      BY <2>4 DEF Dirty, Baseline
    <3>. QED BY <1>7, <2>1, <2>2, <2>4, <3>1
  <2>5. CASE UNCHANGED target /\ NothingThere(c)
    <3>1. Dirty' = Dirty
      BY <2>5 DEF Dirty, Baseline
    <3>2. target[journal[c.act].url] = NoResource /\ journal[c.act].url \in CreatedUrls
      BY <1>1, <2>5 DEF NothingThere, DocumentsInv
    <3>3. journal[c.act].url \notin Dirty
      BY <3>2, JournalAssumption DEF Dirty, Baseline
    <3>. QED BY <1>7, <2>1, <2>2, <3>1, <3>3
  <2>. QED BY <2>2, <2>3, <2>4, <2>5
<1>9. ASSUME NEW c \in calls, ServeGet(c) PROVE RestoredInv'
  <2>1. c.method = "GET" /\ UNCHANGED <<journal, target>>
    BY <1>9 DEF ServeGet
  <2>2. PICK st \in {"ok", "not_found", "error"} : Answer(c, "GET", st)
    BY <1>9 DEF ServeGet
  <2>3. Dirty' = Dirty
    BY <2>1 DEF Dirty, Baseline
  <2>4. c.what = "restore" => journal[c.act].url \notin Dirty
    BY <2>1 DEF RestoredInv
  <2>. QED BY <1>7, <2>1, <2>2, <2>3, <2>4
<1>10. ASSUME NEW m \in late, LateWrite(m) PROVE RestoredInv'
  <2>1. calls' = calls /\ (Apply(m.act, m.what) \/ target' = target)
    BY <1>10 DEF LateWrite
  <2>2. Dirty' \subseteq Dirty
    <3>1. CASE Apply(m.act, m.what)
      BY <1>1, <3>1, ApplyShape
    <3>2. CASE target' = target
      BY <3>2 DEF Dirty, Baseline
    <3>. QED BY <2>1, <3>1, <3>2
  <2>. QED BY <1>2, <2>1, <2>2
<1>11. ASSUME NEW w \in Workers, BeginRecovery(w) \/ Recover(w) PROVE RestoredInv'
  <2>1. target' = target
    BY <1>11 DEF BeginRecovery, Recover, ReplayNext, EndRecovery
  <2>2. calls' = calls \/ \E a \in First(todo[w]) : calls' = calls \cup {NewCall(a, "restore", w)}
    BY <1>11 DEF BeginRecovery, Recover, ReplayNext, EndRecovery
  <2>3. \A c \in calls' : c \in calls \/ (c.st = "sent" /\ c.method = "WRITE")
    BY <2>2, SentShape DEF First, TypeOK
  <2>. QED BY <1>2, <2>1, <2>3 DEF Dirty, Baseline
<1>12. ASSUME NEW w \in Workers, EndRun(w) \/ Crash(w) PROVE RestoredInv'
  BY <1>3, <1>12 DEF EndRun, Crash
<1>13. CASE UNCHANGED vars
  BY <1>3, <1>13 DEF vars
<1>14. ASSUME NEW a \in Actions, Plan(a) PROVE RestoredInv'
  BY <1>4, <1>5, <1>14 DEF Plan
<1>. QED BY <1>6, <1>8, <1>9, <1>10, <1>11, <1>12, <1>13, <1>14 DEF Next, Serve

(* How a step changes the dirty URLs: only a served mutation adds one, its own. *)
LEMMA DirtyMoves ==
  ASSUME Careful, SafeInv, [Next]_vars
  PROVE  \/ Dirty' \subseteq Dirty
         \/ \E c \in calls : journal' = journal /\ Dirty' = Dirty \cup {journal[c.act].url}
<1>. USE DEF SafeInv, RecoveryInv
<1>1. ASSUME target' = target PROVE Dirty' = Dirty
  BY <1>1 DEF Dirty, Baseline
<1>2. ASSUME NEW c \in calls, ServeWrite(c)
      PROVE  \/ Dirty' \subseteq Dirty
             \/ journal' = journal /\ Dirty' = Dirty \cup {journal[c.act].url}
  <2>1. journal' = journal /\ (Apply(c.act, c.what) \/ target' = target)
    BY <1>2 DEF ServeWrite
  <2>2. c.act \in Actions /\ Journaled(c.act)
    BY DEF TypeOK, Call, WriteAheadInv, WriteAhead
  <2>3. CASE Apply(c.act, c.what)
    BY <2>1, <2>2, <2>3, ApplyShape
  <2>. QED BY <1>1, <2>1, <2>3
<1>3. ASSUME NEW m \in late, LateWrite(m) PROVE Dirty' \subseteq Dirty
  <2>1. m.act \in Actions /\ Journaled(m.act) /\ m.what = "restore"
    BY DEF TypeOK, WriteAheadInv, WriteAhead, ControlInv
  <2>2. CASE Apply(m.act, m.what)
    BY <2>1, <2>2, ApplyShape
  <2>. QED BY <1>1, <1>3, <2>2 DEF LateWrite
<1>4. ASSUME NEW c \in calls, ServeGet(c) \/ Return(c) PROVE target' = target
  BY <1>4 DEF ServeGet, Return, EndMutation, EndCleanup, EndReplay
<1>5. ASSUME NEW w \in Workers, BeginRecovery(w) \/ Recover(w) \/ EndRun(w) \/ Crash(w)
      PROVE  target' = target
  BY <1>5 DEF BeginRecovery, Recover, ReplayNext, EndRecovery, EndRun, Crash
<1>6. ASSUME NEW a \in Actions, Plan(a) PROVE target' = target
  BY <1>6 DEF Plan, SendMutation, Cleanup, CreateCanary, ModifyWithSnapshot
<1>7. CASE UNCHANGED vars
  BY <1>1, <1>7 DEF vars
<1>. QED BY <1>1, <1>2, <1>3, <1>4, <1>5, <1>6, <1>7 DEF Next, Serve

LEMMA DirtyStep == Careful /\ SafeInv /\ [Next]_vars => DirtyIsUnresolved'
<1>. SUFFICES ASSUME Careful, SafeInv, [Next]_vars, NEW u \in Dirty'
              PROVE  \E a \in Unresolved(journal)' : journal'[a].url = u
  BY DEF DirtyIsUnresolved
<1>. USE DEF SafeInv, RecoveryInv
<1>1. \A a \in Unresolved(journal) : a \in Actions /\ journal'[a].url = journal[a].url
  BY DocumentsFixed DEF Unresolved, Journaled
<1>2. journal \in [Actions -> Entry]
  BY DEF TypeOK
(* Who owed the address before the step. *)
<1>3. PICK a \in Unresolved(journal) : journal[a].url = u
  <2>1. CASE u \in Dirty
    BY <2>1 DEF DirtyIsUnresolved
  <2>2. ASSUME NEW c \in calls, u = journal[c.act].url
        PROVE  \E a \in Unresolved(journal) : journal[a].url = u
    BY <2>2 DEF ControlInv
  <2>. QED BY <2>1, <2>2, DirtyMoves
<1>4. SUFFICES a \in Unresolved(journal)'
  BY <1>1, <1>3
<1>5. CASE journal' = journal
  BY <1>5 DEF Unresolved
<1>6. ASSUME NEW b \in Unresolved(journal), journal' = MarkFailed(journal, b)
      PROVE  a \in Unresolved(journal)'
  BY <1>1, <1>2, <1>6, UnresolvedAfter
<1>7. ASSUME NEW c \in calls, c.what = "restore", RestoreSucceeded(c), target' = target,
             journal' = MarkCompleted(journal, c.act)
      PROVE  a \in Unresolved(journal)'
  <2>1. journal[c.act].url \notin Dirty /\ u \in Dirty
    BY <1>7 DEF RestoredInv, Dirty, Baseline
  <2>2. a # c.act /\ c.act \in Actions
    BY <1>3, <2>1 DEF TypeOK, Call
  <2>. QED BY <1>2, <1>7, <2>2, UnresolvedAfter
<1>8. ASSUME NEW b \in Actions, NEW w \in Workers, NEW r \in Restorations,
             CreateCanary(w, b, r) \/ ModifyWithSnapshot(w, b, r)
      PROVE  a \in Unresolved(journal)'
  <2>1. journal'[b].status = "PENDING" /\ \A d \in Actions \ {b} : journal'[d] = journal[d]
    BY <1>8, CreateShape
  <2>. QED BY <1>1, <2>1 DEF Unresolved
<1>. QED BY <1>5, <1>6, <1>7, <1>8, JournalMoves

LEMMA SafeStep == Careful /\ SafeInv /\ [Next]_vars => SafeInv'
  BY TypeStep, WriteAheadStep, CoroutineStep, DocumentsStep, ControlStep, RestoredStep, DirtyStep
     DEF SafeInv, RecoveryInv, Careful

LEMMA SafeInit == Init => SafeInv
<1>1. Init => TypeOK
  BY NoEntryType, JournalAssumption
     DEF Init, TypeOK, Baseline, Values, NoGate, GateOf, NoPolicy, Policy, Gate, PlanState
<1>2. Init => WriteAheadInv /\ CoroutineInv
  BY DEF Init, WriteAheadInv, WriteAhead, Dirty, CoroutineInv, Underway
<1>3. Init => \A a \in Actions : journal[a].status = "ABSENT"
  BY DEF Init, NoEntry
<1>4. Init => RecoveryInv
  BY <1>3 DEF Init, RecoveryInv, DocumentsInv, ControlInv, RestoredInv, DirtyIsUnresolved, Dirty,
              Unresolved, Journaled, Underway
<1>. QED BY <1>1, <1>2, <1>4 DEF SafeInv

(* COMPLETED is never recorded ahead of the restoration, and no failure, retry or crash
   loses the action of a resource that is still dirty: the runs without one of the
   conjuncts of Careful show that each is needed. *)
THEOREM DirtyStaysUnresolved == ASSUME Careful PROVE Spec => []DirtyIsUnresolved
<1>1. SafeInv /\ [Next]_vars => SafeInv'
  BY SafeStep
<1>2. SafeInv => DirtyIsUnresolved
  BY DEF SafeInv, RecoveryInv
<1>. QED BY <1>1, <1>2, SafeInit, PTL DEF Spec

-----------------------------------------------------------------------------
(* The state of RestoreContract, as ImplementsContract reads it. *)
Owed == {<<a, journal[a].url>> : a \in Unresolved(journal)}
Settled == {a \in Actions : journal[a].status = "COMPLETED"}
Running == {w \in Workers : phase[w] = "run"}

LEMMA OwedWhenFailed ==
  ASSUME TypeOK, NEW a \in Unresolved(journal), journal' = MarkFailed(journal, a)
  PROVE  Owed' = Owed /\ Settled' = Settled
<1>1. journal \in [Actions -> Entry] /\ a \in Actions /\ journal[a].status # "COMPLETED"
  BY DEF TypeOK, Unresolved
<1>2. Unresolved(journal') = Unresolved(journal)
  <2>1. Unresolved(MarkFailed(journal, a)) = Unresolved(journal) \cup {a}
    BY <1>1, UnresolvedAfter
  <2>2. Unresolved(MarkFailed(journal, a)) = Unresolved(journal)
    BY <2>1
  <2>. QED BY <2>2
<1>3. \A b \in Actions : journal'[b].url = journal[b].url
  BY <1>1, MarkLemma
<1>4. journal'[a].status = "FAILED" /\ \A b \in Actions \ {a} : journal'[b] = journal[b]
  BY <1>1, MarkLemma
<1>5. Owed' = Owed
  BY <1>2, <1>3 DEF Owed, Unresolved
<1>. QED BY <1>1, <1>4, <1>5 DEF Settled

LEMMA OwedWhenCompleted ==
  ASSUME TypeOK, NEW a \in Unresolved(journal), journal' = MarkCompleted(journal, a)
  PROVE  /\ <<a, journal[a].url>> \in Owed
         /\ Owed' = Owed \ {<<a, journal[a].url>>} /\ Settled' = Settled \cup {a}
<1>1. journal \in [Actions -> Entry] /\ a \in Actions
  BY DEF TypeOK, Unresolved
<1>2. Unresolved(journal') = Unresolved(journal) \ {a}
  BY <1>1, UnresolvedAfter
<1>3. \A b \in Actions : journal'[b].url = journal[b].url
  BY <1>1, MarkLemma
<1>4. journal'[a].status = "COMPLETED" /\ \A b \in Actions \ {a} : journal'[b] = journal[b]
  BY <1>1, MarkLemma
<1>5. Owed' = Owed \ {<<a, journal[a].url>>} /\ <<a, journal[a].url>> \in Owed
  BY <1>2, <1>3 DEF Owed, Unresolved
<1>. QED BY <1>1, <1>4, <1>5 DEF Settled

LEMMA OwedWhenCreated ==
  ASSUME TypeOK, NEW a \in Actions, NEW w \in Workers, NEW r \in Restorations,
         CreateCanary(w, a, r) \/ ModifyWithSnapshot(w, a, r)
  PROVE  /\ a \notin Settled /\ (\A v \in Urls : <<a, v>> \notin Owed) /\ Running # {}
         /\ Owed' = Owed \cup {<<a, r.url>>}
         /\ Settled' = Settled /\ Dirty' = Dirty /\ Running' = Running
<1>1. /\ phase[w] = "run" /\ journal[a].status = "ABSENT"
      /\ journal'[a].status = "PENDING" /\ journal'[a].url = r.url
  BY CreateShape
<1>2. \A b \in Actions \ {a} : journal'[b] = journal[b]
  BY CreateShape
<1>3. target' = target /\ phase' = phase
  BY CreateShape
<1>4. a \notin Unresolved(journal) /\ Unresolved(journal)' = Unresolved(journal) \cup {a}
  BY <1>1, <1>2 DEF Unresolved
<1>5. Owed' = Owed \cup {<<a, r.url>>}
  <2>1. \A b \in Unresolved(journal) : journal'[b].url = journal[b].url
    BY <1>2, <1>4 DEF Unresolved
  <2>2. Owed' = {<<b, journal'[b].url>> : b \in Unresolved(journal) \cup {a}}
    BY <1>4 DEF Owed
  <2>. QED BY <1>1, <2>1, <2>2 DEF Owed
<1>6. \A v \in Urls : <<a, v>> \notin Owed
  BY <1>4 DEF Owed
<1>7. Settled' = Settled /\ a \notin Settled
  BY <1>1, <1>2 DEF Settled
<1>8. Dirty' = Dirty /\ Running' = Running /\ Running # {}
  BY <1>1, <1>3 DEF Dirty, Baseline, Running
<1>. QED BY <1>5, <1>6, <1>7, <1>8

LEMMA ContractStep ==
  ASSUME Careful, SafeInv, [Next]_vars
  PROVE  [Contract!Next]_(Contract!vars)
<1>. USE DEF SafeInv, RecoveryInv
<1>. DEFINE Moved == [Contract!Next]_(Contract!vars)
<1>. SUFFICES Moved
  OBVIOUS
<1>1. ASSUME Owed' = Owed, Settled' = Settled, Dirty' = Dirty, Running' = Running
      PROVE  Moved
  BY <1>1 DEF Owed, Settled, Running, Contract!vars
<1>2. ASSUME NEW a \in Actions, NEW u \in Urls, a \notin Settled,
             \A v \in Urls : <<a, v>> \notin Owed, Running # {},
             Owed' = Owed \cup {<<a, u>>}, Settled' = Settled, Dirty' = Dirty, Running' = Running
      PROVE  Moved
  <2>1. Contract!Owe(a, u)
    BY <1>2 DEF Owed, Settled, Running, Contract!Owe
  <2>. QED BY <2>1 DEF Contract!Next
<1>3. ASSUME NEW a \in Actions, NEW u \in Urls, <<a, u>> \in Owed, u \notin Dirty,
             Owed' = Owed \ {<<a, u>>}, Settled' = Settled \cup {a}, Dirty' = Dirty, Running' = Running
      PROVE  Moved
  <2>1. Contract!Settle(a, u)
    BY <1>3 DEF Owed, Settled, Running, Contract!Settle
  <2>. QED BY <2>1 DEF Contract!Next
<1>4. ASSUME NEW u \in Urls, NEW a \in Actions, <<a, u>> \in Owed,
             Owed' = Owed, Settled' = Settled, Dirty' = Dirty \cup {u}, Running' = Running
      PROVE  Moved
  <2>1. Contract!Touch(u)
    BY <1>4 DEF Owed, Settled, Running, Contract!Touch, Contract!OwedFor
  <2>. QED BY <2>1 DEF Contract!Next
<1>5. ASSUME NEW u \in Urls,
             Owed' = Owed, Settled' = Settled, Dirty' = Dirty \ {u}, Running' = Running
      PROVE  Moved
  <2>1. Contract!Undo(u)
    BY <1>5 DEF Owed, Settled, Running, Contract!Undo
  <2>. QED BY <2>1 DEF Contract!Next
<1>6. ASSUME NEW w \in Workers, w \notin Running, Owed = {},
             Owed' = Owed, Settled' = Settled, Dirty' = Dirty, Running' = Running \cup {w}
      PROVE  Moved
  <2>1. Contract!Start(w)
    BY <1>6 DEF Owed, Settled, Running, Contract!Start
  <2>. QED BY <2>1 DEF Contract!Next
<1>7. ASSUME NEW w \in Workers,
             Owed' = Owed, Settled' = Settled, Dirty' = Dirty, Running' = Running \ {w}
      PROVE  Moved
  <2>1. Contract!Stop(w)
    BY <1>7 DEF Owed, Settled, Running, Contract!Stop
  <2>. QED BY <2>1 DEF Contract!Next
<1>. HIDE DEF Moved
<1>8. ASSUME journal' = journal PROVE Owed' = Owed /\ Settled' = Settled
  BY <1>8 DEF Owed, Settled, Unresolved
<1>9. ASSUME target' = target PROVE Dirty' = Dirty
  BY <1>9 DEF Dirty, Baseline
<1>10. ASSUME phase' = phase PROVE Running' = Running
  BY <1>10 DEF Running
<1>11. ASSUME NEW a \in Unresolved(journal), journal' = MarkFailed(journal, a) \/ journal' = journal,
              target' = target, phase' = phase
       PROVE  Moved
  BY <1>1, <1>8, <1>9, <1>10, <1>11, OwedWhenFailed
<1>12. ASSUME journal' = journal, target' = target, phase' = phase PROVE Moved
  BY <1>1, <1>8, <1>9, <1>10, <1>12
<1>13. ASSUME NEW a \in Actions, Plan(a) PROVE Moved
  <2>1. CASE SendMutation(a)
    BY <1>12, <2>1 DEF SendMutation
  <2>2. CASE Cleanup(a)
    <3>1. a \in Unresolved(journal)
      BY <2>2 DEF Cleanup, ControlInv, Underway
    <3>. QED BY <1>11, <2>2, <3>1 DEF Cleanup
  <2>3. ASSUME NEW w \in Workers, NEW r \in Restorations, CreateCanary(w, a, r) \/ ModifyWithSnapshot(w, a, r)
        PROVE  Moved
    BY <1>2, <2>3, OwedWhenCreated DEF Restorations
  <2>. QED BY <1>13, <2>1, <2>2, <2>3 DEF Plan
<1>14. ASSUME NEW c \in calls, Return(c) PROVE Moved
  <2>1. c.act \in Unresolved(journal) /\ c.act \in Actions /\ journal[c.act].url \in Urls
    BY DEF ControlInv, TypeOK, Call, Entry
  <2>2. target' = target /\ phase' = phase
    BY <1>14 DEF Return, EndMutation, EndCleanup, EndReplay
  <2>3. \/ journal' = journal \/ journal' = MarkFailed(journal, c.act)
        \/ c.what = "restore" /\ RestoreSucceeded(c) /\ journal' = MarkCompleted(journal, c.act)
    BY <1>14 DEF Return, EndMutation, EndCleanup, EndReplay, Marked
  <2>4. ASSUME c.what = "restore", RestoreSucceeded(c), journal' = MarkCompleted(journal, c.act)
        PROVE  Moved
    <3>1. journal[c.act].url \notin Dirty
      BY <2>4 DEF RestoredInv
    <3>2. /\ <<c.act, journal[c.act].url>> \in Owed
          /\ Owed' = Owed \ {<<c.act, journal[c.act].url>>} /\ Settled' = Settled \cup {c.act}
      BY <2>1, <2>4, OwedWhenCompleted
    <3>. QED BY <1>3, <1>9, <1>10, <2>1, <2>2, <3>1, <3>2
  <2>. QED BY <1>11, <2>1, <2>2, <2>3, <2>4
<1>15. ASSUME NEW a \in Actions, Journaled(a), NEW what, Apply(a, what),
              journal' = journal, phase' = phase, what = "mutate" => a \in Unresolved(journal)
       PROVE  Moved
  <2>1. journal[a].url \in Urls
    BY DEF TypeOK, Entry
  <2>2. /\ what = "mutate" => Dirty' = Dirty \cup {journal[a].url}
        /\ what # "mutate" => Dirty' = Dirty \ {journal[a].url}
    BY <1>15, ApplyShape
  <2>3. CASE what = "mutate"
    <3>1. <<a, journal[a].url>> \in Owed
      BY <1>15, <2>3 DEF Owed
    <3>. QED BY <1>4, <1>8, <1>10, <1>15, <2>1, <2>2, <2>3, <3>1
  <2>4. CASE what # "mutate"
    BY <1>5, <1>8, <1>10, <1>15, <2>1, <2>2, <2>4
  <2>. QED BY <2>3, <2>4
<1>16. ASSUME NEW c \in calls, Serve(c) PROVE Moved
  <2>1. c.act \in Actions /\ Journaled(c.act) /\ c.act \in Unresolved(journal)
    BY DEF TypeOK, Call, WriteAheadInv, WriteAhead, ControlInv
  <2>2. /\ journal' = journal /\ phase' = phase
        /\ Apply(c.act, c.what) \/ target' = target
    BY <1>16 DEF Serve, ServeWrite, ServeGet
  <2>. QED BY <1>12, <1>15, <2>1, <2>2
<1>17. ASSUME NEW m \in late, LateWrite(m) PROVE Moved
  <2>1. m.act \in Actions /\ Journaled(m.act) /\ m.what = "restore"
    BY DEF TypeOK, WriteAheadInv, WriteAhead, ControlInv
  <2>2. /\ journal' = journal /\ phase' = phase
        /\ Apply(m.act, m.what) \/ target' = target
    BY <1>17 DEF LateWrite
  <2>. QED BY <1>12, <1>15, <2>1, <2>2
<1>18. ASSUME NEW w \in Workers, BeginRecovery(w) PROVE Moved
  <2>1. journal' = journal /\ target' = target
    BY <1>18 DEF BeginRecovery
  <2>2. Running' = Running
    BY <1>18 DEF BeginRecovery, Running, TypeOK
  <2>. QED BY <1>1, <1>8, <1>9, <2>1, <2>2
<1>19. ASSUME NEW w \in Workers, ReplayNext(w) PROVE Moved
  <2>1. First(todo[w]) \subseteq Unresolved(journal)
    BY DEF First, ControlInv
  <2>. QED BY <1>11, <1>19, <2>1 DEF ReplayNext
<1>20. ASSUME NEW w \in Workers, EndRecovery(w) PROVE Moved
  <2>1. phase[w] = "recover" /\ journal' = journal /\ target' = target
    BY <1>20 DEF EndRecovery
  <2>2. CASE phase' = [phase EXCEPT ![w] = "idle"]
    <3>1. Running' = Running
      BY <2>1, <2>2 DEF Running, TypeOK
    <3>. QED BY <1>1, <1>8, <1>9, <2>1, <3>1
  <2>3. CASE Unresolved(journal) = {} /\ phase' = [phase EXCEPT ![w] = "run"]
    <3>1. Running' = Running \cup {w} /\ w \notin Running
      BY <2>1, <2>3 DEF Running, TypeOK
    <3>2. Owed = {}
      BY <2>3 DEF Owed
    <3>. QED BY <1>6, <1>8, <1>9, <2>1, <3>1, <3>2
  <2>. QED BY <1>20, <2>2, <2>3 DEF EndRecovery
<1>21. ASSUME NEW w \in Workers, EndRun(w) \/ Crash(w) PROVE Moved
  <2>1. journal' = journal /\ target' = target
    BY <1>21 DEF EndRun, Crash
  <2>2. Running' = Running \ {w}
    BY <1>21 DEF EndRun, Crash, Running, TypeOK
  <2>. QED BY <1>7, <1>8, <1>9, <2>1, <2>2
<1>22. CASE UNCHANGED vars
  BY <1>12, <1>22 DEF vars
<1>23. CASE \E c \in calls : Serve(c) \/ Return(c)
  BY <1>14, <1>16, <1>23
<1>24. CASE \E w \in Workers : BeginRecovery(w) \/ Recover(w) \/ EndRun(w) \/ Crash(w)
  BY <1>18, <1>19, <1>20, <1>21, <1>24 DEF Recover
<1>. QED BY <1>13, <1>17, <1>22, <1>23, <1>24 DEF Next

(* Journal, plan, target and replay keep the promise of RestoreContract: every step of
   MutationRecovery owes, touches, undoes, settles, starts, stops or changes nothing the
   owner of the target can tell. *)
THEOREM ContractImplemented == ASSUME Careful PROVE Spec => ImplementsContract
<1>1. Init => Contract!Init
  <2>1. Init => Owed = {} /\ Settled = {} /\ Dirty = {} /\ Running = {}
    BY DEF Init, Owed, Settled, Running, Dirty, Unresolved, NoEntry
  <2>. QED BY <2>1 DEF Owed, Settled, Running, Contract!Init
<1>2. SafeInv /\ [Next]_vars => [Contract!Next]_(Contract!vars)
  BY ContractStep
<1>3. SafeInv /\ [Next]_vars => SafeInv'
  BY SafeStep
<1>. QED BY <1>1, <1>2, <1>3, SafeInit, PTL DEF Spec, ImplementsContract, Contract!Spec

-----------------------------------------------------------------------------
(* What the promise is worth: facts about RestoreContract alone, whoever implements it. *)
Promise ==
    /\ Owed \subseteq Actions \X Urls /\ Settled \subseteq Actions
    /\ Dirty \subseteq Urls /\ Running \subseteq Workers
    /\ \A u \in Dirty : \E d \in Actions : <<d, u>> \in Owed

LEMMA PromiseInit == Contract!Init => Promise
  BY DEF Contract!Init, Owed, Settled, Running, Promise

LEMMA PromiseStep == Promise /\ [Contract!Next]_(Contract!vars) => Promise'
<1>. SUFFICES ASSUME Promise, [Contract!Next]_(Contract!vars) PROVE Promise'
  OBVIOUS
<1>1. ASSUME NEW d \in Actions, NEW u \in Urls, Contract!Owe(d, u) PROVE Promise'
  <2>1. Owed' = Owed \cup {<<d, u>>} /\ Settled' = Settled /\ Dirty' = Dirty /\ Running' = Running
    BY <1>1 DEF Contract!Owe, Owed, Settled, Running
  <2>. QED BY SMTT(30), <2>1 DEF Promise
<1>2. ASSUME NEW d \in Actions, NEW u \in Urls, Contract!Settle(d, u) PROVE Promise'
  <2>1. /\ u \notin Dirty
        /\ Owed' = Owed \ {<<d, u>>} /\ Settled' = Settled \cup {d} /\ Dirty' = Dirty /\ Running' = Running
    BY <1>2 DEF Contract!Settle, Owed, Settled, Running
  <2>. QED BY <2>1 DEF Promise
<1>3. ASSUME NEW u \in Urls, Contract!Touch(u) PROVE Promise'
  <2>1. /\ \E d \in Actions : <<d, u>> \in Owed
        /\ Owed' = Owed /\ Settled' = Settled /\ Dirty' = Dirty \cup {u} /\ Running' = Running
    BY <1>3 DEF Contract!Touch, Contract!OwedFor, Owed, Settled, Running
  <2>. QED BY <2>1 DEF Promise
<1>4. ASSUME NEW u \in Urls, Contract!Undo(u) PROVE Promise'
  <2>1. Owed' = Owed /\ Settled' = Settled /\ Dirty' = Dirty \ {u} /\ Running' = Running
    BY <1>4 DEF Contract!Undo, Owed, Settled, Running
  <2>. QED BY <2>1 DEF Promise
<1>5. ASSUME NEW w \in Workers, Contract!Start(w) PROVE Promise'
  <2>1. Owed' = Owed /\ Settled' = Settled /\ Dirty' = Dirty /\ Running' = Running \cup {w}
    BY <1>5 DEF Contract!Start, Owed, Settled, Running
  <2>. QED BY <2>1 DEF Promise
<1>6. ASSUME NEW w \in Workers, Contract!Stop(w) PROVE Promise'
  <2>1. Owed' = Owed /\ Settled' = Settled /\ Dirty' = Dirty /\ Running' = Running \ {w}
    BY <1>6 DEF Contract!Stop, Owed, Settled, Running
  <2>. QED BY <2>1 DEF Promise
<1>7. ASSUME UNCHANGED Contract!vars PROVE Promise'
  <2>1. Owed' = Owed /\ Settled' = Settled /\ Dirty' = Dirty /\ Running' = Running
    BY <1>7 DEF Contract!vars, Owed, Settled, Running
  <2>. QED BY <2>1 DEF Promise
<1>. QED BY <1>1, <1>2, <1>3, <1>4, <1>5, <1>6, <1>7 DEF Contract!Next

LEMMA PromiseStarts ==
  Promise /\ [Contract!Next]_(Contract!vars) => [Contract!CleanStart]_(Contract!vars)
<1>. SUFFICES ASSUME Promise, Contract!Next, NEW w \in Workers, w \in Running', w \notin Running
              PROVE  Dirty = {}
  BY DEF Contract!CleanStart, Running
<1>1. ASSUME NEW d \in Actions, NEW u \in Urls, Contract!Owe(d, u) \/ Contract!Settle(d, u)
      PROVE  Running' = Running
  BY <1>1 DEF Contract!Owe, Contract!Settle, Running
<1>2. ASSUME NEW u \in Urls, Contract!Touch(u) \/ Contract!Undo(u) PROVE Running' = Running
  BY <1>2 DEF Contract!Touch, Contract!Undo, Running
<1>3. ASSUME NEW v \in Workers, Contract!Stop(v) PROVE Running' \subseteq Running
  BY <1>3 DEF Contract!Stop, Running
<1>4. ASSUME NEW v \in Workers, Contract!Start(v) PROVE Owed = {}
  BY <1>4 DEF Contract!Start, Owed
<1>5. Owed = {}
  BY <1>1, <1>2, <1>3, <1>4 DEF Contract!Next
<1>. QED BY <1>5 DEF Promise

(* Whatever keeps RestoreContract has no dirty resource that nobody owes, *)
THEOREM ContractKeepsDirtyOwed == Contract!Spec => [](Contract!TypeOK /\ Contract!DirtyIsOwed)
<1>1. Promise => Contract!TypeOK /\ Contract!DirtyIsOwed
  BY DEF Promise, Contract!TypeOK, Contract!DirtyIsOwed, Contract!OwedFor, Owed, Settled, Running
<1>. QED BY <1>1, PromiseInit, PromiseStep, PTL DEF Contract!Spec

(* ... and starts a run on a target that is exactly as it was before the first one. *)
THEOREM ContractStartsClean == Contract!Spec => Contract!StartsClean
  BY PromiseInit, PromiseStep, PromiseStarts, PTL DEF Contract!Spec, Contract!StartsClean

(* So does the program: no scan starts while anything on the target is not as it was
   (worker/cli.py, the recovery at the start; core/policy/recovery.py). *)
THEOREM RunsStartClean == ASSUME Careful PROVE Spec => Contract!StartsClean
  BY ContractImplemented, ContractStartsClean DEF ImplementsContract
=============================================================================
