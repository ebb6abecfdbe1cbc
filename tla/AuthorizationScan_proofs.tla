------------------------ MODULE AuthorizationScan_proofs ------------------------
(***************************************************************************)
(* Machine-checked safety of SessionRuntime, and after it of the           *)
(* authorization scan over it, for any accounts of the site, any number of *)
(* channels and candidates, any limits, and whether channels may refuse to *)
(* close and secrets may expire or not.  The sessions are proved for any   *)
(* number of coroutines; the scan is one of them.                          *)
(***************************************************************************)
EXTENDS AuthorizationScan, TLAPS

LEMMA NoChannelApart == NoChannel \notin Channels
  BY SessionAssumption DEF NoChannel, Channels

LEMMA AnyIdentityType == AnyIdentity \in Identities
  BY SessionAssumption DEF AnyIdentity

LEMMA NewTaskType ==
  /\ NewTask \in Task /\ NewTask.pc = "idle" /\ NewTask.ch = NoChannel
  /\ NewTask.op = "none" /\ NewTask.todo = {} /\ NewTask.fresh = {} /\ NewTask.id = AnyIdentity
  BY AnyIdentityType DEF NewTask, Task

-----------------------------------------------------------------------------
TaskOK ==
    /\ task \in [Tasks -> Task]
    /\ \A t \in Tasks : task[t].pc \in {"idle", "closing"} <=> task[t].ch = NoChannel

LEMMA MovesShape ==
  ASSUME task \in [Tasks -> Task], NEW t \in Tasks, NEW rec, Moves(t, rec)
  PROVE  task'[t] = rec /\ \A u \in Tasks \ {t} : task'[u] = task[u]
  BY DEF Moves

LEMMA MovesType ==
  ASSUME TaskOK, NEW t \in Tasks, NEW rec \in Task, Moves(t, rec),
         rec.pc \in {"idle", "closing"} <=> rec.ch = NoChannel
  PROVE  TaskOK'
<1>1. task' \in [Tasks -> Task]
  BY DEF Moves, TaskOK
<1>2. task'[t] = rec /\ \A u \in Tasks \ {t} : task'[u] = task[u]
  BY MovesShape DEF TaskOK
<1>. QED BY <1>1, <1>2 DEF TaskOK

LEMMA EndsKeepsType ==
  ASSUME TaskOK, NEW t \in Tasks, NEW result \in {"none", "ok", "raised"}, Ends(t, result)
  PROVE  /\ TaskOK' /\ task'[t].pc = "idle" /\ task'[t].ch = NoChannel /\ task'[t].todo = {}
         /\ task'[t].op = task[t].op /\ task'[t].result = result
         /\ \A u \in Tasks \ {t} : task'[u] = task[u]
<1>0. PICK rec : rec = [NewTask EXCEPT !.op = task[t].op, !.result = result]
  OBVIOUS
<1>1. task[t].op \in {"none", "open", "use", "close"}
  BY DEF TaskOK, Task
<1>2. rec \in Task /\ rec.pc = "idle" /\ rec.ch = NoChannel
  BY <1>0, <1>1, AnyIdentityType DEF NewTask, Task
<1>3. rec.todo = {} /\ rec.op = task[t].op /\ rec.result = result
  BY <1>0 DEF NewTask
<1>4. Moves(t, rec)
  BY <1>0 DEF Ends
<1>. QED BY <1>2, <1>3, <1>4, MovesType, MovesShape DEF TaskOK

LEMMA MovesToShape ==
  ASSUME TaskOK, NEW t \in Tasks, NEW pc \in {"idle", "closing_old", "login", "abort", "health", "asking", "closing"},
         Moves(t, [task[t] EXCEPT !.pc = pc]),
         pc \in {"idle", "closing"} <=> task[t].pc \in {"idle", "closing"}
  PROVE  /\ TaskOK' /\ task'[t].pc = pc /\ task'[t].op = task[t].op /\ task'[t].id = task[t].id
         /\ task'[t].ch = task[t].ch /\ task'[t].fresh = task[t].fresh /\ task'[t].todo = task[t].todo
         /\ \A u \in Tasks \ {t} : task'[u] = task[u]
<1>. DEFINE rec == [task[t] EXCEPT !.pc = pc]
<1>1. /\ rec \in Task /\ rec.pc = pc /\ rec.op = task[t].op /\ rec.id = task[t].id
      /\ rec.ch = task[t].ch /\ rec.fresh = task[t].fresh /\ rec.todo = task[t].todo
  BY SMTT(30) DEF TaskOK, Task
<1>2. Moves(t, rec)
  OBVIOUS
<1>3. rec.pc \in {"idle", "closing"} <=> rec.ch = NoChannel
  BY <1>1 DEF TaskOK
<1>. HIDE DEF rec
<1>. QED BY <1>1, <1>2, <1>3, MovesType, MovesShape DEF TaskOK

(* _login up to its first await, on a channel nobody has used. *)
LEMMA ConnectShape ==
  ASSUME TypeOK, NEW t \in Tasks, NEW i \in Identities, NEW others \in [Channels -> Channel],
         Connect(t, i, others)
  PROVE  /\ TaskOK' /\ vault' \in {"stored", "expired", "wiped"}
         /\ task'[t].pc \in {"login", "abort"} /\ task'[t].op = "open" /\ task'[t].id = i
         /\ task'[t].todo = {}
         /\ \A u \in Tasks \ {t} : task'[u] = task[u]
         /\ channel' \in [Channels -> Channel]
         /\ \E c \in Channels : /\ task'[t].ch = c /\ channel[c].state = "unused"
                                /\ channel'[c].state = "open" /\ channel'[c].of = i
                                /\ channel'[c].relogins = 0
                                /\ \A d \in Channels \ {c} : channel'[d] = others[d]
<1>1. PICK c \in NextChannel :
        /\ channel' = [others EXCEPT ![c] = [state |-> "open", of |-> i, relogins |-> 0]]
        /\ vault' = VaultAfterGet
        /\ Moves(t, [NewTask EXCEPT !.pc = IF SecretsReadable THEN "login" ELSE "abort",
                                    !.op = "open", !.id = i, !.ch = c])
  BY DEF Connect
<1>2. c \in Channels /\ channel[c].state = "unused"
  BY DEF NextChannel, Unused
<1>3. PICK pc \in {"login", "abort"} :
         Moves(t, [NewTask EXCEPT !.pc = pc, !.op = "open", !.id = i, !.ch = c])
  BY <1>1
<1>0. PICK rec : rec = [NewTask EXCEPT !.pc = pc, !.op = "open", !.id = i, !.ch = c]
  OBVIOUS
<1>4. rec \in Task /\ rec.pc = pc /\ rec.op = "open" /\ rec.id = i /\ rec.ch = c /\ rec.todo = {}
  BY <1>0, <1>2, AnyIdentityType DEF NewTask, Task
<1>5. Moves(t, rec)
  BY <1>0, <1>3
<1>6. c # NoChannel
  BY <1>2, NoChannelApart
<1>7. TaskOK
  BY DEF TypeOK, TaskOK
<1>8. TaskOK' /\ task'[t] = rec /\ \A u \in Tasks \ {t} : task'[u] = task[u]
  BY <1>4, <1>5, <1>6, <1>7, MovesType, MovesShape DEF TaskOK
<1>9. [state |-> "open", of |-> i, relogins |-> 0] \in Channel
  BY DEF Channel
<1>10. channel' \in [Channels -> Channel] /\ \A d \in Channels \ {c} : channel'[d] = others[d]
  BY <1>1, <1>2, <1>9
<1>11. channel'[c].state = "open" /\ channel'[c].of = i /\ channel'[c].relogins = 0
  BY <1>1, <1>2
<1>12. vault' \in {"stored", "expired", "wiped"}
  BY <1>1 DEF VaultAfterGet, TypeOK
<1>. QED BY <1>2, <1>4, <1>8, <1>10, <1>11, <1>12

(* The request goes out on whatever is registered, or the coroutine ends. *)
LEMMA AskShape ==
  ASSUME TypeOK, NEW t \in Tasks, NEW c \in Channels, Ask(t, c)
  PROVE  /\ TaskOK' /\ \A u \in Tasks \ {t} : task'[u] = task[u]
         /\ task'[t].pc \in {"idle", "asking"}
         /\ task'[t].op = task[t].op
         /\ task'[t].pc = "idle" => task'[t].todo = {} /\ task'[t].result = "raised"
         /\ task'[t].pc = "asking" => /\ task'[t].todo = task[t].todo
                                      /\ contexts[task[t].id] # NoChannel
                                      /\ task'[t].ch = contexts[task[t].id]
                                      /\ task'[t].fresh = task[t].fresh \cup {c}
<1>. DEFINE d == contexts[task[t].id]
<1>1. TaskOK /\ task[t] \in Task /\ d \in Channels \cup {NoChannel}
  BY DEF TypeOK, TaskOK, Task
<1>2. CASE d = NoChannel
  <2>1. Ends(t, "raised")
    BY <1>2 DEF Ask
  <2>. QED BY <1>1, <2>1, EndsKeepsType
<1>3. CASE d # NoChannel
  <2>0. PICK rec : rec = [task[t] EXCEPT !.pc = "asking", !.ch = d, !.fresh = @ \cup {c}]
    OBVIOUS
  <2>1. Moves(t, rec)
    BY <1>3, <2>0 DEF Ask
  <2>. HIDE DEF d
  <2>2. /\ rec \in Task /\ rec.pc = "asking" /\ rec.ch = d /\ rec.fresh = task[t].fresh \cup {c}
        /\ rec.op = task[t].op /\ rec.todo = task[t].todo
    <3>1. d \in Channels /\ {c} \in SUBSET Channels
      BY <1>1, <1>3
    <3>. QED BY <1>1, <2>0, <3>1 DEF Task
  <2>3. TaskOK' /\ task'[t] = rec /\ \A u \in Tasks \ {t} : task'[u] = task[u]
    BY <1>1, <1>3, <2>1, <2>2, MovesType, MovesShape DEF TaskOK
  <2>. QED BY <1>3, <2>2, <2>3 DEF d
<1>. QED BY <1>2, <1>3

LEMMA OpenBeginShape ==
  ASSUME TypeOK, NEW t \in Tasks, NEW i \in Identities, OpenBegin(t, i), contexts[i] # NoChannel
  PROVE  /\ TaskOK' /\ UNCHANGED <<channel, vault>>
         /\ task'[t].pc = "closing_old" /\ task'[t].op = "open" /\ task'[t].id = i
         /\ task'[t].ch = contexts[i] /\ \A u \in Tasks \ {t} : task'[u] = task[u]
<1>0. PICK rec : rec = [NewTask EXCEPT !.pc = "closing_old", !.op = "open", !.id = i, !.ch = contexts[i]]
  OBVIOUS
<1>1. contexts[i] \in Channels /\ TaskOK
  BY DEF TypeOK, TaskOK
<1>2. rec \in Task /\ rec.pc = "closing_old" /\ rec.op = "open" /\ rec.id = i /\ rec.ch = contexts[i]
  BY <1>0, <1>1, AnyIdentityType DEF NewTask, Task
<1>3. Moves(t, rec) /\ UNCHANGED <<channel, vault>>
  BY <1>0 DEF OpenBegin
<1>. QED BY <1>1, <1>2, <1>3, MovesType, MovesShape DEF TaskOK

LEMMA UseBeginShape ==
  ASSUME TypeOK, NEW t \in Tasks, NEW i \in Identities, UseBegin(t, i)
  PROVE  /\ TaskOK' /\ \A u \in Tasks \ {t} : task'[u] = task[u]
         /\ task'[t].op = "use" /\ task'[t].todo = {}
         /\ \/ task'[t].pc = "idle" /\ task'[t].result = "raised"
            \/ task'[t].pc = "health" /\ task'[t].id = i /\ task'[t].ch = contexts[i]
<1>1. contexts[i] \in Channels \cup {NoChannel} /\ TaskOK
  BY DEF TypeOK, TaskOK
<1>2. CASE contexts[i] = NoChannel
  <2>0. PICK rec : rec = [NewTask EXCEPT !.op = "use", !.result = "raised"]
    OBVIOUS
  <2>1. /\ rec \in Task /\ rec.pc = "idle" /\ rec.ch = NoChannel
        /\ rec.op = "use" /\ rec.todo = {} /\ rec.result = "raised"
    BY <2>0, AnyIdentityType DEF NewTask, Task
  <2>2. Moves(t, rec)
    BY <1>2, <2>0 DEF UseBegin
  <2>. QED BY <1>1, <2>1, <2>2, MovesType, MovesShape DEF TaskOK
<1>3. CASE contexts[i] # NoChannel
  <2>0. PICK rec : rec = [NewTask EXCEPT !.pc = "health", !.op = "use", !.id = i, !.ch = contexts[i]]
    OBVIOUS
  <2>1. /\ rec \in Task /\ rec.pc = "health" /\ rec.op = "use" /\ rec.id = i /\ rec.ch = contexts[i]
        /\ rec.todo = {}
    BY <1>1, <1>3, <2>0, AnyIdentityType DEF NewTask, Task
  <2>2. Moves(t, rec)
    BY <1>3, <2>0 DEF UseBegin
  <2>. QED BY <1>1, <1>3, <2>1, <2>2, MovesType, MovesShape DEF TaskOK
<1>. QED BY <1>2, <1>3

LEMMA CloseBeginShape ==
  ASSUME TypeOK, NEW t \in Tasks, CloseBegin(t)
  PROVE  /\ TaskOK' /\ vault' \in {"stored", "expired", "wiped"}
         /\ \A u \in Tasks \ {t} : task'[u] = task[u]
         /\ task'[t].op = "close"
         /\ \/ /\ task'[t].pc = "idle" /\ task'[t].todo = {}
               /\ Registered = {} /\ vault' = "wiped"
            \/ task'[t].pc = "closing" /\ task'[t].todo = Registered
<1>1. Registered \subseteq Channels /\ TaskOK
  BY DEF TypeOK, TaskOK, Registered
<1>2. CASE Registered = {}
  <2>0. PICK rec : rec = [NewTask EXCEPT !.op = "close", !.result = "ok"]
    OBVIOUS
  <2>1. /\ rec \in Task /\ rec.pc = "idle" /\ rec.ch = NoChannel
        /\ rec.op = "close" /\ rec.todo = {}
    BY <2>0, AnyIdentityType DEF NewTask, Task
  <2>2. Moves(t, rec) /\ vault' = "wiped"
    BY <1>2, <2>0 DEF CloseBegin, VaultAfterDrop
  <2>3. TaskOK' /\ task'[t] = rec /\ \A u \in Tasks \ {t} : task'[u] = task[u]
    BY <1>1, <2>1, <2>2, MovesType, MovesShape DEF TaskOK
  <2>. QED BY <1>2, <2>1, <2>2, <2>3
<1>3. CASE Registered # {}
  <2>0. PICK rec : rec = [NewTask EXCEPT !.pc = "closing", !.op = "close", !.todo = Registered]
    OBVIOUS
  <2>1. /\ rec \in Task /\ rec.pc = "closing" /\ rec.todo = Registered /\ rec.ch = NoChannel
        /\ rec.op = "close"
    BY <1>1, <2>0, AnyIdentityType DEF NewTask, Task
  <2>2. Moves(t, rec) /\ vault' = vault
    BY <1>3, <2>0 DEF CloseBegin
  <2>3. TaskOK' /\ task'[t] = rec /\ \A u \in Tasks \ {t} : task'[u] = task[u]
    BY <1>1, <2>1, <2>2, MovesType, MovesShape DEF TaskOK
  <2>. QED BY <2>1, <2>2, <2>3 DEF TypeOK
<1>. QED BY <1>2, <1>3

LEMMA ClosesShape ==
  ASSUME channel \in [Channels -> Channel], NEW c \in Channels, Closes(c)
  PROVE  /\ channel' \in [Channels -> Channel]
         /\ channel'[c].state = "closed" /\ channel'[c].of = channel[c].of
         /\ channel'[c].relogins = channel[c].relogins
         /\ \A d \in Channels \ {c} : channel'[d] = channel[d]
<1>1. PICK rec : rec = [channel[c] EXCEPT !.state = "closed"]
  OBVIOUS
<1>2. rec \in Channel /\ rec.state = "closed" /\ rec.of = channel[c].of /\ rec.relogins = channel[c].relogins
  BY <1>1 DEF Channel
<1>3. channel' = [channel EXCEPT ![c] = rec]
  BY <1>1 DEF Closes
<1>. QED BY <1>2, <1>3

LEMMA CloseNextShape ==
  ASSUME TypeOK, NEW t \in Tasks, CloseNext(t)
  PROVE  /\ TaskOK' /\ vault' \in {"stored", "expired", "wiped"}
         /\ \A u \in Tasks \ {t} : task'[u] = task[u]
         /\ \/ task'[t].pc = "idle"
            \/ task'[t].pc = "closing" /\ task'[t].todo \subseteq task[t].todo
         /\ \/ channel' = channel
            \/ \E c \in task[t].todo : Closes(c)
<1>1. TaskOK /\ task[t] \in Task /\ task[t].pc = "closing" /\ vault \in {"stored", "expired", "wiped"}
  BY DEF TypeOK, TaskOK, CloseNext
<1>2. CASE Ends(t, "raised") /\ UNCHANGED <<channel, vault>>
  BY <1>1, <1>2, EndsKeepsType
<1>3. ASSUME NEW c \in task[t].todo, Closes(c), Finish(t)
      PROVE  /\ TaskOK' /\ vault' \in {"stored", "expired", "wiped"}
             /\ \A u \in Tasks \ {t} : task'[u] = task[u] /\ task'[t].pc = "idle"
  BY <1>1, <1>3, EndsKeepsType DEF Finish, VaultAfterDrop
<1>4. ASSUME NEW c \in task[t].todo, Closes(c),
             Moves(t, [task[t] EXCEPT !.todo = @ \ {c}]), UNCHANGED vault
      PROVE  /\ TaskOK' /\ vault' \in {"stored", "expired", "wiped"}
             /\ \A u \in Tasks \ {t} : task'[u] = task[u]
             /\ task'[t].pc = "closing" /\ task'[t].todo \subseteq task[t].todo
  <2>0. PICK rec : rec = [task[t] EXCEPT !.todo = @ \ {c}]
    OBVIOUS
  <2>1. /\ rec \in Task /\ rec.pc = "closing" /\ rec.ch = task[t].ch /\ rec.todo \subseteq task[t].todo
    BY <1>1, <2>0 DEF Task
  <2>2. Moves(t, rec)
    BY <1>4, <2>0
  <2>3. rec.ch = NoChannel
    BY <1>1, <2>1 DEF TaskOK
  <2>. QED BY <1>1, <1>4, <2>1, <2>2, <2>3, MovesType, MovesShape DEF TaskOK
<1>5. \/ Ends(t, "raised") /\ UNCHANGED <<channel, vault>>
      \/ \E c \in task[t].todo : Closes(c) /\ Finish(t)
      \/ \E c \in task[t].todo : Closes(c) /\ Moves(t, [task[t] EXCEPT !.todo = @ \ {c}]) /\ UNCHANGED vault
  BY DEF CloseNext
<1>6. ASSUME NEW c \in task[t].todo, Closes(c), Finish(t) PROVE task'[t].pc = "idle"
  BY <1>1, <1>6, EndsKeepsType DEF Finish
<1>. QED BY <1>2, <1>3, <1>4, <1>5, <1>6

(* The same step channel by channel. *)
LEMMA CloseNextCases ==
  ASSUME TypeOK, NEW t \in Tasks, CloseNext(t)
  PROVE  /\ task'[t].op = task[t].op
         /\ \/ ChannelErrors /\ channel' = channel /\ task'[t].pc = "idle" /\ task'[t].todo = {}
            \/ \E c \in task[t].todo :
                  /\ Closes(c)
                  /\ \/ /\ task'[t].pc = "idle" /\ task'[t].todo = {}
                        /\ task[t].todo = {c} /\ vault' = "wiped"
                     \/ /\ task'[t].pc = "closing" /\ task'[t].todo = task[t].todo \ {c}
                        /\ vault' = vault
<1>1. TaskOK /\ task[t] \in Task /\ task[t].pc = "closing"
  BY DEF TypeOK, TaskOK, CloseNext
<1>2. CASE ChannelErrors /\ Ends(t, "raised") /\ UNCHANGED <<channel, vault>>
  BY <1>1, <1>2, EndsKeepsType
<1>3. ASSUME NEW c \in task[t].todo, Closes(c), task[t].todo = {c}, Finish(t)
      PROVE  /\ task'[t].op = task[t].op /\ task'[t].pc = "idle" /\ task'[t].todo = {}
             /\ vault' = "wiped"
  BY <1>1, <1>3, EndsKeepsType DEF Finish, VaultAfterDrop
<1>4. ASSUME NEW c \in task[t].todo, Closes(c),
             Moves(t, [task[t] EXCEPT !.todo = @ \ {c}]), UNCHANGED vault
      PROVE  /\ task'[t].op = task[t].op /\ task'[t].pc = "closing"
             /\ task'[t].todo = task[t].todo \ {c} /\ vault' = vault
  <2>0. PICK rec : rec = [task[t] EXCEPT !.todo = @ \ {c}]
    OBVIOUS
  <2>1. rec.op = task[t].op /\ rec.pc = "closing" /\ rec.todo = task[t].todo \ {c}
    BY <1>1, <2>0 DEF Task
  <2>2. Moves(t, rec)
    BY <1>4, <2>0
  <2>. QED BY <1>1, <1>4, <2>1, <2>2, MovesShape DEF TaskOK
<1>. QED BY <1>2, <1>3, <1>4 DEF CloseNext

LEMMA OldClosedShape ==
  ASSUME TypeOK, NEW t \in Tasks, OldClosed(t)
  PROVE  \/ /\ TaskOK' /\ UNCHANGED <<channel, vault>> /\ task'[t].pc = "idle"
            /\ \A u \in Tasks \ {t} : task'[u] = task[u]
         \/ \E others \in [Channels -> Channel] :
               /\ Connect(t, task[t].id, others)
               /\ \A c \in Channels \ {task[t].ch} : others[c] = channel[c]
<1>1. TaskOK /\ task[t] \in Task /\ task[t].ch \in Channels
  BY DEF TypeOK, TaskOK, Task, OldClosed
<1>2. CASE Ends(t, "raised") /\ UNCHANGED <<channel, vault>>
  BY <1>1, <1>2, EndsKeepsType
<1>3. CASE Connect(t, task[t].id, [channel EXCEPT ![task[t].ch].state = "closed"])
  <2>1. PICK rec : rec = [channel[task[t].ch] EXCEPT !.state = "closed"]
    OBVIOUS
  <2>2. rec \in Channel
    BY <1>1, <2>1 DEF Channel, TypeOK
  <2>3. PICK others : others = [channel EXCEPT ![task[t].ch] = rec]
    OBVIOUS
  <2>4. others \in [Channels -> Channel] /\ \A c \in Channels \ {task[t].ch} : others[c] = channel[c]
    BY <1>1, <2>2, <2>3 DEF TypeOK
  <2>5. Connect(t, task[t].id, others)
    BY <1>3, <2>1, <2>3
  <2>. QED BY <2>4, <2>5
<1>. QED BY <1>2, <1>3 DEF OldClosed

LEMMA OpenedShape ==
  ASSUME TypeOK, NEW t \in Tasks, Opened(t)
  PROVE  /\ TaskOK' /\ task'[t].pc = "idle" /\ task[t].ch \in Channels
         /\ task'[t].op = "open" /\ task'[t].todo = {}
         /\ \A u \in Tasks \ {t} :
               \/ task[u].pc = "idle" /\ task'[u] = task[u]
               \/ /\ task'[u].fresh = task[u].fresh \cup {task[t].ch}
                  /\ task'[u].pc = task[u].pc /\ task'[u].op = task[u].op /\ task'[u].id = task[u].id
                  /\ task'[u].ch = task[u].ch /\ task'[u].todo = task[u].todo
<1>. DEFINE c == task[t].ch
<1>1. TaskOK /\ c \in Channels /\ \A u \in Tasks : task[u] \in Task
  BY DEF TypeOK, TaskOK, Task, Opened
<1>2. PICK rec : rec = [NewTask EXCEPT !.op = "open", !.result = "ok"]
  OBVIOUS
<1>3. rec \in Task /\ rec.pc = "idle" /\ rec.ch = NoChannel /\ rec.op = "open" /\ rec.todo = {}
  BY <1>2, AnyIdentityType DEF NewTask, Task
<1>4. \A u \in Tasks : task'[u] = IF u = t THEN rec ELSE IF task[u].pc = "idle" THEN task[u]
                                  ELSE [task[u] EXCEPT !.fresh = @ \cup {c}]
  BY <1>2 DEF Opened, Idle
<1>5. ASSUME NEW u \in Tasks \ {t}, task[u].pc # "idle"
      PROVE  /\ task'[u] \in Task /\ task'[u].fresh = task[u].fresh \cup {c}
             /\ task'[u].pc = task[u].pc /\ task'[u].op = task[u].op /\ task'[u].id = task[u].id
             /\ task'[u].ch = task[u].ch /\ task'[u].todo = task[u].todo
  <2>1. PICK r : r = [task[u] EXCEPT !.fresh = @ \cup {c}]
    OBVIOUS
  <2>2. /\ r \in Task /\ r.fresh = task[u].fresh \cup {c} /\ r.pc = task[u].pc /\ r.op = task[u].op
        /\ r.id = task[u].id /\ r.ch = task[u].ch /\ r.todo = task[u].todo
    BY <1>1, <2>1 DEF Task
  <2>3. task'[u] = r
    BY <1>4, <1>5, <2>1
  <2>. QED BY <2>2, <2>3
<1>6. \A u \in Tasks \ {t} : task[u].pc = "idle" => task'[u] = task[u]
  BY <1>4
<1>7. task'[t] = rec
  BY <1>4
<1>8. DOMAIN task' = Tasks /\ task' = [u \in Tasks |-> task'[u]]
  BY DEF Opened
<1>9. task' \in [Tasks -> Task]
  BY <1>1, <1>3, <1>5, <1>6, <1>7, <1>8
<1>10. TaskOK'
  BY <1>1, <1>3, <1>5, <1>6, <1>7, <1>9 DEF TaskOK
<1>. QED BY <1>1, <1>3, <1>5, <1>6, <1>7, <1>10

LEMMA ReloginShape ==
  ASSUME TypeOK, NEW t \in Tasks, Relogin(t)
  PROVE  /\ TaskOK' /\ vault' \in {"stored", "expired", "wiped"}
         /\ \A u \in Tasks \ {t} : task'[u] = task[u]
         /\ task'[t].op = task[t].op
         /\ \/ task'[t].pc = "idle" /\ task'[t].todo = {} /\ task'[t].result = "raised"
            \/ /\ task'[t].pc = "login" /\ task'[t].id = task[t].id /\ task'[t].ch = task[t].ch
               /\ task'[t].fresh = task[t].fresh /\ task'[t].todo = task[t].todo
         /\ task[t].ch \in Channels /\ task[t].pc = "health"
         /\ channel[task[t].ch].relogins < MaxRelogins
         /\ channel' \in [Channels -> Channel]
         /\ \A c \in Channels : /\ channel'[c].state = channel[c].state /\ channel'[c].of = channel[c].of
                                /\ c # task[t].ch => channel'[c].relogins = channel[c].relogins
         /\ channel'[task[t].ch].relogins = channel[task[t].ch].relogins + 1
<1>. DEFINE c == task[t].ch
<1>1. TaskOK /\ task[t] \in Task /\ c \in Channels /\ task[t].pc = "health" /\ channel \in [Channels -> Channel]
  BY DEF TypeOK, TaskOK, Task, Relogin
<1>2. /\ channel[c].relogins < MaxRelogins /\ vault' \in {"stored", "expired", "wiped"}
      /\ Moves(t, [task[t] EXCEPT !.pc = "login"]) \/ Ends(t, "raised")
  BY DEF Relogin, VaultAfterGet, TypeOK
<1>3. PICK rec : rec = [channel[c] EXCEPT !.relogins = @ + 1]
  OBVIOUS
<1>4. rec.state = channel[c].state /\ rec.of = channel[c].of /\ rec.relogins = channel[c].relogins + 1
  BY <1>1, <1>3 DEF Channel
<1>5. channel[c].relogins + 1 \in Nat
  BY <1>1 DEF Channel
<1>6. rec \in Channel
  BY <1>1, <1>3, <1>5 DEF Channel
<1>7. channel' = [channel EXCEPT ![c] = rec]
  BY <1>3 DEF Relogin
<1>8. CASE Moves(t, [task[t] EXCEPT !.pc = "login"])
  BY <1>1, <1>2, <1>4, <1>6, <1>7, <1>8, MovesToShape
<1>9. CASE Ends(t, "raised")
  BY <1>1, <1>2, <1>4, <1>6, <1>7, <1>9, EndsKeepsType
<1>. QED BY <1>2, <1>8, <1>9

LEMMA TypeStep == TypeOK /\ [Next]_vars => TypeOK'
<1>. SUFFICES ASSUME TypeOK, [Next]_vars PROVE TypeOK'
  OBVIOUS
<1>0. /\ TaskOK /\ contexts \in [Identities -> Channels \cup {NoChannel}]
      /\ channel \in [Channels -> Channel]
      /\ live \subseteq Channels /\ expiries \in 0 .. MaxExpiries
      /\ vault \in {"stored", "expired", "wiped"}
  BY DEF TypeOK, TaskOK
<1>. DEFINE Rest == /\ contexts' \in [Identities -> Channels \cup {NoChannel}]
                    /\ channel' \in [Channels -> Channel]
                    /\ live' \subseteq Channels /\ expiries' \in 0 .. MaxExpiries
                    /\ vault' \in {"stored", "expired", "wiped"}
<1>1. SUFFICES TaskOK' /\ Rest
  BY DEF TypeOK, TaskOK
<1>2. ASSUME NEW t \in Tasks, NEW i \in Identities, OpenBegin(t, i) PROVE TaskOK' /\ Rest
  <2>1. contexts' \in [Identities -> Channels \cup {NoChannel}] /\ UNCHANGED <<live, expiries>>
    BY <1>0, <1>2 DEF OpenBegin
  <2>2. CASE contexts[i] = NoChannel
    <3>1. Connect(t, i, channel)
      BY <1>2, <2>2 DEF OpenBegin
    <3>. QED BY <1>0, <2>1, <3>1, ConnectShape
  <2>3. CASE contexts[i] # NoChannel
    BY <1>0, <1>2, <2>1, <2>3, OpenBeginShape
  <2>. QED BY <2>2, <2>3
<1>3. ASSUME NEW t \in Tasks, OldClosed(t) PROVE TaskOK' /\ Rest
  <2>1. UNCHANGED <<contexts, live, expiries>> /\ task[t].id \in Identities
    BY <1>0, <1>3 DEF OldClosed, TaskOK, Task
  <2>2. ASSUME NEW others \in [Channels -> Channel], Connect(t, task[t].id, others) PROVE TaskOK' /\ Rest
    BY <1>0, <2>1, <2>2, ConnectShape
  <2>. QED BY <1>0, <1>3, <2>1, <2>2, OldClosedShape
<1>4. ASSUME NEW t \in Tasks, LoginFailed(t) PROVE TaskOK' /\ Rest
  <2>1. UNCHANGED <<contexts, channel, live, expiries, vault>> /\ task[t].pc = "login"
    BY <1>4 DEF LoginFailed
  <2>2. Moves(t, [task[t] EXCEPT !.pc = "abort"]) \/ Ends(t, "raised")
    BY <1>4 DEF LoginFailed
  <2>. QED BY <1>0, <2>1, <2>2, MovesToShape, EndsKeepsType
<1>5. ASSUME NEW t \in Tasks, Abort(t) PROVE TaskOK' /\ Rest
  <2>1. /\ UNCHANGED <<contexts, live, expiries, vault>> /\ task[t].ch \in Channels
        /\ Ends(t, "raised") /\ (Closes(task[t].ch) \/ channel' = channel)
    BY <1>0, <1>5 DEF Abort, TaskOK, Task
  <2>. QED BY <1>0, <2>1, ClosesShape, EndsKeepsType
<1>6. ASSUME NEW t \in Tasks, Opened(t) PROVE TaskOK' /\ Rest
  <2>1. TaskOK' /\ task[t].ch \in Channels /\ task[t].id \in Identities
    BY <1>0, <1>6, OpenedShape DEF TaskOK, Task
  <2>2. /\ contexts' = [contexts EXCEPT ![task[t].id] = task[t].ch]
        /\ live' = live \cup {task[t].ch} /\ UNCHANGED <<channel, expiries, vault>>
    BY <1>6 DEF Opened
  <2>. QED BY <1>0, <2>1, <2>2
<1>7. ASSUME NEW t \in Tasks, NEW i \in Identities, UseBegin(t, i) PROVE TaskOK' /\ Rest
  BY <1>0, <1>7, UseBeginShape DEF UseBegin
<1>8. ASSUME NEW t \in Tasks, Healthy(t) \/ LoggedInAgain(t) PROVE TaskOK' /\ Rest
  <2>1. /\ UNCHANGED <<contexts, channel, expiries, vault>> /\ task[t].ch \in Channels
        /\ Ask(t, task[t].ch) /\ live' \subseteq live \cup {task[t].ch}
    BY <1>0, <1>8 DEF Healthy, LoggedInAgain, TaskOK, Task
  <2>. QED BY <1>0, <2>1, AskShape
<1>9. ASSUME NEW t \in Tasks, Relogin(t) PROVE TaskOK' /\ Rest
  BY <1>0, <1>9, ReloginShape DEF Relogin
<1>10. ASSUME NEW t \in Tasks, Unhealthy(t) \/ Asked(t) PROVE TaskOK' /\ Rest
  <2>1. /\ UNCHANGED <<contexts, channel, live, expiries, vault>>
        /\ Ends(t, "ok") \/ Ends(t, "raised")
    BY <1>10 DEF Unhealthy, Asked
  <2>. QED BY <1>0, <2>1, EndsKeepsType
<1>11. ASSUME NEW t \in Tasks, CloseBegin(t) PROVE TaskOK' /\ Rest
  <2>1. contexts' \in [Identities -> Channels \cup {NoChannel}] /\ UNCHANGED <<channel, live, expiries>>
    BY <1>0, <1>11 DEF CloseBegin
  <2>. QED BY <1>0, <1>11, <2>1, CloseBeginShape
<1>12. ASSUME NEW t \in Tasks, CloseNext(t) PROVE TaskOK' /\ Rest
  <2>1. UNCHANGED <<contexts, live, expiries>> /\ task[t].todo \subseteq Channels
    BY <1>0, <1>12 DEF CloseNext, TaskOK, Task
  <2>2. channel' \in [Channels -> Channel]
    BY <1>0, <1>12, <2>1, CloseNextShape, ClosesShape
  <2>. QED BY <1>0, <1>12, <2>1, <2>2, CloseNextShape
<1>13. CASE Environment
  <2>1. UNCHANGED task => TaskOK'
    BY <1>0 DEF TaskOK
  <2>2. CASE SecretTtl
    BY <1>0, <2>1, <2>2 DEF SecretTtl
  <2>3. ASSUME NEW c \in Channels, Expire(c) PROVE TaskOK' /\ Rest
    BY <1>0, <2>1, <2>3, SessionAssumption DEF Expire
  <2>. QED BY <1>13, <2>2, <2>3 DEF Environment
<1>14. CASE UNCHANGED vars
  BY <1>0, <1>14 DEF vars, TaskOK
<1>. HIDE DEF Rest
<1>. QED BY <1>2, <1>3, <1>4, <1>5, <1>6, <1>7, <1>8, <1>9, <1>10, <1>11, <1>12, <1>13, <1>14
         DEF Next, Continue

LEMMA InitType == Init => TypeOK
<1>. SUFFICES ASSUME Init PROVE TypeOK
  OBVIOUS
<1>1. [state |-> "unused", of |-> AnyIdentity, relogins |-> 0] \in Channel
  BY AnyIdentityType DEF Channel
<1>2. 0 \in 0 .. MaxExpiries
  BY SessionAssumption
<1>. QED BY <1>1, <1>2, NewTaskType DEF Init, TypeOK

(* Contexts, channels, sessions, secrets and coroutines are what they should be. *)
THEOREM TypeCorrect == Spec => []TypeOK
  BY InitType, TypeStep, PTL DEF Spec

-----------------------------------------------------------------------------
Opening(t) == task[t].pc = "login" /\ task[t].op = "open"

(* The channels a coroutine holds off the register: those it opens, closes or aborts. *)
Held(t) == {c \in Channels : \/ c = task[t].ch /\ (Opening(t) \/ task[t].pc \in {"closing_old", "abort"})
                             \/ c \in task[t].todo /\ task[t].pc = "closing"}

(* A channel is registered or held by one coroutine, never both; what is being opened
   for an identity is a channel of it. *)
RegisterInv ==
    /\ RegisteredIsOpen
    /\ \A t \in Tasks : \A c \in Held(t) : c \notin Registered /\ channel[c].state # "unused"
    /\ \A t, u \in Tasks : t # u => Held(t) \cap Held(u) = {}
    /\ \A t \in Tasks : Opening(t) => channel[task[t].ch].of = task[t].id

SameTask(u) == /\ task'[u].pc = task[u].pc /\ task'[u].op = task[u].op /\ task'[u].id = task[u].id
               /\ task'[u].ch = task[u].ch /\ task'[u].todo = task[u].todo

LEMMA HeldSame ==
  ASSUME NEW u, SameTask(u)
  PROVE  (Opening(u)' <=> Opening(u)) /\ Held(u)' = Held(u)
  BY DEF SameTask, Opening, Held

(* A step that registers nothing, holds nothing new and closes only what is held. *)
LEMMA RegisterKept ==
  ASSUME TypeOK, RegisterInv, NEW t \in Tasks,
         \A u \in Tasks \ {t} : SameTask(u),
         Held(t)' \subseteq Held(t),
         Opening(t)' => Opening(t) /\ SameTask(t),
         \A i \in Identities : contexts'[i] \in {contexts[i], NoChannel},
         \A c \in Channels : /\ channel'[c].of = channel[c].of
                             /\ channel[c].state # "unused" => channel'[c].state # "unused"
                             /\ c \in Registered => channel'[c].state = channel[c].state
  PROVE  RegisterInv'
<1>1. /\ \A u \in Tasks : Held(u)' \subseteq Held(u)
      /\ \A u \in Tasks : Opening(u)' => Opening(u) /\ SameTask(u)
  BY HeldSame
<1>2. Registered' \subseteq Registered /\ Registered \subseteq Channels
  BY DEF Registered, TypeOK
<1>3. RegisteredIsOpen'
  <2>1. ASSUME NEW i \in Identities, contexts'[i] # NoChannel
        PROVE  channel'[contexts'[i]].state = "open" /\ channel'[contexts'[i]].of = i
    <3>1. contexts'[i] = contexts[i] /\ contexts[i] \in Registered /\ contexts[i] \in Channels
      BY <1>2, <2>1 DEF Registered
    <3>2. channel[contexts[i]].state = "open" /\ channel[contexts[i]].of = i
      BY <2>1, <3>1 DEF RegisterInv, RegisteredIsOpen
    <3>3. /\ channel'[contexts[i]].of = channel[contexts[i]].of
          /\ channel'[contexts[i]].state = channel[contexts[i]].state
      BY <3>1
    <3>. QED BY <3>1, <3>2, <3>3
  <2>. QED BY <2>1 DEF RegisteredIsOpen
<1>4. \A u \in Tasks : Held(u) \subseteq Channels
  BY DEF Held
<1>5. \A u \in Tasks : \A c \in Held(u)' : c \notin Registered' /\ channel'[c].state # "unused"
  BY <1>1, <1>2, <1>4 DEF RegisterInv
<1>6. \A u, v \in Tasks : u # v => Held(u)' \cap Held(v)' = {}
  BY <1>1 DEF RegisterInv
<1>7. ASSUME NEW u \in Tasks, Opening(u)' PROVE channel'[task'[u].ch].of = task'[u].id
  <2>1. Opening(u) /\ SameTask(u)
    BY <1>1, <1>7
  <2>2. task[u].ch \in Channels
    BY <2>1 DEF TypeOK, Task, Opening
  <2>. QED BY <2>1, <2>2 DEF RegisterInv, SameTask
<1>. QED BY <1>3, <1>5, <1>6, <1>7 DEF RegisterInv

(* _login of open() up to its first await: the channel is one nobody has used. *)
LEMMA RegisterConnect ==
  ASSUME TypeOK, RegisterInv, NEW t \in Tasks, NEW i \in Identities,
         NEW others \in [Channels -> Channel], Connect(t, i, others), UNCHANGED contexts,
         \A c \in Channels : c \in Held(t) \/ others[c] = channel[c]
  PROVE  RegisterInv'
<1>1. /\ task'[t].op = "open" /\ task'[t].id = i /\ task'[t].pc \in {"login", "abort"}
      /\ \A u \in Tasks \ {t} : SameTask(u)
  BY ConnectShape DEF SameTask
<1>2. PICK c \in Channels : /\ task'[t].ch = c /\ channel[c].state = "unused"
                            /\ channel'[c].state = "open" /\ channel'[c].of = i
                            /\ \A d \in Channels \ {c} : channel'[d] = others[d]
  BY ConnectShape
<1>3. c \notin Registered /\ \A u \in Tasks : c \notin Held(u)
  BY <1>2 DEF RegisterInv, RegisteredIsOpen, Registered
<1>4. Held(t)' \subseteq {c}
  BY <1>1, <1>2 DEF Held
<1>5. \A u \in Tasks \ {t} : Held(u)' = Held(u) /\ (Opening(u)' <=> Opening(u))
  BY <1>1, HeldSame
<1>6. \A u \in Tasks : Held(u) \subseteq Channels
  BY DEF Held
<1>7. \A d \in Channels : d \notin Held(t) /\ d # c => channel'[d] = channel[d]
  BY <1>2
<1>8. Registered' = Registered /\ Registered \subseteq Channels
  BY DEF Registered, TypeOK
<1>9. RegisteredIsOpen'
  <2>1. ASSUME NEW j \in Identities, contexts[j] # NoChannel
        PROVE  channel'[contexts[j]].state = "open" /\ channel'[contexts[j]].of = j
    <3>1. contexts[j] \in Registered
      BY <2>1 DEF Registered
    <3>2. channel'[contexts[j]] = channel[contexts[j]]
      BY <1>3, <1>7, <1>8, <3>1 DEF RegisterInv
    <3>. QED BY <2>1, <3>2 DEF RegisterInv, RegisteredIsOpen
  <2>. QED BY <2>1 DEF RegisteredIsOpen
<1>10. ASSUME NEW u \in Tasks, NEW d \in Held(u)' PROVE d \notin Registered' /\ channel'[d].state # "unused"
  <2>1. CASE u = t
    BY <1>2, <1>3, <1>4, <1>8, <1>10, <2>1
  <2>2. CASE u # t
    <3>1. d \in Held(u) /\ d \in Channels /\ d # c /\ d \notin Held(t)
      BY <1>3, <1>5, <1>6, <1>10, <2>2 DEF RegisterInv
    <3>. QED BY <1>7, <1>8, <3>1 DEF RegisterInv
  <2>. QED BY <2>1, <2>2
<1>11. \A u, v \in Tasks : u # v => Held(u)' \cap Held(v)' = {}
  BY <1>3, <1>4, <1>5 DEF RegisterInv
<1>12. ASSUME NEW u \in Tasks, Opening(u)' PROVE channel'[task'[u].ch].of = task'[u].id
  <2>1. CASE u = t
    BY <1>1, <1>2, <2>1
  <2>2. CASE u # t
    <3>1. Opening(u) /\ SameTask(u) /\ task[u].ch \in Channels
      BY <1>1, <1>5, <1>12, <2>2, NoChannelApart DEF TypeOK, Task, Opening
    <3>2. task[u].ch \in Held(u)
      BY <3>1 DEF Held
    <3>3. task[u].ch # c /\ task[u].ch \notin Held(t)
      BY <1>3, <2>2, <3>2 DEF RegisterInv
    <3>. QED BY <1>7, <3>1, <3>3 DEF RegisterInv, SameTask
  <2>. QED BY <2>1, <2>2
<1>. QED BY <1>9, <1>10, <1>11, <1>12 DEF RegisterInv

(* Only a use probes, and only an opening or a use logs in. *)
OperationInv ==
    \A t \in Tasks : /\ task[t].pc = "health" => task[t].op = "use"
                     /\ task[t].pc = "login" => task[t].op \in {"open", "use"}

LEMMA OperationStep == TypeOK /\ OperationInv /\ [Next]_vars => OperationInv'
<1>. SUFFICES ASSUME TypeOK, OperationInv, [Next]_vars PROVE OperationInv'
  OBVIOUS
<1>0. TaskOK /\ \A t \in Tasks : task[t].ch \in Channels \cup {NoChannel} /\ task[t].id \in Identities
  BY DEF TypeOK, TaskOK, Task
<1>1. ASSUME NEW t \in Tasks, \A u \in Tasks \ {t} : task'[u] = task[u],
             \/ task'[t].pc \notin {"health", "login"}
             \/ task'[t].pc = "health" /\ task'[t].op = "use"
             \/ task'[t].pc = "login" /\ task'[t].op \in {"open", "use"}
      PROVE  OperationInv'
  BY <1>1 DEF OperationInv
<1>2. ASSUME NEW t \in Tasks, NEW i \in Identities, OpenBegin(t, i) PROVE OperationInv'
  <2>1. CASE contexts[i] = NoChannel
    <3>1. Connect(t, i, channel) /\ channel \in [Channels -> Channel]
      BY <1>2, <2>1 DEF OpenBegin, TypeOK
    <3>. QED BY <1>1, <3>1, ConnectShape
  <2>2. CASE contexts[i] # NoChannel
    BY <1>1, <1>2, <2>2, OpenBeginShape
  <2>. QED BY <2>1, <2>2
<1>3. ASSUME NEW t \in Tasks, OldClosed(t) PROVE OperationInv'
  <2>1. ASSUME NEW others \in [Channels -> Channel], Connect(t, task[t].id, others) PROVE OperationInv'
    BY <1>0, <1>1, <2>1, ConnectShape
  <2>. QED BY <1>1, <1>3, <2>1, OldClosedShape
<1>4. ASSUME NEW t \in Tasks, LoginFailed(t) \/ Abort(t) \/ Unhealthy(t) \/ Asked(t) PROVE OperationInv'
  <2>1. CASE LoginFailed(t) /\ Moves(t, [task[t] EXCEPT !.pc = "abort"])
    <3>1. task'[t].pc = "abort" /\ \A u \in Tasks \ {t} : task'[u] = task[u]
      BY <1>0, <2>1, MovesToShape DEF LoginFailed
    <3>. QED BY <1>1, <3>1
  <2>2. CASE Ends(t, "ok") \/ Ends(t, "raised")
    <3>1. task'[t].pc = "idle" /\ \A u \in Tasks \ {t} : task'[u] = task[u]
      BY <1>0, <2>2, EndsKeepsType
    <3>. QED BY <1>1, <3>1
  <2>. QED BY <1>4, <2>1, <2>2 DEF LoginFailed, Abort, Unhealthy, Asked
<1>5. ASSUME NEW t \in Tasks, Opened(t) PROVE OperationInv'
  BY <1>5, OpenedShape DEF OperationInv
<1>6. ASSUME NEW t \in Tasks, NEW i \in Identities, UseBegin(t, i) PROVE OperationInv'
  BY <1>1, <1>6, UseBeginShape
<1>7. ASSUME NEW t \in Tasks, Healthy(t) \/ LoggedInAgain(t) PROVE OperationInv'
  <2>1. Ask(t, task[t].ch) /\ task[t].ch \in Channels
    BY <1>0, <1>7 DEF Healthy, LoggedInAgain, TaskOK
  <2>. QED BY <1>1, <2>1, AskShape
<1>8. ASSUME NEW t \in Tasks, Relogin(t) PROVE OperationInv'
  <2>1. task[t].op = "use"
    BY <1>8 DEF Relogin, OperationInv
  <2>. QED BY <1>1, <1>8, <2>1, ReloginShape
<1>9. ASSUME NEW t \in Tasks, CloseBegin(t) \/ CloseNext(t) PROVE OperationInv'
  BY <1>1, <1>9, CloseBeginShape, CloseNextShape
<1>10. CASE Environment \/ UNCHANGED vars
  BY <1>10 DEF Environment, SecretTtl, Expire, vars, OperationInv
<1>. QED BY <1>2, <1>3, <1>4, <1>5, <1>6, <1>7, <1>8, <1>9, <1>10 DEF Next, Continue

LEMMA RegisterStep == TypeOK /\ OperationInv /\ RegisterInv /\ [Next]_vars => RegisterInv'
<1>. SUFFICES ASSUME TypeOK, OperationInv, RegisterInv, [Next]_vars PROVE RegisterInv'
  OBVIOUS
<1>0. /\ TaskOK /\ channel \in [Channels -> Channel]
      /\ \A t \in Tasks : task[t].ch \in Channels \cup {NoChannel} /\ task[t].id \in Identities
      /\ \A t \in Tasks : task[t].todo \subseteq Channels
      /\ \A t \in Tasks : Held(t) \subseteq Channels
      /\ \A c \in Registered : c \in Channels /\ channel[c].state = "open"
      /\ \A i \in Identities : contexts[i] \in Channels \cup {NoChannel}
  BY DEF TypeOK, TaskOK, Task, Held, RegisterInv, RegisteredIsOpen, Registered
(* The steps of one coroutine that leave it holding nothing, or what it held. *)
<1>1. ASSUME NEW t \in Tasks, \A u \in Tasks \ {t} : task'[u] = task[u],
             \/ task'[t].pc \in {"idle", "health", "asking"}
             \/ task'[t].pc = "abort" /\ Opening(t) /\ task'[t].ch = task[t].ch
             \/ SameTask(t)
             \/ task'[t].pc = "login" /\ task'[t].op = task[t].op /\ task[t].op # "open"
             \/ task'[t].pc = "closing" /\ task[t].pc = "closing" /\ task'[t].todo \subseteq task[t].todo,
             contexts' = contexts,
             \A c \in Channels : /\ channel'[c].of = channel[c].of
                                 /\ channel[c].state # "unused" => channel'[c].state # "unused"
                                 /\ c \in Registered => channel'[c].state = channel[c].state
      PROVE  RegisterInv'
  <2>1. \A u \in Tasks \ {t} : SameTask(u)
    BY <1>1 DEF SameTask
  <2>2. Held(t)' \subseteq Held(t)
    BY <1>1 DEF Held, Opening, SameTask
  <2>3. Opening(t)' => Opening(t) /\ SameTask(t)
    BY <1>1 DEF Opening, SameTask
  <2>. QED BY <1>1, <2>1, <2>2, <2>3, RegisterKept
<1>2. ASSUME NEW t \in Tasks, NEW i \in Identities, OpenBegin(t, i) PROVE RegisterInv'
  <2>1. /\ task[t].pc = "idle" /\ contexts'[i] = NoChannel
        /\ \A j \in Identities \ {i} : contexts'[j] = contexts[j]
    BY <1>2 DEF OpenBegin, Idle, TypeOK
  <2>2. Held(t) = {} /\ ~Opening(t)
    BY <2>1 DEF Held, Opening
  <2>3. CASE contexts[i] = NoChannel
    <3>1. contexts' = contexts
      BY <1>2, <2>3 DEF OpenBegin, TypeOK
    <3>2. Connect(t, i, channel)
      BY <1>2, <2>3 DEF OpenBegin
    <3>. QED BY <1>0, <3>1, <3>2, RegisterConnect
  <2>4. CASE contexts[i] # NoChannel
    <3>1. /\ UNCHANGED <<channel, vault>>
          /\ task'[t].pc = "closing_old" /\ task'[t].op = "open" /\ task'[t].id = i
          /\ task'[t].ch = contexts[i] /\ \A u \in Tasks \ {t} : task'[u] = task[u]
      BY <1>2, <2>4, OpenBeginShape
    <3>. DEFINE c == contexts[i]
    <3>2. c \in Registered /\ c \in Channels /\ channel[c].state = "open" /\ channel[c].of = i
      BY <1>0, <2>4 DEF Registered, RegisterInv, RegisteredIsOpen
    <3>3. Held(t)' = {c}
      BY <3>1, <3>2 DEF Held, Opening
    <3>4. \A u \in Tasks \ {t} : Held(u)' = Held(u) /\ (Opening(u)' <=> Opening(u))
      BY <3>1, HeldSame DEF SameTask
    <3>5. Registered' \subseteq Registered \ {c}
      BY <2>1, <2>4, <3>2 DEF Registered, RegisterInv, RegisteredIsOpen
    <3>6. \A u \in Tasks : c \notin Held(u)
      BY <3>2 DEF RegisterInv
    <3>7. RegisteredIsOpen'
      BY <2>1, <3>1 DEF RegisterInv, RegisteredIsOpen
    <3>8. \A u \in Tasks : \A d \in Held(u)' : d \notin Registered' /\ channel'[d].state # "unused"
      BY <3>1, <3>2, <3>3, <3>4, <3>5 DEF RegisterInv
    <3>9. \A u, v \in Tasks : u # v => Held(u)' \cap Held(v)' = {}
      BY <3>3, <3>4, <3>6 DEF RegisterInv
    <3>10. \A u \in Tasks : Opening(u)' => channel'[task'[u].ch].of = task'[u].id
      BY <3>1, <3>4 DEF RegisterInv, Opening
    <3>. QED BY <3>7, <3>8, <3>9, <3>10 DEF RegisterInv
  <2>. QED BY <2>3, <2>4
<1>3. ASSUME NEW t \in Tasks, OldClosed(t) PROVE RegisterInv'
  <2>1. contexts' = contexts /\ task[t].pc = "closing_old" /\ task[t].ch \in Channels
    BY <1>0, <1>3 DEF OldClosed, TaskOK
  <2>2. CASE task'[t].pc = "idle" /\ channel' = channel /\ \A u \in Tasks \ {t} : task'[u] = task[u]
    BY <1>1, <2>1, <2>2
  <2>3. ASSUME NEW others \in [Channels -> Channel], Connect(t, task[t].id, others),
               \A c \in Channels \ {task[t].ch} : others[c] = channel[c]
        PROVE  RegisterInv'
    <3>1. task[t].ch \in Held(t)
      BY <2>1 DEF Held
    <3>. QED BY <1>0, <2>1, <2>3, <3>1, RegisterConnect
  <2>. QED BY <1>3, <2>2, <2>3, OldClosedShape
<1>4. ASSUME NEW t \in Tasks, LoginFailed(t) PROVE RegisterInv'
  <2>1. UNCHANGED <<contexts, channel>> /\ task[t].pc = "login"
    BY <1>4 DEF LoginFailed
  <2>2. CASE task[t].op = "open" /\ Moves(t, [task[t] EXCEPT !.pc = "abort"])
    <3>1. /\ task'[t].pc = "abort" /\ task'[t].ch = task[t].ch
          /\ \A u \in Tasks \ {t} : task'[u] = task[u]
      BY <1>0, <2>1, <2>2, MovesToShape
    <3>. QED BY <1>1, <2>1, <2>2, <3>1 DEF Opening
  <2>3. CASE Ends(t, "raised")
    BY <1>0, <1>1, <2>1, <2>3, EndsKeepsType
  <2>. QED BY <1>4, <2>2, <2>3 DEF LoginFailed
<1>5. ASSUME NEW t \in Tasks, NEW c \in Held(t), Closes(c) \/ channel' = channel
      PROVE  \A d \in Channels : /\ channel'[d].of = channel[d].of
                                 /\ channel[d].state # "unused" => channel'[d].state # "unused"
                                 /\ d \in Registered => channel'[d].state = channel[d].state
  <2>1. c \in Channels /\ c \notin Registered
    BY <1>0 DEF RegisterInv
  <2>. QED BY <1>0, <1>5, <2>1, ClosesShape
<1>6. ASSUME NEW t \in Tasks, Abort(t) PROVE RegisterInv'
  <2>1. /\ contexts' = contexts /\ task[t].pc = "abort" /\ task[t].ch \in Channels
        /\ Ends(t, "raised") /\ (Closes(task[t].ch) \/ channel' = channel)
    BY <1>0, <1>6 DEF Abort, TaskOK
  <2>2. task[t].ch \in Held(t)
    BY <2>1 DEF Held
  <2>3. task'[t].pc = "idle" /\ \A u \in Tasks \ {t} : task'[u] = task[u]
    BY <1>0, <2>1, EndsKeepsType
  <2>. QED BY <1>1, <1>5, <2>1, <2>2, <2>3
<1>7. ASSUME NEW t \in Tasks, Opened(t) PROVE RegisterInv'
  <2>. DEFINE c == task[t].ch
  <2>1. /\ c \in Channels /\ Opening(t) /\ ~Closed(c) /\ task'[t].pc = "idle"
        /\ channel' = channel /\ contexts' = [contexts EXCEPT ![task[t].id] = c]
        /\ \A u \in Tasks \ {t} : SameTask(u)
    BY ZenonT(40), <1>7, OpenedShape DEF Opened, Opening, SameTask
  <2>2. c \in Held(t)
    BY <2>1 DEF Held
  <2>3. channel[c].state = "open" /\ channel[c].of = task[t].id
    <3>1. channel[c].state # "unused" /\ channel[c].state \in {"unused", "open", "closed"}
      BY <1>0, <2>1, <2>2 DEF RegisterInv, Channel
    <3>. QED BY <2>1, <3>1 DEF RegisterInv, Closed
  <2>4. Held(t)' = {} /\ ~Opening(t)'
    BY <2>1 DEF Held, Opening
  <2>5. \A u \in Tasks \ {t} : Held(u)' = Held(u) /\ (Opening(u)' <=> Opening(u))
    BY <2>1, HeldSame
  <2>6. \A u \in Tasks \ {t} : c \notin Held(u)
    BY <2>2 DEF RegisterInv
  <2>7. Registered' \subseteq Registered \cup {c}
    BY <2>1 DEF Registered, TypeOK
  <2>8. RegisteredIsOpen'
    BY <1>0, <2>1, <2>3 DEF RegisterInv, RegisteredIsOpen, TypeOK
  <2>9. \A u \in Tasks : \A d \in Held(u)' : d \notin Registered' /\ channel'[d].state # "unused"
    BY <2>1, <2>4, <2>5, <2>6, <2>7 DEF RegisterInv
  <2>10. \A u, v \in Tasks : u # v => Held(u)' \cap Held(v)' = {}
    BY <2>4, <2>5 DEF RegisterInv
  <2>11. \A u \in Tasks : Opening(u)' => channel'[task'[u].ch].of = task'[u].id
    BY <2>1, <2>4, <2>5 DEF RegisterInv, SameTask
  <2>. QED BY <2>8, <2>9, <2>10, <2>11 DEF RegisterInv
<1>8. ASSUME NEW t \in Tasks, NEW i \in Identities, UseBegin(t, i) PROVE RegisterInv'
  <2>1. UNCHANGED <<contexts, channel>>
    BY <1>8 DEF UseBegin
  <2>. QED BY <1>1, <1>8, <2>1, UseBeginShape
<1>9. ASSUME NEW t \in Tasks, Healthy(t) \/ LoggedInAgain(t) PROVE RegisterInv'
  <2>1. UNCHANGED <<contexts, channel>> /\ Ask(t, task[t].ch) /\ task[t].ch \in Channels
    BY <1>0, <1>9 DEF Healthy, LoggedInAgain, TaskOK
  <2>. QED BY <1>1, <2>1, AskShape
<1>10. ASSUME NEW t \in Tasks, Relogin(t) PROVE RegisterInv'
  <2>1. contexts' = contexts
    BY <1>10 DEF Relogin
  <2>2. /\ \A u \in Tasks \ {t} : task'[u] = task[u]
        /\ task'[t].pc = "idle" \/ (task'[t].pc = "login" /\ task'[t].op = task[t].op)
        /\ \A c \in Channels : channel'[c].state = channel[c].state /\ channel'[c].of = channel[c].of
    BY <1>10, ReloginShape
  <2>3. task[t].op # "open"
    BY <1>10 DEF Relogin, OperationInv
  <2>. QED BY <1>1, <2>1, <2>2, <2>3
<1>11. ASSUME NEW t \in Tasks, Unhealthy(t) \/ Asked(t) PROVE RegisterInv'
  <2>1. UNCHANGED <<contexts, channel>> /\ (Ends(t, "ok") \/ Ends(t, "raised"))
    BY <1>11 DEF Unhealthy, Asked
  <2>2. task'[t].pc = "idle" /\ \A u \in Tasks \ {t} : task'[u] = task[u]
    BY <1>0, <2>1, EndsKeepsType
  <2>. QED BY <1>1, <2>1, <2>2
<1>12. ASSUME NEW t \in Tasks, CloseBegin(t) PROVE RegisterInv'
  <2>1. /\ task[t].pc = "idle" /\ channel' = channel /\ Registered' = {}
        /\ \A i \in Identities : contexts'[i] = NoChannel
    BY <1>12 DEF CloseBegin, Idle, Registered
  <2>2. /\ \A u \in Tasks \ {t} : task'[u] = task[u]
        /\ task'[t].pc = "idle" \/ (task'[t].pc = "closing" /\ task'[t].todo = Registered)
    BY <1>12, CloseBeginShape
  <2>3. Held(t)' \subseteq Registered /\ ~Opening(t)'
    BY <2>2 DEF Held, Opening
  <2>4. \A u \in Tasks \ {t} : Held(u)' = Held(u) /\ (Opening(u)' <=> Opening(u))
    BY <2>2, HeldSame DEF SameTask
  <2>5. RegisteredIsOpen'
    BY <2>1 DEF RegisteredIsOpen
  <2>6. \A u \in Tasks : \A d \in Held(u)' : d \notin Registered' /\ channel'[d].state # "unused"
    BY <1>0, <2>1, <2>3, <2>4 DEF RegisterInv
  <2>7. \A u, v \in Tasks : u # v => Held(u)' \cap Held(v)' = {}
    BY <2>3, <2>4 DEF RegisterInv
  <2>8. \A u \in Tasks : Opening(u)' => channel'[task'[u].ch].of = task'[u].id
    BY <2>1, <2>2, <2>3, <2>4 DEF RegisterInv
  <2>. QED BY <2>5, <2>6, <2>7, <2>8 DEF RegisterInv
<1>13. ASSUME NEW t \in Tasks, CloseNext(t) PROVE RegisterInv'
  <2>1. contexts' = contexts /\ task[t].pc = "closing"
    BY <1>13 DEF CloseNext
  <2>2. /\ \A u \in Tasks \ {t} : task'[u] = task[u]
        /\ \/ task'[t].pc = "idle"
           \/ task'[t].pc = "closing" /\ task'[t].todo \subseteq task[t].todo
        /\ channel' = channel \/ \E c \in task[t].todo : Closes(c)
    BY <1>13, CloseNextShape
  <2>3. \A c \in task[t].todo : c \in Held(t)
    BY <1>0, <2>1 DEF Held
  <2>4. \A d \in Channels : /\ channel'[d].of = channel[d].of
                            /\ channel[d].state # "unused" => channel'[d].state # "unused"
                            /\ d \in Registered => channel'[d].state = channel[d].state
    BY <1>5, <2>2, <2>3
  <2>. QED BY <1>1, <2>1, <2>2, <2>4
<1>14. CASE Environment \/ UNCHANGED vars
  <2>1. UNCHANGED <<contexts, channel, task>>
    BY <1>14 DEF Environment, SecretTtl, Expire, vars
  <2>2. Registered' = Registered /\ RegisteredIsOpen'
    BY <2>1 DEF Registered, RegisterInv, RegisteredIsOpen
  <2>3. \A u \in Tasks : Held(u)' = Held(u) /\ (Opening(u)' <=> Opening(u))
    BY <2>1 DEF Held, Opening
  <2>. QED BY <2>1, <2>2, <2>3 DEF RegisterInv
<1>. QED BY <1>2, <1>3, <1>4, <1>6, <1>7, <1>8, <1>9, <1>10, <1>11, <1>12, <1>13, <1>14
         DEF Next, Continue

LEMMA InitRegister == Init => OperationInv /\ RegisterInv
  BY NewTaskType DEF Init, OperationInv, RegisterInv, RegisteredIsOpen, Registered, Held, Opening

(* What is registered for an identity is an open channel of that identity, in every order
   of openings, re-openings and closings (session.py: open registers the channel it has
   logged in last, and forgets the old one before it awaits its end). *)
THEOREM RegisteredStaysOpen == Spec => []RegisteredIsOpen
<1>1. RegisterInv => RegisteredIsOpen
  BY DEF RegisterInv
<1>. QED BY <1>1, InitType, InitRegister, TypeStep, OperationStep, RegisterStep, PTL DEF Spec

-----------------------------------------------------------------------------
LEMMA ReloginsStep == TypeOK /\ ReloginsBounded /\ [Next]_vars => ReloginsBounded'
<1>. SUFFICES ASSUME TypeOK, ReloginsBounded, [Next]_vars PROVE ReloginsBounded'
  OBVIOUS
<1>0. /\ TaskOK /\ channel \in [Channels -> Channel] /\ 0 <= MaxRelogins /\ MaxRelogins \in Nat
      /\ \A t \in Tasks : task[t].ch \in Channels \cup {NoChannel} /\ task[t].id \in Identities
      /\ \A t \in Tasks : task[t].todo \subseteq Channels
      /\ \A c \in Channels : channel[c].relogins <= MaxRelogins /\ channel[c].relogins \in Nat
  BY SessionAssumption DEF TypeOK, TaskOK, Task, Channel, ReloginsBounded
<1>1. ASSUME \/ channel' = channel
             \/ \E c \in Channels : Closes(c)
      PROVE  ReloginsBounded'
  BY <1>0, <1>1, ClosesShape DEF ReloginsBounded
<1>2. ASSUME NEW t \in Tasks, NEW i \in Identities, NEW others \in [Channels -> Channel],
             Connect(t, i, others), NEW d, \A c \in Channels \ {d} : others[c] = channel[c],
             d \in Channels => others[d].relogins = channel[d].relogins
      PROVE  ReloginsBounded'
  <2>1. \A c \in Channels : others[c].relogins <= MaxRelogins
    BY <1>0, <1>2
  <2>2. \A c \in Channels : channel'[c].relogins = 0 \/ channel'[c] = others[c]
    BY <1>2, ConnectShape
  <2>. QED BY <1>0, <2>1, <2>2 DEF ReloginsBounded
<1>3. ASSUME NEW t \in Tasks, NEW i \in Identities, OpenBegin(t, i) PROVE ReloginsBounded'
  BY <1>0, <1>1, <1>2, <1>3 DEF OpenBegin
<1>4. ASSUME NEW t \in Tasks, OldClosed(t) PROVE ReloginsBounded'
  <2>1. task[t].ch \in Channels /\ task[t].id \in Identities
    BY <1>0, <1>4 DEF OldClosed, TaskOK
  <2>2. CASE UNCHANGED channel
    BY <1>1, <2>2
  <2>3. CASE Connect(t, task[t].id, [channel EXCEPT ![task[t].ch].state = "closed"])
    <3>1. PICK others : others = [channel EXCEPT ![task[t].ch].state = "closed"]
      OBVIOUS
    <3>2. /\ others \in [Channels -> Channel] /\ others[task[t].ch].relogins = channel[task[t].ch].relogins
          /\ \A c \in Channels \ {task[t].ch} : others[c] = channel[c]
      <4>1. PICK rec : rec = [channel[task[t].ch] EXCEPT !.state = "closed"]
        OBVIOUS
      <4>2. rec \in Channel /\ rec.relogins = channel[task[t].ch].relogins
        BY <1>0, <2>1, <4>1 DEF Channel
      <4>3. others = [channel EXCEPT ![task[t].ch] = rec]
        BY <3>1, <4>1
      <4>. QED BY <1>0, <2>1, <4>2, <4>3
    <3>3. Connect(t, task[t].id, others)
      BY <2>3, <3>1
    <3>. QED BY <1>2, <2>1, <3>2, <3>3
  <2>. QED BY <1>4, <2>2, <2>3 DEF OldClosed
<1>5. ASSUME NEW t \in Tasks, Abort(t) \/ CloseNext(t) PROVE ReloginsBounded'
  BY <1>0, <1>1, <1>5 DEF Abort, CloseNext, TaskOK
<1>6. ASSUME NEW t \in Tasks, Relogin(t) PROVE ReloginsBounded'
  <2>1. /\ task[t].ch \in Channels /\ channel[task[t].ch].relogins < MaxRelogins
        /\ \A c \in Channels : c # task[t].ch => channel'[c].relogins = channel[c].relogins
        /\ channel'[task[t].ch].relogins = channel[task[t].ch].relogins + 1
    BY <1>6, ReloginShape
  <2>. QED BY <1>0, <2>1 DEF ReloginsBounded
<1>7. ASSUME NEW t \in Tasks, NEW i \in Identities, UseBegin(t, i) PROVE ReloginsBounded'
  BY <1>1, <1>7 DEF UseBegin
<1>8. ASSUME NEW t \in Tasks, LoginFailed(t) \/ Opened(t) \/ Healthy(t) \/ Unhealthy(t)
                              \/ LoggedInAgain(t) \/ Asked(t) \/ CloseBegin(t)
      PROVE  ReloginsBounded'
  BY <1>1, <1>8 DEF LoginFailed, Opened, Healthy, Unhealthy, LoggedInAgain, Asked, CloseBegin
<1>9. CASE Environment \/ UNCHANGED vars
  BY <1>1, <1>9 DEF Environment, SecretTtl, Expire, vars
<1>. QED BY <1>3, <1>4, <1>5, <1>6, <1>7, <1>8, <1>9 DEF Next, Continue

(* No session is logged in again more often than its profile allows: the limit is compared
   and the login counted without an await in between (session.py, assert_alive). *)
THEOREM ReloginsStayBounded == Spec => []ReloginsBounded
<1>1. Init => ReloginsBounded
  BY SessionAssumption DEF Init, ReloginsBounded
<1>. QED BY <1>1, InitType, TypeStep, ReloginsStep, PTL DEF Spec

-----------------------------------------------------------------------------
(* Until its request goes out, a use has verified what is registered, or is about to. *)
Verifying(t) == task[t].pc = "health" \/ (task[t].pc = "login" /\ task[t].op = "use")

VerifiedInv ==
    /\ AskedAfterVerification
    /\ \A t \in Tasks : Verifying(t) =>
          contexts[task[t].id] \in {NoChannel, task[t].ch} \cup task[t].fresh

LEMMA VerifiedStep == TypeOK /\ OperationInv /\ VerifiedInv /\ [Next]_vars => VerifiedInv'
<1>. SUFFICES ASSUME TypeOK, OperationInv, VerifiedInv, [Next]_vars PROVE VerifiedInv'
  OBVIOUS
<1>0. /\ TaskOK
      /\ \A t \in Tasks : task[t].ch \in Channels \cup {NoChannel} /\ task[t].id \in Identities
      /\ \A i \in Identities : contexts[i] \in Channels \cup {NoChannel}
  BY DEF TypeOK, TaskOK, Task
(* A step that registers nothing and after which its coroutine is not verifying anew. *)
<1>1. ASSUME NEW t \in Tasks, \A u \in Tasks \ {t} : task'[u] = task[u],
             \A i \in Identities : contexts'[i] \in {contexts[i], NoChannel},
             \/ task'[t].pc \notin {"health", "login", "asking"}
             \/ task'[t].pc = "login" /\ task'[t].op = "open"
             \/ /\ task'[t].pc \in {"health", "login"} /\ task'[t].id \in Identities
                /\ contexts'[task'[t].id] \in {NoChannel, task'[t].ch} \cup task'[t].fresh
             \/ task'[t].pc = "asking" /\ task'[t].ch \in task'[t].fresh
      PROVE  VerifiedInv'
  <2>1. \A u \in Tasks : task'[u].pc = "asking" => task'[u].ch \in task'[u].fresh
    BY <1>1 DEF VerifiedInv, AskedAfterVerification
  <2>2. \A u \in Tasks : Verifying(u)' =>
          contexts'[task'[u].id] \in {NoChannel, task'[u].ch} \cup task'[u].fresh
    BY <1>0, <1>1 DEF VerifiedInv, Verifying
  <2>. QED BY <2>1, <2>2 DEF VerifiedInv, AskedAfterVerification
<1>2. ASSUME NEW t \in Tasks, NEW i \in Identities, OpenBegin(t, i) PROVE VerifiedInv'
  <2>1. \A j \in Identities : contexts'[j] \in {contexts[j], NoChannel}
    BY <1>2 DEF OpenBegin, TypeOK
  <2>2. CASE contexts[i] = NoChannel
    <3>1. Connect(t, i, channel) /\ channel \in [Channels -> Channel]
      BY <1>2, <2>2 DEF OpenBegin, TypeOK
    <3>. QED BY <1>1, <2>1, <3>1, ConnectShape
  <2>3. CASE contexts[i] # NoChannel
    BY <1>1, <1>2, <2>1, <2>3, OpenBeginShape
  <2>. QED BY <2>2, <2>3
<1>3. ASSUME NEW t \in Tasks, OldClosed(t) PROVE VerifiedInv'
  <2>1. contexts' = contexts
    BY <1>3 DEF OldClosed
  <2>2. ASSUME NEW others \in [Channels -> Channel], Connect(t, task[t].id, others) PROVE VerifiedInv'
    BY <1>0, <1>1, <2>1, <2>2, ConnectShape
  <2>. QED BY <1>1, <1>3, <2>1, <2>2, OldClosedShape
<1>4. ASSUME NEW t \in Tasks, LoginFailed(t) \/ Abort(t) \/ Unhealthy(t) \/ Asked(t) PROVE VerifiedInv'
  <2>0. contexts' = contexts
    BY <1>4 DEF LoginFailed, Abort, Unhealthy, Asked
  <2>1. CASE LoginFailed(t) /\ Moves(t, [task[t] EXCEPT !.pc = "abort"])
    <3>1. task'[t].pc = "abort" /\ \A u \in Tasks \ {t} : task'[u] = task[u]
      BY <1>0, <2>1, MovesToShape DEF LoginFailed
    <3>. QED BY <1>1, <2>0, <3>1
  <2>2. CASE Ends(t, "ok") \/ Ends(t, "raised")
    <3>1. task'[t].pc = "idle" /\ \A u \in Tasks \ {t} : task'[u] = task[u]
      BY <1>0, <2>2, EndsKeepsType
    <3>. QED BY <1>1, <2>0, <3>1
  <2>. QED BY <1>4, <2>1, <2>2 DEF LoginFailed, Abort, Unhealthy, Asked
<1>5. ASSUME NEW t \in Tasks, Opened(t) PROVE VerifiedInv'
  <2>. DEFINE c == task[t].ch
  <2>1. /\ task'[t].pc = "idle"
        /\ \A u \in Tasks \ {t} : \/ task[u].pc = "idle" /\ task'[u] = task[u]
                                  \/ SameTask(u) /\ task'[u].fresh = task[u].fresh \cup {c}
    BY <1>5, OpenedShape DEF SameTask
  <2>2. \A i \in Identities : contexts'[i] = contexts[i] \/ contexts'[i] = c
    BY <1>5 DEF Opened, TypeOK
  <2>3. ASSUME NEW u \in Tasks, task'[u].pc = "asking" PROVE task'[u].ch \in task'[u].fresh
    BY <2>1, <2>3 DEF VerifiedInv, AskedAfterVerification, SameTask
  <2>4. ASSUME NEW u \in Tasks, Verifying(u)'
        PROVE  contexts'[task'[u].id] \in {NoChannel, task'[u].ch} \cup task'[u].fresh
    BY <1>0, <2>1, <2>2, <2>4 DEF VerifiedInv, Verifying, SameTask
  <2>. QED BY <2>3, <2>4 DEF VerifiedInv, AskedAfterVerification
<1>6. ASSUME NEW t \in Tasks, NEW i \in Identities, UseBegin(t, i) PROVE VerifiedInv'
  <2>1. contexts' = contexts
    BY <1>6 DEF UseBegin
  <2>. QED BY <1>1, <1>6, <2>1, UseBeginShape
<1>7. ASSUME NEW t \in Tasks, Healthy(t) \/ LoggedInAgain(t) PROVE VerifiedInv'
  <2>1. /\ contexts' = contexts /\ Ask(t, task[t].ch) /\ task[t].ch \in Channels /\ Verifying(t)
    BY <1>0, <1>7 DEF Healthy, LoggedInAgain, TaskOK, Verifying
  <2>2. contexts[task[t].id] \in {NoChannel, task[t].ch} \cup task[t].fresh
    BY <2>1 DEF VerifiedInv
  <2>. QED BY <1>1, <2>1, <2>2, AskShape
<1>8. ASSUME NEW t \in Tasks, Relogin(t) PROVE VerifiedInv'
  <2>1. contexts' = contexts /\ Verifying(t)
    BY <1>8 DEF Relogin, Verifying
  <2>2. contexts[task[t].id] \in {NoChannel, task[t].ch} \cup task[t].fresh
    BY <2>1 DEF VerifiedInv
  <2>. QED BY <1>0, <1>1, <1>8, <2>1, <2>2, ReloginShape
<1>9. ASSUME NEW t \in Tasks, CloseBegin(t) \/ CloseNext(t) PROVE VerifiedInv'
  <2>1. \A i \in Identities : contexts'[i] \in {contexts[i], NoChannel}
    BY <1>9 DEF CloseBegin, CloseNext
  <2>. QED BY <1>1, <1>9, <2>1, CloseBeginShape, CloseNextShape
<1>10. CASE Environment \/ UNCHANGED vars
  <2>1. UNCHANGED <<contexts, task>>
    BY <1>10 DEF Environment, SecretTtl, Expire, vars
  <2>. QED BY <2>1 DEF VerifiedInv, AskedAfterVerification, Verifying
<1>. QED BY <1>2, <1>3, <1>4, <1>5, <1>6, <1>7, <1>8, <1>9, <1>10 DEF Next, Continue

(* The channel a request goes out on was probed or logged in after that request began,
   even when the session was opened anew in between (session.py, request: the session is
   looked up again after assert_alive, without an await before the request). *)
THEOREM AskedOnVerified == Spec => []AskedAfterVerification
<1>1. Init => VerifiedInv
  BY NewTaskType DEF Init, VerifiedInv, AskedAfterVerification, Verifying
<1>2. VerifiedInv => AskedAfterVerification
  BY DEF VerifiedInv
<1>. QED BY <1>1, <1>2, InitType, InitRegister, TypeStep, OperationStep, VerifiedStep, PTL DEF Spec
-----------------------------------------------------------------------------
(* The scan.  It awaits one coroutine of the runtime at a time, so that its steps are
   steps of the sessions, or take the result of the coroutine that has ended. *)

T == task[Scanner]

(* What the scanner awaits is what its place in scan() calls for, and a request is made
   for a candidate. *)
PlaceInv ==
    /\ T.op # "none" => \/ step = "open" /\ T.op = "open"
                        \/ step \in Requests /\ T.op = "use"
                        \/ step = "close" /\ T.op = "close"
    /\ T.pc \in {"health", "asking"} => T.op = "use"
    /\ T.pc = "login" => T.op \in {"open", "use"}
    /\ T.pc = "abort" => T.op = "open"
    /\ T.pc = "closing" => T.op = "close"
    /\ T.pc # "closing_old"
    /\ step \in Requests => at \in Candidates

HandedStep == SessionOpened \/ Proceed \/ Verdict \/ ScanRaises \/ RuntimeClosed

(* The scanner takes the result of what has ended. *)
LEMMA HandedShape ==
  ASSUME TypeOK, HandedStep
  PROVE  /\ TaskOK' /\ UNCHANGED <<contexts, channel, live, expiries, vault>>
         /\ T'.pc = "idle" /\ T'.op = "none" /\ T'.todo = {} /\ T.pc = "idle" /\ T.op # "none"
<1>1. /\ T.op # "none" /\ T.pc = "idle" /\ Moves(Scanner, NewTask)
      /\ UNCHANGED <<contexts, channel, live, expiries, vault>>
  BY DEF HandedStep, SessionOpened, Proceed, Verdict, ScanRaises, RuntimeClosed, Returned, Ended, T, Idle
<1>2. TaskOK /\ Scanner \in Tasks
  BY ScanAssumption DEF TypeOK, TaskOK
<1>3. TaskOK' /\ T' = NewTask
  BY <1>1, <1>2, NewTaskType, MovesType, MovesShape DEF T, TaskOK
<1>. QED BY <1>1, <1>3, NewTaskType

LEMMA AsType ==
  ASSUME ScanTypeOK, PlaceInv, step \in Requests
  PROVE  As(step) \in Identities
BY DEF ScanTypeOK, PlaceInv, As, Candidate

LEMMA BeginShape ==
  ASSUME ScanTypeOK, PlaceInv, Begin
  PROVE  /\ T.pc = "idle" /\ T.op = "none" /\ UNCHANGED scanVars
         /\ \/ /\ step = "open"
               /\ \E i \in Identities : /\ contexts[i] = NoChannel /\ OpenBegin(Scanner, i)
                                        /\ Connect(Scanner, i, channel) /\ contexts' = contexts
            \/ step \in Requests /\ \E i \in Identities : UseBegin(Scanner, i)
            \/ step = "close" /\ CloseBegin(Scanner)
<1>1. ASSUME NEW i \in Identities, contexts[i] = NoChannel, OpenBegin(Scanner, i)
      PROVE  Connect(Scanner, i, channel) /\ contexts' = contexts
  BY <1>1 DEF OpenBegin, ScanTypeOK, TypeOK
<1>. QED BY <1>1, AsType DEF Begin, Idle, T

LEMMA SessionOrHanded ==
  ASSUME ScanTypeOK, PlaceInv, [ScanNext]_allVars
  PROVE  [Next]_vars \/ HandedStep
<1>. Scanner \in Tasks
  BY ScanAssumption
<1>1. CASE Begin
  BY <1>1, BeginShape DEF Next
<1>2. CASE Read \/ ReadRaises
  <2>1. Asked(Scanner)
    BY <1>2 DEF Read, ReadRaises, Asked
  <2>. QED BY <2>1 DEF Next, Continue
<1>3. CASE Session
  BY <1>3 DEF Session, Next, Continue
<1>4. CASE UNCHANGED allVars
  BY <1>4 DEF allVars, vars
<1>. QED BY <1>1, <1>2, <1>3, <1>4 DEF ScanNext, HandedStep

LEMMA NextCandidateShape ==
  ASSUME ScanTypeOK, NextCandidate
  PROVE  \/ step' = "close" /\ UNCHANGED <<at, page>>
         \/ step' = "owner" /\ at' \in Candidates /\ page' = NoPages
BY DEF NextCandidate

LEMMA ScanTypeStep == ScanTypeOK /\ PlaceInv /\ [ScanNext]_allVars => ScanTypeOK'
<1>. SUFFICES ASSUME ScanTypeOK, PlaceInv, [ScanNext]_allVars PROVE ScanTypeOK'
  OBVIOUS
<1>0. /\ TypeOK /\ candidates \in [Candidates -> Candidate] /\ permitted \in BOOLEAN
      /\ step \in Steps /\ at \in Candidates \cup {0}
      /\ page \in [Requests -> Pages] /\ observations \subseteq Candidates
      /\ NoPages \in [Requests -> Pages]
  BY DEF ScanTypeOK, NoPages, Pages
<1>1. TypeOK'
  <2>1. CASE HandedStep
    BY <1>0, <2>1, HandedShape DEF TypeOK, TaskOK
  <2>. QED BY <1>0, <2>1, SessionOrHanded, TypeStep
<1>2. UNCHANGED <<candidates, permitted>>
  BY DEF ScanNext, Begin, Read, ReadRaises, Session, SessionOpened, Proceed, Verdict, ScanRaises,
         RuntimeClosed, scanVars, allVars
<1>. DEFINE Goal == /\ step' \in Steps /\ at' \in Candidates \cup {0}
                    /\ page' \in [Requests -> Pages] /\ observations' \subseteq Candidates
<1>. SUFFICES Goal
  BY <1>0, <1>1, <1>2 DEF ScanTypeOK
<1>3. CASE Begin \/ ReadRaises \/ Session \/ UNCHANGED allVars
  BY <1>0, <1>3 DEF Begin, ReadRaises, Session, scanVars, allVars
<1>4. CASE Read
  <2>1. UNCHANGED <<step, at, observations>>
    BY <1>4 DEF Read
  <2>2. PICK p \in SiteAnswers(step, T.ch \in live) : page' = [page EXCEPT ![step] = p]
    BY <1>4 DEF Read, T
  <2>3. p \in Pages
    BY <2>2 DEF SiteAnswers, Pages
  <2>. QED BY <1>0, <2>1, <2>2, <2>3
<1>5. CASE SessionOpened
  BY <1>0, <1>5, NextCandidateShape DEF SessionOpened, Steps, Requests
<1>6. CASE Proceed
  BY <1>0, <1>6 DEF Proceed, Steps, Requests
<1>7. CASE Verdict
  <2>1. at \in Candidates
    BY <1>7 DEF Verdict, PlaceInv, Requests
  <2>2. observations' \subseteq observations \cup {at}
    BY <1>7 DEF Verdict
  <2>. QED BY <1>0, <1>7, <2>1, <2>2, NextCandidateShape DEF Verdict, Steps, Requests
<1>8. CASE ScanRaises
  BY <1>0, <1>8 DEF ScanRaises, Steps, Requests
<1>9. CASE RuntimeClosed
  BY <1>0, <1>9 DEF RuntimeClosed, Steps, Requests
<1>. HIDE DEF Goal
<1>. QED BY <1>3, <1>4, <1>5, <1>6, <1>7, <1>8, <1>9 DEF ScanNext
LEMMA PlaceStep == ScanTypeOK /\ PlaceInv /\ [ScanNext]_allVars => PlaceInv'
<1>. SUFFICES ASSUME ScanTypeOK, PlaceInv, [ScanNext]_allVars PROVE PlaceInv'
  OBVIOUS
<1>0. /\ TypeOK /\ TaskOK /\ Scanner \in Tasks
      /\ T.ch \in Channels \cup {NoChannel} /\ T.id \in Identities
      /\ T.pc \in {"idle", "closing_old", "login", "abort", "health", "asking", "closing"}
      /\ T.pc \in {"idle", "closing"} <=> T.ch = NoChannel
  BY ScanAssumption DEF ScanTypeOK, TypeOK, TaskOK, Task, T
<1>1. ASSUME UNCHANGED <<step, at>>, T'.op = T.op,
             \/ T'.pc \in {T.pc, "idle"}
             \/ T'.pc = "abort" /\ T.op = "open"
             \/ T'.pc \in {"asking", "login"} /\ T.op = "use"
      PROVE  PlaceInv'
  BY <1>1 DEF PlaceInv
<1>2. CASE Begin
  <2>1. ASSUME step = "open", NEW i \in Identities, Connect(Scanner, i, channel), UNCHANGED scanVars
        PROVE  PlaceInv'
    <3>1. T'.pc \in {"login", "abort"} /\ T'.op = "open"
      BY <1>0, <2>1, ConnectShape DEF T, TypeOK
    <3>. QED BY <2>1, <3>1 DEF PlaceInv, scanVars, Requests
  <2>2. ASSUME step \in Requests, NEW i \in Identities, UseBegin(Scanner, i), UNCHANGED scanVars
        PROVE  PlaceInv'
    <3>1. T'.pc \in {"idle", "health"} /\ T'.op = "use"
      BY <1>0, <2>2, UseBeginShape DEF T
    <3>. QED BY <2>2, <3>1 DEF PlaceInv, scanVars
  <2>3. ASSUME step = "close", CloseBegin(Scanner), UNCHANGED scanVars PROVE PlaceInv'
    <3>1. T'.pc \in {"idle", "closing"} /\ T'.op = "close"
      BY <1>0, <2>3, CloseBeginShape DEF T
    <3>. QED BY <2>3, <3>1 DEF PlaceInv, scanVars, Requests
  <2>. QED BY <1>2, <2>1, <2>2, <2>3, BeginShape
<1>3. CASE Read \/ ReadRaises
  <2>1. UNCHANGED <<step, at>> /\ (Ends(Scanner, "ok") \/ Ends(Scanner, "raised"))
    BY <1>3 DEF Read, ReadRaises, scanVars
  <2>. QED BY <1>0, <1>1, <2>1, EndsKeepsType DEF T
<1>4. CASE Session
  <2>0. UNCHANGED <<step, at>>
    BY <1>4 DEF Session, scanVars
  <2>1. CASE LoginFailed(Scanner)
    <3>1. CASE T.op = "open" /\ Moves(Scanner, [task[Scanner] EXCEPT !.pc = "abort"])
      <4>1. T'.pc = "abort" /\ T'.op = T.op
        BY <1>0, <2>1, <3>1, MovesToShape DEF T, LoginFailed
      <4>. QED BY <1>1, <2>0, <3>1, <4>1
    <3>2. CASE Ends(Scanner, "raised")
      BY <1>0, <1>1, <2>0, <3>2, EndsKeepsType DEF T
    <3>. QED BY <2>1, <3>1, <3>2 DEF LoginFailed, T
  <2>2. CASE Abort(Scanner) \/ Unhealthy(Scanner)
    BY <1>0, <1>1, <2>0, <2>2, EndsKeepsType DEF T, Abort, Unhealthy
  <2>3. CASE Opened(Scanner)
    <3>1. T'.pc = "idle" /\ T'.op = T.op
      BY <1>0, <2>3, OpenedShape DEF T, Opened
    <3>. QED BY <1>1, <2>0, <3>1
  <2>4. CASE Healthy(Scanner) \/ LoggedInAgain(Scanner)
    <3>1. Ask(Scanner, T.ch) /\ T.ch \in Channels /\ T.op = "use"
      BY <1>0, <2>4 DEF Healthy, LoggedInAgain, T, PlaceInv
    <3>2. T'.pc \in {"idle", "asking"} /\ T'.op = T.op
      BY <1>0, <3>1, AskShape DEF T
    <3>. QED BY <1>1, <2>0, <3>1, <3>2
  <2>5. CASE Relogin(Scanner)
    <3>1. T'.pc \in {"idle", "login"} /\ T'.op = T.op /\ T.op = "use"
      BY <1>0, <2>5, ReloginShape DEF T, PlaceInv, Relogin
    <3>. QED BY <1>1, <2>0, <3>1
  <2>6. CASE CloseNext(Scanner)
    <3>1. T'.pc \in {"idle", T.pc} /\ T'.op = T.op
      BY <1>0, <2>6, CloseNextCases DEF T, CloseNext
    <3>. QED BY <1>1, <2>0, <3>1
  <2>7. CASE Environment
    <3>1. T' = T
      BY <2>7 DEF Environment, SecretTtl, Expire, T
    <3>. QED BY <1>1, <2>0, <3>1
  <2>. QED BY <1>4, <2>1, <2>2, <2>3, <2>4, <2>5, <2>6, <2>7 DEF Session
<1>5. CASE HandedStep
  <2>1. T'.pc = "idle" /\ T'.op = "none"
    BY <1>0, <1>5, HandedShape
  <2>2. step' \in Requests => at' \in Candidates
    BY <1>5, NextCandidateShape DEF HandedStep, SessionOpened, Proceed, Verdict, ScanRaises, RuntimeClosed,
       PlaceInv, Requests
  <2>. QED BY <2>1, <2>2 DEF PlaceInv
<1>6. CASE UNCHANGED allVars
  <2>1. T' = T /\ UNCHANGED <<step, at>>
    BY <1>6 DEF allVars, scanVars, T
  <2>. QED BY <1>1, <2>1
<1>. QED BY <1>2, <1>3, <1>4, <1>5, <1>6 DEF ScanNext, HandedStep
-----------------------------------------------------------------------------
(* Until its request goes out the scanner has verified the channel it will use; a read
   that has returned has left its page; and who reads another's canary is let to. *)
ReadInv ==
    /\ T.pc = "health" \/ (T.pc = "login" /\ T.op = "use") => contexts[T.id] = T.ch
    /\ T.pc = "idle" /\ T.op = "use" /\ T.result = "ok" => page[step] # "none"
    /\ page["cross"] \in {"canary", "another"} => at \in Candidates /\ candidates[at].vulnerable

(* The common facts of the steps. *)
LEMMA ScannerType ==
  ASSUME ScanTypeOK
  PROVE  /\ TypeOK /\ TaskOK /\ Scanner \in Tasks
         /\ T.ch \in Channels \cup {NoChannel} /\ T.id \in Identities
         /\ T.pc \in {"idle", "closing"} <=> T.ch = NoChannel
         /\ T.todo \in SUBSET Channels
  BY ScanAssumption DEF ScanTypeOK, TypeOK, TaskOK, Task, T

LEMMA ReadShape ==
  ASSUME ScanTypeOK, PlaceInv, Read
  PROVE  /\ T'.pc = "idle" /\ T'.op = "use" /\ T.pc = "asking" /\ step \in Requests /\ at \in Candidates
         /\ T'.todo = {}
         /\ UNCHANGED <<contexts, channel, live, expiries, vault, candidates, permitted, step, at, observations>>
         /\ \E p \in Pages : /\ p # "none" /\ page'[step] = p
                             /\ p = "login" => T.ch \notin live
                             /\ step = "cross" /\ p \in {"canary", "another"} => candidates[at].vulnerable
         /\ \A r \in Requests \ {step} : page'[r] = page[r]
<1>1. T.pc = "asking" /\ T.op = "use" /\ step \in Requests /\ at \in Candidates /\ Ends(Scanner, "ok")
  BY DEF Read, T, PlaceInv
<1>2. T'.pc = "idle" /\ T'.op = "use" /\ T'.todo = {}
  BY <1>1, ScannerType, EndsKeepsType DEF T
<1>3. PICK p \in SiteAnswers(step, T.ch \in live) : page' = [page EXCEPT ![step] = p]
  BY DEF Read, T
<1>4. /\ p \in Pages /\ p # "none"
      /\ p = "login" => T.ch \notin live
      /\ step = "cross" /\ p \in {"canary", "another"} => candidates[at].vulnerable
  BY <1>3 DEF SiteAnswers, Pages
<1>5. page'[step] = p /\ \A r \in Requests \ {step} : page'[r] = page[r]
  BY <1>1, <1>3 DEF ScanTypeOK
<1>6. UNCHANGED <<contexts, channel, live, expiries, vault, candidates, permitted, step, at, observations>>
  BY DEF Read
<1>7. \E q \in Pages : /\ q # "none" /\ page'[step] = q
                       /\ q = "login" => T.ch \notin live
                       /\ step = "cross" /\ q \in {"canary", "another"} => candidates[at].vulnerable
  <2>. p \in Pages
    BY <1>4
  <2>. WITNESS p \in Pages
  <2>. QED BY <1>4, <1>5
<1>. QED BY <1>1, <1>2, <1>5, <1>6, <1>7

(* What remains of the pages when the scanner takes a result. *)
LEMMA HandedPages ==
  ASSUME ScanTypeOK, HandedStep
  PROVE  UNCHANGED <<at, page>> \/ (at' \in Candidates /\ page' = NoPages)
<1>1. CASE SessionOpened \/ Verdict
  BY <1>1, NextCandidateShape DEF SessionOpened, Verdict
<1>. QED BY <1>1 DEF HandedStep, Proceed, ScanRaises, RuntimeClosed

LEMMA ReadStep == ScanTypeOK /\ PlaceInv /\ ReadInv /\ [ScanNext]_allVars => ReadInv'
<1>. SUFFICES ASSUME ScanTypeOK, PlaceInv, ReadInv, [ScanNext]_allVars PROVE ReadInv'
  OBVIOUS
<1>0. /\ TypeOK /\ TaskOK /\ Scanner \in Tasks
      /\ T.ch \in Channels \cup {NoChannel} /\ T.id \in Identities
      /\ T.pc \in {"idle", "closing"} <=> T.ch = NoChannel
  BY ScannerType
<1>1. ASSUME UNCHANGED scanVars,
             \/ T'.pc \notin {"idle", "health", "login"}
             \/ T'.pc = "idle" /\ (T'.op # "use" \/ T'.result = "raised")
             \/ T'.pc = "login" /\ T'.op = "open"
             \/ T'.pc \in {"health", "login"} /\ contexts'[T'.id] = T'.ch
      PROVE  ReadInv'
  BY <1>1 DEF ReadInv, scanVars
<1>2. CASE Begin
  <2>1. ASSUME NEW i \in Identities, Connect(Scanner, i, channel), UNCHANGED scanVars PROVE ReadInv'
    <3>1. T'.pc \in {"login", "abort"} /\ T'.op = "open"
      BY <1>0, <2>1, ConnectShape DEF T, TypeOK
    <3>. QED BY <1>1, <2>1, <3>1
  <2>2. ASSUME NEW i \in Identities, UseBegin(Scanner, i), UNCHANGED scanVars PROVE ReadInv'
    <3>1. contexts' = contexts
      BY <2>2 DEF UseBegin
    <3>. QED BY <1>0, <1>1, <2>2, <3>1, UseBeginShape DEF T
  <2>3. ASSUME CloseBegin(Scanner), UNCHANGED scanVars PROVE ReadInv'
    <3>1. T'.pc \in {"idle", "closing"} /\ T'.op = "close"
      BY <1>0, <2>3, CloseBeginShape DEF T
    <3>. QED BY <1>1, <2>3, <3>1
  <2>. QED BY <1>2, <2>1, <2>2, <2>3, BeginShape
<1>3. CASE Read
  <2>1. page'[step'] # "none" /\ candidates' = candidates /\ at' = at /\ at \in Candidates /\ T'.pc = "idle"
    BY <1>3, ReadShape
  <2>2. page'["cross"] \in {"canary", "another"} => candidates[at].vulnerable
    <3>1. CASE step = "cross"
      BY <1>3, <3>1, ReadShape
    <3>2. CASE step # "cross"
      BY <1>3, <3>2, ReadShape DEF ReadInv, Requests
    <3>. QED BY <3>1, <3>2
  <2>. QED BY <2>1, <2>2 DEF ReadInv
<1>4. CASE ReadRaises
  BY <1>0, <1>1, <1>4, EndsKeepsType DEF T, ReadRaises
<1>5. CASE Session
  <2>0. UNCHANGED scanVars
    BY <1>5 DEF Session
  <2>1. CASE LoginFailed(Scanner)
    <3>1. CASE Moves(Scanner, [task[Scanner] EXCEPT !.pc = "abort"])
      <4>1. T'.pc = "abort"
        BY <1>0, <2>1, <3>1, MovesToShape DEF T, LoginFailed
      <4>. QED BY <1>1, <2>0, <4>1
    <3>2. CASE Ends(Scanner, "raised")
      BY <1>0, <1>1, <2>0, <3>2, EndsKeepsType DEF T
    <3>. QED BY <2>1, <3>1, <3>2 DEF LoginFailed
  <2>2. CASE Abort(Scanner) \/ Unhealthy(Scanner)
    BY <1>0, <1>1, <2>0, <2>2, EndsKeepsType DEF T, Abort, Unhealthy
  <2>3. CASE Opened(Scanner)
    <3>1. T'.pc = "idle" /\ T'.op = "open"
      BY <1>0, <2>3, OpenedShape DEF T
    <3>. QED BY <1>1, <2>0, <3>1
  <2>4. CASE Healthy(Scanner) \/ LoggedInAgain(Scanner)
    <3>1. Ask(Scanner, T.ch) /\ T.ch \in Channels
      BY <1>0, <2>4 DEF Healthy, LoggedInAgain, T
    <3>2. T'.pc = "asking" \/ (T'.pc = "idle" /\ T'.result = "raised")
      BY <1>0, <3>1, AskShape DEF T
    <3>. QED BY <1>1, <2>0, <3>2
  <2>5. CASE Relogin(Scanner)
    <3>1. contexts' = contexts /\ contexts[T.id] = T.ch
      BY <2>5 DEF Relogin, ReadInv, T
    <3>2. \/ T'.pc = "idle" /\ T'.result = "raised"
          \/ T'.pc = "login" /\ T'.id = T.id /\ T'.ch = T.ch
      BY <1>0, <2>5, ReloginShape DEF T
    <3>. QED BY <1>1, <2>0, <3>1, <3>2
  <2>6. CASE CloseNext(Scanner)
    <3>1. T'.pc \in {"idle", "closing"} /\ T'.op = "close"
      BY <1>0, <2>6, CloseNextCases DEF T, CloseNext, PlaceInv
    <3>. QED BY <1>1, <2>0, <3>1
  <2>7. CASE Environment
    <3>1. T' = T /\ contexts' = contexts
      BY <2>7 DEF Environment, SecretTtl, Expire, T
    <3>. QED BY <2>0, <3>1 DEF ReadInv, scanVars
  <2>. QED BY <1>5, <2>1, <2>2, <2>3, <2>4, <2>5, <2>6, <2>7 DEF Session
<1>6. CASE HandedStep
  <2>1. T'.pc = "idle" /\ T'.op = "none" /\ candidates' = candidates
    BY <1>0, <1>6, HandedShape DEF HandedStep, SessionOpened, Proceed, Verdict, ScanRaises, RuntimeClosed
  <2>. QED BY <1>6, <2>1, HandedPages DEF ReadInv, NoPages, Requests
<1>7. CASE UNCHANGED allVars
  BY <1>7 DEF allVars, scanVars, T, ReadInv
<1>. QED BY <1>2, <1>3, <1>4, <1>5, <1>6, <1>7 DEF ScanNext, HandedStep

-----------------------------------------------------------------------------
(* A login page in place of an answer takes a session that ended after its probe. *)
Lost == T.pc = "asking" /\ T.ch \notin live
Fooled(r) == page[r] = "login"

ExpiryInv ==
    /\ Lost \/ Fooled("owner") \/ Fooled("cross") => expiries >= 1
    /\ Lost /\ (Fooled("owner") \/ Fooled("cross")) => expiries >= 2
    /\ Fooled("owner") /\ Fooled("cross") => expiries >= 2

LEMMA ExpiryStep == ScanTypeOK /\ PlaceInv /\ ReadInv /\ ExpiryInv /\ [ScanNext]_allVars => ExpiryInv'
<1>. SUFFICES ASSUME ScanTypeOK, PlaceInv, ReadInv, ExpiryInv, [ScanNext]_allVars PROVE ExpiryInv'
  OBVIOUS
<1>0. /\ TypeOK /\ TaskOK /\ Scanner \in Tasks
      /\ T.ch \in Channels \cup {NoChannel} /\ T.id \in Identities
      /\ T.pc \in {"idle", "closing"} <=> T.ch = NoChannel
  BY ScannerType
<1>1. ASSUME expiries' = expiries, ~Lost', page' = page \/ page' = NoPages
      PROVE  ExpiryInv'
  BY <1>1 DEF ExpiryInv, Fooled, NoPages, Requests
<1>2. CASE Begin
  <2>0. expiries' = expiries /\ page' = page
    BY <1>2, BeginShape DEF OpenBegin, UseBegin, CloseBegin, scanVars
  <2>1. ASSUME NEW i \in Identities, Connect(Scanner, i, channel) PROVE ~Lost'
    BY <1>0, <2>1, ConnectShape DEF T, TypeOK, Lost
  <2>2. ASSUME NEW i \in Identities, UseBegin(Scanner, i) PROVE ~Lost'
    BY <1>0, <2>2, UseBeginShape DEF T, Lost
  <2>3. ASSUME CloseBegin(Scanner) PROVE ~Lost'
    BY <1>0, <2>3, CloseBeginShape DEF T, Lost
  <2>. QED BY <1>1, <1>2, <2>0, <2>1, <2>2, <2>3, BeginShape
<1>3. CASE Read
  <2>1. /\ expiries' = expiries /\ ~Lost' /\ step' = step /\ step \in Requests /\ T.pc = "asking"
        /\ \A r \in Requests \ {step} : page'[r] = page[r]
        /\ page'[step] = "login" => T.ch \notin live
    BY <1>3, ReadShape DEF Lost
  <2>2. Fooled(step)' => Lost
    BY <2>1 DEF Fooled, Lost
  <2>3. \A r \in Requests : Fooled(r)' => Fooled(r) \/ (r = step /\ Lost)
    BY <1>3, <2>1, <2>2 DEF Fooled, Read
  <2>4. (Fooled("owner")' => Fooled("owner") \/ (step = "owner" /\ Lost))
        /\ (Fooled("cross")' => Fooled("cross") \/ (step = "cross" /\ Lost))
    BY <2>3 DEF Requests
  <2>. QED BY <2>1, <2>4 DEF ExpiryInv
<1>4. CASE ReadRaises
  <2>1. expiries' = expiries /\ page' = page
    BY <1>4 DEF ReadRaises, scanVars
  <2>2. ~Lost'
    BY <1>0, <1>4, EndsKeepsType DEF T, ReadRaises, Lost
  <2>. QED BY <1>1, <2>1, <2>2
<1>5. CASE Session
  <2>0. page' = page
    BY <1>5 DEF Session, scanVars
  <2>1. CASE LoginFailed(Scanner)
    <3>1. CASE Moves(Scanner, [task[Scanner] EXCEPT !.pc = "abort"])
      <4>1. T'.pc = "abort" /\ expiries' = expiries
        BY <1>0, <2>1, <3>1, MovesToShape DEF T, LoginFailed
      <4>. QED BY <1>1, <2>0, <4>1 DEF Lost
    <3>2. CASE Ends(Scanner, "raised")
      BY <1>0, <1>1, <2>0, <2>1, <3>2, EndsKeepsType DEF T, LoginFailed, Lost
    <3>. QED BY <2>1, <3>1, <3>2 DEF LoginFailed
  <2>2. CASE Abort(Scanner) \/ Unhealthy(Scanner)
    <3>1. expiries' = expiries
      BY <2>2 DEF Abort, Unhealthy
    <3>2. ~Lost'
      BY <1>0, <2>2, EndsKeepsType DEF T, Abort, Unhealthy, Lost
    <3>. QED BY <1>1, <2>0, <3>1, <3>2
  <2>3. CASE Opened(Scanner)
    BY <1>0, <1>1, <2>0, <2>3, OpenedShape DEF T, Opened, Lost
  <2>4. CASE Healthy(Scanner) \/ LoggedInAgain(Scanner)
    <3>1. /\ Ask(Scanner, T.ch) /\ T.ch \in Channels /\ expiries' = expiries /\ T.ch \in live'
          /\ contexts[T.id] = T.ch
      BY <1>0, <2>4 DEF Healthy, LoggedInAgain, T, ReadInv
    <3>2. T'.pc = "idle" \/ T'.ch = T.ch
      BY <1>0, <3>1, AskShape DEF T
    <3>. QED BY <1>1, <2>0, <3>1, <3>2 DEF Lost
  <2>5. CASE Relogin(Scanner)
    <3>1. expiries' = expiries
      BY <2>5 DEF Relogin
    <3>2. T'.pc \in {"idle", "login"}
      BY <1>0, <2>5, ReloginShape DEF T
    <3>. QED BY <1>1, <2>0, <3>1, <3>2 DEF Lost
  <2>6. CASE CloseNext(Scanner)
    <3>1. expiries' = expiries /\ T'.pc \in {"idle", "closing"}
      BY <1>0, <2>6, CloseNextCases DEF T, CloseNext
    <3>. QED BY <1>1, <2>0, <3>1 DEF Lost
  <2>7. CASE SecretTtl
    BY <2>0, <2>7 DEF SecretTtl, ExpiryInv, Lost, Fooled, T
  <2>8. ASSUME NEW c \in Channels, Expire(c) PROVE ExpiryInv'
    <3>1. expiries' = expiries + 1 /\ expiries \in Nat /\ T' = T
      BY <1>0, <2>8, SessionAssumption DEF Expire, T, TypeOK
    <3>2. \A r \in {"owner", "cross"} : Fooled(r)' <=> Fooled(r)
      BY <2>0 DEF Fooled
    <3>. QED BY <3>1, <3>2 DEF ExpiryInv
  <2>. QED BY <1>5, <2>1, <2>2, <2>3, <2>4, <2>5, <2>6, <2>7, <2>8 DEF Session, Environment
<1>6. CASE HandedStep
  <2>1. T'.pc = "idle" /\ expiries' = expiries
    BY <1>0, <1>6, HandedShape
  <2>. QED BY <1>1, <1>6, <2>1, HandedPages DEF Lost
<1>7. CASE UNCHANGED allVars
  BY <1>7 DEF allVars, scanVars, T, ExpiryInv, Lost, Fooled
<1>. QED BY <1>2, <1>3, <1>4, <1>5, <1>6, <1>7 DEF ScanNext, HandedStep
LEMMA ScanInitInv == ScanInit => ScanTypeOK /\ PlaceInv /\ ReadInv /\ ExpiryInv /\ observations = {}
<1>. SUFFICES ASSUME ScanInit PROVE ScanTypeOK /\ PlaceInv /\ ReadInv /\ ExpiryInv /\ observations = {}
  OBVIOUS
<1>1. TypeOK
  BY InitType DEF ScanInit
<1>2. T.pc = "idle" /\ T.op = "none"
  BY ScanAssumption, NewTaskType DEF ScanInit, Init, T
<1>3. /\ step = "open" /\ at = 0 /\ page = NoPages /\ observations = {}
      /\ candidates \in [Candidates -> Candidate] /\ permitted \in BOOLEAN
  BY DEF ScanInit
<1>4. ScanTypeOK
  BY <1>1, <1>3 DEF ScanTypeOK, Steps, NoPages, Pages
<1>5. PlaceInv
  BY <1>2, <1>3 DEF PlaceInv, Requests
<1>6. ReadInv
  BY <1>2, <1>3 DEF ReadInv, NoPages, Requests
<1>7. ExpiryInv
  BY <1>2, <1>3 DEF ExpiryInv, Lost, Fooled, NoPages, Requests
<1>. QED BY <1>3, <1>4, <1>5, <1>6, <1>7

(* Every variable of the scan keeps its type. *)
THEOREM ScanTypeCorrect == ScanSpec => []ScanTypeOK
  BY ScanInitInv, ScanTypeStep, PlaceStep, PTL DEF ScanSpec

LEMMA VerdictStep ==
  ASSUME MaxExpiries <= 1, ScanTypeOK, PlaceInv, ReadInv, ExpiryInv, NoFalsePositive, [ScanNext]_allVars
  PROVE  NoFalsePositive'
<1>1. candidates' = candidates
  BY DEF ScanNext, Begin, Read, ReadRaises, Session, SessionOpened, Proceed, Verdict, ScanRaises,
         RuntimeClosed, scanVars, allVars
<1>2. CASE Verdict
  <2>1. SUFFICES ASSUME Judge(page["owner"], page["control"], page["cross"]) = "CONFIRMED"
                 PROVE  candidates[at].vulnerable
    BY <1>1, <1>2 DEF Verdict, NoFalsePositive
  <2>2. T.pc = "idle" /\ T.op = "use" /\ T.result = "ok" /\ step = "cross"
    BY <1>2 DEF Verdict, Returned, Ended, Idle, T, PlaceInv
  <2>3. page["cross"] # "none" /\ page["cross"] # "error" /\ page["owner"] = page["cross"]
    BY <2>1, <2>2 DEF Judge, ReadInv
  <2>4. page["cross"] # "login"
    <3>1. expiries \in 0 .. MaxExpiries /\ MaxExpiries \in Nat
      BY SessionAssumption DEF ScanTypeOK, TypeOK
    <3>. QED BY <2>3, <3>1 DEF ExpiryInv, Fooled
  <2>5. page["cross"] \in {"canary", "another"}
    BY <2>3, <2>4 DEF ScanTypeOK, Pages, Requests
  <2>. QED BY <2>5 DEF ReadInv
<1>3. CASE ~Verdict
  <2>1. observations' \subseteq observations
    BY <1>3 DEF ScanNext, Begin, Read, ReadRaises, Session, SessionOpened, Proceed, ScanRaises,
                RuntimeClosed, scanVars, allVars
  <2>. QED BY <1>1, <2>1 DEF NoFalsePositive
<1>. QED BY <1>2, <1>3

(* "read the first identity's dedicated canary object while the negative control was
   denied" (authorization.py) is only said of a candidate whose canary the site lets the
   other identity read, whatever the site answers and in whatever order, as long as it
   drops no more than one session; AuthorizationTwoExpiries.cfg shows that two are enough
   for the login page to pass for the canary. *)
THEOREM ConfirmedIsVulnerable ==
  ASSUME MaxExpiries <= 1 PROVE ScanSpec => []NoFalsePositive
<1>1. ScanInit => ScanTypeOK /\ PlaceInv /\ ReadInv /\ ExpiryInv /\ NoFalsePositive
  BY ScanInitInv DEF NoFalsePositive
<1>2. /\ ScanTypeOK /\ PlaceInv /\ ReadInv /\ ExpiryInv /\ NoFalsePositive
      /\ [ScanNext]_allVars
      => (ScanTypeOK /\ PlaceInv /\ ReadInv /\ ExpiryInv /\ NoFalsePositive)'
  BY ScanTypeStep, PlaceStep, ReadStep, ExpiryStep, VerdictStep
<1>. QED BY <1>1, <1>2, PTL DEF ScanSpec

-----------------------------------------------------------------------------
(* An open channel has an owner that will close it: it is registered, or being logged in,
   or on the list of aclose(). *)
Owned(c) ==
    \/ c \in Registered
    \/ T.pc \in {"login", "abort"} /\ T.op = "open" /\ T.ch = c
    \/ T.pc = "closing" /\ c \in T.todo

OwnedInv ==
    /\ \A c \in Channels : channel[c].state = "open" => Owned(c)
    /\ T.pc \in {"login", "abort"} /\ T.op = "open" => contexts[T.id] = NoChannel
    /\ T.pc = "closing" => Registered = {}
    /\ T.pc # "closing" => T.todo = {}
    /\ T.pc = "idle" /\ T.op = "close" => vault = "wiped" /\ Registered = {}
    /\ step = "closed" => T.pc = "idle" /\ vault = "wiped" /\ Registered = {}

LEMMA OwnedStep ==
  ASSUME ~ChannelErrors, ScanTypeOK, PlaceInv, OwnedInv, [ScanNext]_allVars
  PROVE  OwnedInv'
<1>0. /\ TypeOK /\ TaskOK /\ Scanner \in Tasks /\ channel \in [Channels -> Channel]
      /\ T.ch \in Channels \cup {NoChannel} /\ T.id \in Identities
      /\ T.pc \in {"idle", "closing"} <=> T.ch = NoChannel
      /\ contexts \in [Identities -> Channels \cup {NoChannel}]
  BY ScannerType DEF TypeOK
(* Nothing is opened or registered, and the scanner does not own a channel afterwards. *)
<1>1. ASSUME contexts' = contexts, T.pc # "closing",
             ~(T.pc \in {"login", "abort"} /\ T.op = "open"),
             \A c \in Channels : channel'[c].state = "open" => channel[c].state = "open",
             T'.pc # "closing" /\ T'.todo = {} /\ T'.op # "close" /\ T'.op # "open",
             step' # "closed"
      PROVE  OwnedInv'
  <2>1. Registered' = Registered
    BY <1>1 DEF Registered
  <2>. QED BY <1>1, <2>1 DEF OwnedInv, Owned
<1>2. CASE Begin
  <2>0. T.pc = "idle" /\ step # "closed" /\ step' = step
    BY <1>2, BeginShape DEF scanVars, Requests
  <2>1. ASSUME NEW i \in Identities, contexts[i] = NoChannel, contexts' = contexts,
               Connect(Scanner, i, channel)
        PROVE  OwnedInv'
    <3>1. /\ T'.pc \in {"login", "abort"} /\ T'.op = "open" /\ T'.id = i /\ T'.todo = {}
          /\ \A d \in Channels \ {T'.ch} : channel'[d] = channel[d]
      BY <1>0, <2>1, ConnectShape DEF T
    <3>2. Registered' = Registered
      BY <2>1 DEF Registered
    <3>. QED BY <2>0, <2>1, <3>1, <3>2 DEF OwnedInv, Owned
  <2>2. ASSUME NEW i \in Identities, UseBegin(Scanner, i) PROVE OwnedInv'
    <3>1. UNCHANGED <<contexts, channel>>
      BY <2>2 DEF UseBegin
    <3>2. T'.pc \in {"idle", "health"} /\ T'.op = "use" /\ T'.todo = {}
      BY <1>0, <2>2, UseBeginShape DEF T
    <3>. QED BY <1>1, <2>0, <3>1, <3>2
  <2>3. ASSUME CloseBegin(Scanner) PROVE OwnedInv'
    <3>1. /\ channel' = channel /\ Registered' = {}
      BY <2>3 DEF CloseBegin, Registered
    <3>2. /\ T'.op = "close"
          /\ \/ T'.pc = "idle" /\ T'.todo = {} /\ Registered = {} /\ vault' = "wiped"
             \/ T'.pc = "closing" /\ T'.todo = Registered
      BY <1>0, <2>3, CloseBeginShape DEF T
    <3>3. \A c \in Channels : channel[c].state = "open" => c \in Registered
      BY <2>0 DEF OwnedInv, Owned
    <3>. QED BY <2>0, <3>1, <3>2, <3>3 DEF OwnedInv, Owned
  <2>. QED BY <1>2, <2>1, <2>2, <2>3, BeginShape
<1>3. CASE Read \/ ReadRaises
  <2>1. /\ UNCHANGED <<contexts, channel, step>> /\ T.pc = "asking" /\ T.op = "use"
        /\ Ends(Scanner, "ok") \/ Ends(Scanner, "raised")
    BY <1>3 DEF Read, ReadRaises, scanVars, T, PlaceInv
  <2>2. T'.pc = "idle" /\ T'.op = "use" /\ T'.todo = {}
    BY <1>0, <2>1, EndsKeepsType DEF T
  <2>. QED BY <1>1, <2>1, <2>2 DEF OwnedInv
<1>4. CASE Session
  <2>0. step' = step
    BY <1>4 DEF Session, scanVars
  <2>1. CASE LoginFailed(Scanner)
    <3>0. UNCHANGED <<contexts, channel>> /\ T.pc = "login"
      BY <2>1 DEF LoginFailed, T
    <3>1. CASE T.op = "open" /\ Moves(Scanner, [task[Scanner] EXCEPT !.pc = "abort"])
      <4>1. T'.pc = "abort" /\ T'.op = T.op /\ T'.id = T.id /\ T'.ch = T.ch /\ T'.todo = T.todo
        BY <1>0, <2>1, <3>1, MovesToShape DEF T, LoginFailed
      <4>2. Registered' = Registered
        BY <3>0 DEF Registered
      <4>. QED BY <2>0, <3>0, <3>1, <4>1, <4>2 DEF OwnedInv, Owned
    <3>2. CASE T.op # "open" /\ Ends(Scanner, "raised")
      <4>1. T'.pc = "idle" /\ T'.op = T.op /\ T'.todo = {} /\ T.op = "use"
        BY <1>0, <3>0, <3>2, EndsKeepsType DEF T, PlaceInv
      <4>. QED BY <1>1, <2>0, <3>0, <3>2, <4>1 DEF OwnedInv
    <3>. QED BY <2>1, <3>1, <3>2 DEF LoginFailed, T
  <2>2. CASE Abort(Scanner)
    <3>1. /\ contexts' = contexts /\ T.ch \in Channels /\ T.pc = "abort" /\ T.op = "open"
          /\ Closes(T.ch) /\ Ends(Scanner, "raised")
      BY <1>0, <2>2 DEF Abort, T, PlaceInv
    <3>2. channel'[T.ch].state = "closed" /\ \A d \in Channels \ {T.ch} : channel'[d] = channel[d]
      BY <1>0, <3>1, ClosesShape
    <3>3. T'.pc = "idle" /\ T'.op = "open" /\ T'.todo = {}
      BY <1>0, <3>1, EndsKeepsType DEF T
    <3>4. Registered' = Registered
      BY <3>1 DEF Registered
    <3>. QED BY <2>0, <3>1, <3>2, <3>3, <3>4 DEF OwnedInv, Owned
  <2>3. CASE Opened(Scanner)
    <3>1. /\ channel' = channel /\ T.pc = "login" /\ T.op = "open" /\ contexts[T.id] = NoChannel
          /\ contexts' = [contexts EXCEPT ![T.id] = T.ch]
      BY <2>3 DEF Opened, T, OwnedInv
    <3>2. T'.pc = "idle" /\ T'.op = "open" /\ T'.todo = {} /\ T.ch # NoChannel
      BY <1>0, <2>3, <3>1, OpenedShape DEF T
    <3>3. Registered \cup {T.ch} \subseteq Registered'
      BY <1>0, <3>1, <3>2 DEF Registered
    <3>. QED BY <2>0, <3>1, <3>2, <3>3 DEF OwnedInv, Owned
  <2>4. CASE Healthy(Scanner) \/ LoggedInAgain(Scanner)
    <3>1. /\ Ask(Scanner, T.ch) /\ T.ch \in Channels /\ T.op = "use" /\ T.pc \in {"health", "login"}
          /\ UNCHANGED <<contexts, channel>>
      BY <1>0, <2>4 DEF Healthy, LoggedInAgain, T, PlaceInv
    <3>2. T'.pc \in {"idle", "asking"} /\ T'.op = "use" /\ T'.todo = {}
      BY <1>0, <3>1, AskShape DEF T, OwnedInv
    <3>. QED BY <1>1, <2>0, <3>1, <3>2 DEF OwnedInv
  <2>5. CASE Unhealthy(Scanner)
    <3>1. UNCHANGED <<contexts, channel>> /\ T.pc = "health" /\ T.op = "use" /\ Ends(Scanner, "raised")
      BY <2>5 DEF Unhealthy, T, PlaceInv
    <3>2. T'.pc = "idle" /\ T'.op = "use" /\ T'.todo = {}
      BY <1>0, <3>1, EndsKeepsType DEF T
    <3>. QED BY <1>1, <2>0, <3>1, <3>2 DEF OwnedInv
  <2>6. CASE Relogin(Scanner)
    <3>1. contexts' = contexts /\ T.pc = "health" /\ T.op = "use"
      BY <2>6 DEF Relogin, T, PlaceInv
    <3>2. /\ T'.pc \in {"idle", "login"} /\ T'.op = "use" /\ T'.todo = {}
          /\ \A c \in Channels : channel'[c].state = channel[c].state
      BY <1>0, <2>6, <3>1, ReloginShape DEF T, OwnedInv
    <3>. QED BY <1>1, <2>0, <3>1, <3>2 DEF OwnedInv
  <2>7. CASE CloseNext(Scanner)
    <3>1. contexts' = contexts /\ T.pc = "closing" /\ T.op = "close" /\ Registered = {} /\ Registered' = Registered
      BY <2>7 DEF CloseNext, T, PlaceInv, OwnedInv, Registered
    <3>2. T'.op = "close" /\ \E c \in T.todo :
             /\ Closes(c)
             /\ \/ T'.pc = "idle" /\ T'.todo = {} /\ T.todo = {c} /\ vault' = "wiped"
                \/ T'.pc = "closing" /\ T'.todo = T.todo \ {c}
      BY <1>0, <2>7, <3>1, CloseNextCases DEF T
    <3>3. PICK c \in T.todo :
             /\ Closes(c)
             /\ \/ T'.pc = "idle" /\ T'.todo = {} /\ T.todo = {c} /\ vault' = "wiped"
                \/ T'.pc = "closing" /\ T'.todo = T.todo \ {c}
      BY <3>2
    <3>4. c \in Channels
      BY ScannerType
    <3>5. channel'[c].state = "closed" /\ \A d \in Channels \ {c} : channel'[d] = channel[d]
      BY <1>0, <3>3, <3>4, ClosesShape
    <3>6. \A d \in Channels : channel[d].state = "open" => d \in T.todo
      BY <3>1 DEF OwnedInv, Owned
    <3>. QED BY <2>0, <3>1, <3>2, <3>3, <3>5, <3>6 DEF OwnedInv, Owned
  <2>8. CASE Environment
    <3>1. UNCHANGED <<contexts, channel, T>> /\ (vault = "wiped" => vault' = "wiped")
      BY <2>8 DEF Environment, SecretTtl, Expire, T
    <3>2. Registered' = Registered
      BY <3>1 DEF Registered
    <3>. QED BY <2>0, <3>1, <3>2 DEF OwnedInv, Owned
  <2>. QED BY <1>4, <2>1, <2>2, <2>3, <2>4, <2>5, <2>6, <2>7, <2>8 DEF Session
<1>5. CASE HandedStep
  <2>1. /\ UNCHANGED <<contexts, channel, vault>> /\ T'.pc = "idle" /\ T'.op = "none" /\ T'.todo = {}
        /\ T.pc = "idle" /\ T.op # "none"
    BY <1>0, <1>5, HandedShape
  <2>2. Registered' = Registered
    BY <2>1 DEF Registered
  <2>3. step' = "closed" => T.op = "close"
    BY <1>5, <2>1, NextCandidateShape DEF HandedStep, SessionOpened, Proceed, Verdict, ScanRaises, RuntimeClosed,
       Ended, Returned, T, PlaceInv, Requests
  <2>. QED BY <2>1, <2>2, <2>3 DEF OwnedInv, Owned
<1>6. CASE UNCHANGED allVars
  <2>1. UNCHANGED <<contexts, channel, vault, T, step>>
    BY <1>6 DEF allVars, scanVars, T
  <2>2. Registered' = Registered
    BY <2>1 DEF Registered
  <2>. QED BY <2>1, <2>2 DEF OwnedInv, Owned
<1>. QED BY <1>2, <1>3, <1>4, <1>5, <1>6 DEF ScanNext, HandedStep

(* "Close all cookie jars and wipe every secret scoped to this run" (session.py, aclose):
   whatever has failed before, and wherever scan() was when it failed, nothing of the run
   is left behind its end, if no channel refuses to close; SessionsSecrets.cfg shows what
   happens to the secrets if one does. *)
THEOREM NothingStays ==
  ASSUME ~ChannelErrors PROVE ScanSpec => []NothingLeft
<1>1. ScanInit => ScanTypeOK /\ PlaceInv /\ OwnedInv
  <2>. SUFFICES ASSUME ScanInit PROVE OwnedInv
    BY ScanInitInv
  <2>1. T.pc = "idle" /\ T.op = "none" /\ T.todo = {} /\ step = "open"
    BY ScanAssumption, NewTaskType DEF ScanInit, Init, T
  <2>2. \A c \in Channels : channel[c].state = "unused"
    BY DEF ScanInit, Init
  <2>. QED BY <2>1, <2>2 DEF OwnedInv
<1>2. ScanTypeOK /\ PlaceInv /\ OwnedInv /\ [ScanNext]_allVars => (ScanTypeOK /\ PlaceInv /\ OwnedInv)'
  BY ScanTypeStep, PlaceStep, OwnedStep
<1>3. OwnedInv => NothingLeft
  BY DEF OwnedInv, Owned, NothingLeft
<1>. QED BY <1>1, <1>2, <1>3, PTL DEF ScanSpec
=============================================================================
