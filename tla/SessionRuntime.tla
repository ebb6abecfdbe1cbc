---------------------------- MODULE SessionRuntime ----------------------------
(***************************************************************************)
(* SessionRuntime (packages/safescope_scanners/session.py): the sessions   *)
(* of one scan run with the audited site, one channel (cookie jar) for     *)
(* each target identity, and the run's secrets in the CredentialVault      *)
(* (vault/credential.py).                                                  *)
(*                                                                         *)
(* open(), request() and aclose() are coroutines: they let others run      *)
(* while they wait for the site or for a channel to close, and between two *)
(* such waits they are one step.                                           *)
(***************************************************************************)
EXTENDS Integers, FiniteSets

CONSTANTS
    Identities,      \* the accounts of the site given for the scan
    NChannels,       \* bound on the channels ever made by channel_factory
    Tasks,           \* coroutines that use the runtime at the same time
    MaxRelogins,     \* LoginProfile.max_relogins
    MaxExpiries,     \* bound on how often the site drops a session
    ChannelErrors,   \* channel.aclose() may raise
    SecretExpires    \* the time to live of the secrets may pass during the run

Channels == 1 .. NChannels
NoChannel == 0

ASSUME SessionAssumption ==
    /\ NChannels \in Nat /\ MaxRelogins \in Nat /\ MaxExpiries \in Nat
    /\ Identities # {}
    /\ ChannelErrors \in BOOLEAN /\ SecretExpires \in BOOLEAN

VARIABLES
    contexts,   \* _contexts: the registered channel of each identity, or NoChannel
    channel,    \* every channel: open or closed, whose it is, AuthContext.relogins
    live,       \* the channels whose session the site recognises
    expiries,   \* how many sessions the site has dropped
    vault,      \* the run's secrets: "stored", "expired" but still in memory, "wiped"
    task        \* where each coroutine is

vars == <<contexts, channel, live, expiries, vault, task>>

Channel == [state : {"unused", "open", "closed"}, of : Identities, relogins : Nat]

(* "ch" is the channel awaited, "todo" what aclose() has left to close, "fresh" the
   channels on which a health probe or a login has succeeded since the task began. *)
Task == [pc : {"idle", "closing_old", "login", "abort", "health", "asking", "closing"},
         op : {"none", "open", "use", "close"}, id : Identities,
         ch : Channels \cup {NoChannel}, todo : SUBSET Channels, fresh : SUBSET Channels,
         result : {"none", "ok", "raised"}]

AnyIdentity == CHOOSE i \in Identities : TRUE

NewTask == [pc |-> "idle", op |-> "none", id |-> AnyIdentity, ch |-> NoChannel,
            todo |-> {}, fresh |-> {}, result |-> "none"]

Init ==
    /\ contexts = [i \in Identities |-> NoChannel]
    /\ channel = [c \in Channels |-> [state |-> "unused", of |-> AnyIdentity, relogins |-> 0]]
    /\ live = {} /\ expiries = 0
    /\ vault = "stored"
    /\ task = [t \in Tasks |-> NewTask]

Unused       == {c \in Channels : channel[c].state = "unused"}
NextChannel  == {c \in Unused : \A d \in Unused : c <= d}
Registered   == {contexts[i] : i \in Identities} \ {NoChannel}
Idle(t)      == task[t].pc = "idle"
Closed(c)    == channel[c].state = "closed"

Moves(t, rec)   == task' = [task EXCEPT ![t] = rec]
Ends(t, result) == Moves(t, [NewTask EXCEPT !.op = task[t].op, !.result = result])
Closes(c)       == channel' = [channel EXCEPT ![c].state = "closed"]

-----------------------------------------------------------------------------
(* CredentialVault: get() of an expired secret wipes it and raises. *)

SecretsReadable == vault = "stored"
VaultAfterGet   == IF vault = "expired" THEN "wiped" ELSE vault

VaultAfterDrop == "wiped"

SecretTtl ==
    /\ SecretExpires /\ vault = "stored"
    /\ vault' = "expired"
    /\ UNCHANGED <<contexts, channel, live, expiries, task>>

-----------------------------------------------------------------------------
(* open() *)

(* A fresh channel, and _login up to its first await: rendering the secrets may raise. *)
Connect(t, i, others) ==
    \E c \in NextChannel :
        /\ channel' = [others EXCEPT ![c] = [state |-> "open", of |-> i, relogins |-> 0]]
        /\ vault' = VaultAfterGet
        /\ Moves(t, [NewTask EXCEPT !.pc = IF SecretsReadable THEN "login" ELSE "abort",
                                    !.op = "open", !.id = i, !.ch = c])

OpenBegin(t, i) ==
    /\ Idle(t)
    /\ contexts' = [contexts EXCEPT ![i] = NoChannel]
    /\ IF contexts[i] = NoChannel
       THEN Connect(t, i, channel)
       ELSE /\ Moves(t, [NewTask EXCEPT !.pc = "closing_old", !.op = "open", !.id = i,
                                        !.ch = contexts[i]])
            /\ UNCHANGED <<channel, vault>>
    /\ UNCHANGED <<live, expiries>>

OldClosed(t) ==
    /\ task[t].pc = "closing_old"
    /\ \/ Connect(t, task[t].id, [channel EXCEPT ![task[t].ch].state = "closed"])
       \/ ChannelErrors /\ Ends(t, "raised") /\ UNCHANGED <<channel, vault>>
    /\ UNCHANGED <<contexts, live, expiries>>

(* Mutant: the channel of a login that failed is left to the garbage collector. *)
LoginFailedUnclosed(t) ==
    /\ task[t].pc = "login"
    /\ Ends(t, "raised")
    /\ UNCHANGED <<contexts, channel, live, expiries, vault>>

(* The site refuses the login, or it raises: open() closes the new channel first. *)
LoginFailed(t) ==
    /\ task[t].pc = "login"
    /\ IF task[t].op = "open" THEN Moves(t, [task[t] EXCEPT !.pc = "abort"])
                              ELSE Ends(t, "raised")
    /\ UNCHANGED <<contexts, channel, live, expiries, vault>>

Abort(t) ==
    /\ task[t].pc = "abort"
    /\ \/ Closes(task[t].ch)
       \/ ChannelErrors /\ UNCHANGED channel
    /\ Ends(t, "raised")
    /\ UNCHANGED <<contexts, live, expiries, vault>>

(* Registered only now, over whatever has been registered meanwhile.  Every use that is
   under way may rely on the new session. *)
Opened(t) ==
    LET c == task[t].ch IN
    /\ task[t].pc = "login" /\ task[t].op = "open" /\ ~Closed(c)
    /\ contexts' = [contexts EXCEPT ![task[t].id] = c]
    /\ live' = live \cup {c}
    /\ task' = [u \in Tasks |->
                   IF u = t THEN [NewTask EXCEPT !.op = "open", !.result = "ok"]
                   ELSE IF Idle(u) THEN task[u]
                   ELSE [task[u] EXCEPT !.fresh = @ \cup {c}]]
    /\ UNCHANGED <<channel, expiries, vault>>

-----------------------------------------------------------------------------
(* request(): assert_alive(), then the request on whatever is registered by then *)

UseBegin(t, i) ==
    /\ Idle(t)
    /\ Moves(t, IF contexts[i] = NoChannel
                THEN [NewTask EXCEPT !.op = "use", !.result = "raised"]
                ELSE [NewTask EXCEPT !.pc = "health", !.op = "use", !.id = i, !.ch = contexts[i]])
    /\ UNCHANGED <<contexts, channel, live, expiries, vault>>

(* The session is looked up again without an await after the verification of c. *)
Ask(t, c) ==
    LET i == task[t].id IN
    IF contexts[i] = NoChannel THEN Ends(t, "raised")
    ELSE Moves(t, [task[t] EXCEPT !.pc = "asking", !.ch = contexts[i], !.fresh = @ \cup {c}])

Healthy(t) ==
    /\ task[t].pc = "health" /\ ~Closed(task[t].ch) /\ task[t].ch \in live
    /\ Ask(t, task[t].ch)
    /\ UNCHANGED <<contexts, channel, live, expiries, vault>>

(* Mutant: a failed probe is repaired only the first time; afterwards it is ignored. *)
UnhealthyIgnored(t) ==
    LET c == task[t].ch IN
    /\ task[t].pc = "health"
    /\ channel[c].relogins >= MaxRelogins
    /\ Moves(t, [task[t] EXCEPT !.pc = "asking", !.ch = c])
    /\ UNCHANGED <<contexts, channel, live, expiries, vault>>

(* Mutant: the login is counted without looking at the limit. *)
ReloginUncounted(t) ==
    LET c == task[t].ch IN
    /\ task[t].pc = "health"
    /\ channel' = [channel EXCEPT ![c].relogins = @ + 1]
    /\ vault' = VaultAfterGet
    /\ IF SecretsReadable THEN Moves(t, [task[t] EXCEPT !.pc = "login"]) ELSE Ends(t, "raised")
    /\ UNCHANGED <<contexts, live, expiries>>

(* The probe does not match, whether the session is gone or the site is in trouble. *)
Relogin(t) ==
    LET c == task[t].ch IN
    /\ task[t].pc = "health"
    /\ channel[c].relogins < MaxRelogins
    /\ channel' = [channel EXCEPT ![c].relogins = @ + 1]
    /\ vault' = VaultAfterGet
    /\ IF SecretsReadable THEN Moves(t, [task[t] EXCEPT !.pc = "login"]) ELSE Ends(t, "raised")
    /\ UNCHANGED <<contexts, live, expiries>>

(* Beyond the limit, or when the probe itself raises. *)
Unhealthy(t) ==
    /\ task[t].pc = "health"
    /\ Ends(t, "raised")
    /\ UNCHANGED <<contexts, channel, live, expiries, vault>>

LoggedInAgain(t) ==
    LET c == task[t].ch IN
    /\ task[t].pc = "login" /\ task[t].op = "use" /\ ~Closed(c)
    /\ live' = live \cup {c}
    /\ Ask(t, c)
    /\ UNCHANGED <<contexts, channel, expiries, vault>>

(* The answer of the site, or an exception; AuthorizationScan says what it answers. *)
Asked(t) ==
    /\ task[t].pc = "asking"
    /\ \/ ~Closed(task[t].ch) /\ Ends(t, "ok")
       \/ Ends(t, "raised")
    /\ UNCHANGED <<contexts, channel, live, expiries, vault>>

-----------------------------------------------------------------------------
(* aclose() *)

Finish(t) == vault' = VaultAfterDrop /\ Ends(t, "ok")

(* Mutant: the contexts are only forgotten at the end. *)
CloseBeginKeeping(t) ==
    /\ Idle(t)
    /\ IF Registered = {}
       THEN /\ vault' = VaultAfterDrop
            /\ Moves(t, [NewTask EXCEPT !.op = "close", !.result = "ok"])
       ELSE /\ Moves(t, [NewTask EXCEPT !.pc = "closing", !.op = "close", !.todo = Registered])
            /\ UNCHANGED vault
    /\ UNCHANGED <<contexts, channel, live, expiries>>

CloseBegin(t) ==
    /\ Idle(t)
    /\ contexts' = [i \in Identities |-> NoChannel]
    /\ IF Registered = {}
       THEN /\ vault' = VaultAfterDrop
            /\ Moves(t, [NewTask EXCEPT !.op = "close", !.result = "ok"])
       ELSE /\ Moves(t, [NewTask EXCEPT !.pc = "closing", !.op = "close", !.todo = Registered])
            /\ UNCHANGED vault
    /\ UNCHANGED <<channel, live, expiries>>

(* One channel after the other; an exception of one leaves the rest, and the secrets. *)
CloseNext(t) ==
    /\ task[t].pc = "closing"
    /\ \/ \E c \in task[t].todo :
             /\ Closes(c)
             /\ IF task[t].todo = {c} THEN Finish(t)
                ELSE Moves(t, [task[t] EXCEPT !.todo = @ \ {c}]) /\ UNCHANGED vault
       \/ ChannelErrors /\ Ends(t, "raised") /\ UNCHANGED <<channel, vault>>
    /\ UNCHANGED <<contexts, live, expiries>>

-----------------------------------------------------------------------------
(* The site forgets a session at any moment. *)
Expire(c) ==
    /\ expiries < MaxExpiries /\ c \in live
    /\ live' = live \ {c} /\ expiries' = expiries + 1
    /\ UNCHANGED <<contexts, channel, vault, task>>

Continue(t) ==
    \/ OldClosed(t) \/ LoginFailed(t) \/ Abort(t) \/ Opened(t)
    \/ Healthy(t) \/ Relogin(t) \/ Unhealthy(t) \/ LoggedInAgain(t) \/ Asked(t)
    \/ CloseNext(t)

Environment == SecretTtl \/ \E c \in Channels : Expire(c)

Next ==
    \/ \E t \in Tasks : Continue(t) \/ CloseBegin(t)
                        \/ \E i \in Identities : OpenBegin(t, i) \/ UseBegin(t, i)
    \/ Environment

Spec == Init /\ [][Next]_vars

-----------------------------------------------------------------------------
(* Properties *)

TypeOK ==
    /\ contexts \in [Identities -> Channels \cup {NoChannel}]
    /\ channel \in [Channels -> Channel]
    /\ live \subseteq Channels /\ expiries \in 0 .. MaxExpiries
    /\ vault \in {"stored", "expired", "wiped"}
    /\ task \in [Tasks -> Task]
    /\ \A t \in Tasks : task[t].pc \in {"idle", "closing"} <=> task[t].ch = NoChannel

(* What is registered for an identity is an open channel of that identity and of no
   other, in every order of openings, re-openings and closings. *)
RegisteredIsOpen ==
    \A i \in Identities : contexts[i] # NoChannel =>
        channel[contexts[i]].state = "open" /\ channel[contexts[i]].of = i

(* No session is logged in again more often than its profile allows, although several
   requests may find it unhealthy together. *)
ReloginsBounded == \A c \in Channels : channel[c].relogins <= MaxRelogins

(* "Assert session health immediately before a scanner request": the channel a request
   goes out on was probed or logged in after that request began, even when the session
   was opened anew in between. *)
AskedAfterVerification ==
    \A t \in Tasks : task[t].pc = "asking" => task[t].ch \in task[t].fresh

Quiet == \A t \in Tasks : Idle(t)

(* When nothing is under way every open channel is registered: none is left without an
   owner that will close it. *)
NoLeakedChannel ==
    Quiet => \A c \in Channels : channel[c].state = "open" => c \in Registered

(* aclose(): "Close all cookie jars and wipe every secret scoped to this run". *)
SecretsWiped ==
    \A t \in Tasks : Idle(t) /\ task[t].op = "close" => vault = "wiped"
=============================================================================
