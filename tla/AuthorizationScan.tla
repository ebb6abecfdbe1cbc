--------------------------- MODULE AuthorizationScan ---------------------------
(***************************************************************************)
(* The authorization scanners (razor/authorization.py) over the sessions   *)
(* of SessionRuntime: for each candidate they read a canary as its owner,  *)
(* a control that must be denied to another identity, and the canary as    *)
(* that other identity, one after the other, and let AuthorizationOracle   *)
(* (oracles.py) judge the three responses.  Their caller has opened the    *)
(* sessions before and closes the runtime behind them.                     *)
(*                                                                         *)
(* A response is what the oracle can tell apart: whether its status is an  *)
(* error, and, if not, which page it is.                                   *)
(***************************************************************************)
EXTENDS SessionRuntime

CONSTANTS
    NCandidates,    \* the length of the candidate list of the scan
    Scanner         \* the coroutine that runs scan()

ASSUME ScanAssumption ==
    /\ NCandidates \in Nat
    /\ Scanner \in Tasks

Candidates == 1 .. NCandidates

VARIABLES
    candidates,    \* whose canary, read by whom, and whether the site lets them
    permitted,     \* allowed_payloads of the policy has payload_id
    step, at,      \* what the caller or the scanner is doing, and for which candidate
    page,          \* the responses of that candidate, by step
    observations   \* the candidates scan() has observed

scanVars == <<candidates, permitted, step, at, page, observations>>
allVars  == <<contexts, channel, live, expiries, vault, task, scanVars>>

Requests == {"owner", "control", "cross"}
Pages == {"none", "error", "canary", "login", "another"}
Steps == Requests \cup {"open", "close", "closed"}

Candidate == {c \in [owner : Identities, other : Identities, canary : BOOLEAN, vulnerable : BOOLEAN] :
                 c.owner # c.other}

NoPages == [r \in Requests |-> "none"]

As(s) == IF s = "owner" THEN candidates[at].owner ELSE candidates[at].other

ScanInit ==
    /\ Init
    /\ candidates \in [Candidates -> Candidate] /\ permitted \in BOOLEAN
    /\ step = "open" /\ at = 0
    /\ page = NoPages /\ observations = {}

(* The site: an error is always possible; to who is not logged in it shows its login page,
   with status 200. *)
SiteAnswers(r, loggedIn) ==
    {"error"} \cup IF ~loggedIn THEN {"login"}
                   ELSE IF r = "owner" \/ (r = "cross" /\ candidates[at].vulnerable)
                   THEN {"canary", "another"}
                   ELSE {}

(* The next coroutine the caller or the scanner awaits. *)
Begin ==
    /\ Idle(Scanner) /\ task[Scanner].op = "none"
    /\ \/ step = "open" /\ \E i \in Identities : contexts[i] = NoChannel /\ OpenBegin(Scanner, i)
       \/ step \in Requests /\ UseBegin(Scanner, As(step))
       \/ step = "close" /\ CloseBegin(Scanner)
    /\ UNCHANGED scanVars

Read ==
    LET c == task[Scanner].ch IN
    /\ task[Scanner].pc = "asking" /\ ~Closed(c)
    /\ \E p \in SiteAnswers(step, c \in live) : page' = [page EXCEPT ![step] = p]
    /\ Ends(Scanner, "ok")
    /\ UNCHANGED <<contexts, channel, live, expiries, vault, candidates, permitted, step, at, observations>>

ReadRaises ==
    /\ task[Scanner].pc = "asking"
    /\ Ends(Scanner, "raised")
    /\ UNCHANGED <<contexts, channel, live, expiries, vault, scanVars>>

(* Mutant: any success of the other identity proves the finding. *)
JudgeByStatus(owner, denied, cross) ==
    IF owner = "error" \/ denied # "error" THEN "INCONCLUSIVE"
    ELSE IF cross = "error" THEN "REJECTED"
    ELSE "CONFIRMED"

(* AuthorizationOracle.evaluate *)
Judge(owner, denied, cross) ==
    IF owner = "error" \/ denied # "error" THEN "INCONCLUSIVE"
    ELSE IF cross = "error" THEN "REJECTED"
    ELSE IF owner = cross THEN "CONFIRMED"
    ELSE "INCONCLUSIVE"

Ended == Idle(Scanner) /\ task[Scanner].op # "none"

Returned == Ended /\ task[Scanner].result = "ok"

(* The first canary after the current candidate, or else the end of scan(): nothing is
   asked without the payload's permission, and nothing about what is no canary. *)
NextCandidate ==
    LET rest == {k \in Candidates : permitted /\ k > at /\ candidates[k].canary} IN
    IF rest = {} THEN /\ step' = "close" /\ UNCHANGED <<at, page>>
    ELSE /\ at' \in {k \in rest : \A l \in rest : k <= l}
         /\ step' = "owner" /\ page' = NoPages

(* The sessions are open one by one. *)
SessionOpened ==
    /\ Returned /\ step = "open"
    /\ IF NoChannel \in {contexts[i] : i \in Identities}
       THEN UNCHANGED <<step, at, page>>
       ELSE NextCandidate
    /\ Moves(Scanner, NewTask)
    /\ UNCHANGED <<contexts, channel, live, expiries, vault, candidates, permitted, observations>>

(* The next request of the candidate. *)
Proceed ==
    /\ Returned /\ step \in {"owner", "control"}
    /\ step' = IF step = "owner" THEN "control" ELSE "cross"
    /\ Moves(Scanner, NewTask)
    /\ UNCHANGED <<contexts, channel, live, expiries, vault, candidates, permitted, at, page, observations>>

(* The oracle judges the candidate, and only a confirmation is kept. *)
Verdict ==
    /\ Returned /\ step = "cross"
    /\ observations' = IF Judge(page["owner"], page["control"], page["cross"]) = "CONFIRMED"
                       THEN observations \cup {at} ELSE observations
    /\ NextCandidate
    /\ Moves(Scanner, NewTask)
    /\ UNCHANGED <<contexts, channel, live, expiries, vault, candidates, permitted>>

(* An exception leaves scan(), and what it has observed is lost. *)
ScanRaises ==
    /\ Ended /\ task[Scanner].result = "raised" /\ step \notin {"close", "closed"}
    /\ step' = "close" /\ observations' = {}
    /\ Moves(Scanner, NewTask)
    /\ UNCHANGED <<contexts, channel, live, expiries, vault, candidates, permitted, at, page>>

RuntimeClosed ==
    /\ Ended /\ step = "close"
    /\ step' = "closed"
    /\ Moves(Scanner, NewTask)
    /\ UNCHANGED <<contexts, channel, live, expiries, vault, candidates, permitted, at, page, observations>>

Session ==
    /\ \/ LoginFailed(Scanner) \/ Abort(Scanner) \/ Opened(Scanner)
       \/ Healthy(Scanner) \/ Relogin(Scanner) \/ Unhealthy(Scanner) \/ LoggedInAgain(Scanner)
       \/ CloseNext(Scanner)
       \/ Environment
    /\ UNCHANGED scanVars

ScanNext ==
    \/ Begin \/ Read \/ ReadRaises \/ Session
    \/ SessionOpened \/ Proceed \/ Verdict \/ ScanRaises \/ RuntimeClosed

ScanSpec == ScanInit /\ [][ScanNext]_allVars

-----------------------------------------------------------------------------
ScanTypeOK ==
    /\ TypeOK
    /\ candidates \in [Candidates -> Candidate] /\ permitted \in BOOLEAN
    /\ step \in Steps /\ at \in Candidates \cup {0}
    /\ page \in [Requests -> Pages] /\ observations \subseteq Candidates

(* The observation says that the second identity "read the first identity's dedicated
   canary object while the negative control was denied" (authorization.py): that is
   only said of a candidate whose canary the site lets it read, although sessions may end
   between the probe of their health and the request.  It takes two sessions lost at the
   worst moments. *)
NoFalsePositive == \A k \in observations : candidates[k].vulnerable

(* "Close all cookie jars and wipe every secret scoped to this run": whatever has failed
   before, nothing of the run is left behind its end, if no channel refuses to close. *)
NothingLeft ==
    step = "closed" => /\ \A c \in Channels : channel[c].state # "open"
                       /\ vault = "wiped"
=============================================================================
