---------------------------- MODULE GatedTransport ----------------------------
(***************************************************************************)
(* The network boundary of one scan run: RequestGate, KillSwitch and       *)
(* SSRFGuard (policy/gate.py) as GatedTransport (transport.py) uses them,  *)
(* the AdaptivePacer (pacing.py) and the pinned network backend            *)
(* (pinned_http.py).                                                       *)
(*                                                                         *)
(* Requests are coroutines of one event loop: the code between two awaits  *)
(* is one step.  request() awaits the DNS answer, its time slot and the    *)
(* response, so several callers are interleaved at those three points and  *)
(* the clock, the window and the kill switch move between them.            *)
(***************************************************************************)
EXTENDS Integers, Sequences, FiniteSets

CONSTANTS
    Requests,        \* the calls of request() in a concurrent plan
    Probes,          \* the calls of probe_tls(), which take no slot of the pacer
    Hosts,           \* (host, port) pairs a request or a redirect may name
    InScope,         \* the hosts whose requests pass checks 4 to 8 of evaluate()
    Addresses,       \* IP addresses DNS may answer with
    Unsafe,          \* those that SSRFGuard.check_ip refuses
    NoAddress,       \* "not connected"
    MaxConcurrency,  \* snapshot["max_concurrency"], the plan's semaphore
    MaxRequests,     \* snapshot["max_requests"], the budget
    MaxRedirects,    \* MAX_REDIRECTS = MAX_REDIRECT_DEPTH (5 in the code)
    Interval,        \* ticks between two requests, 1 / snapshot["max_rps"]
    MaxInterval,     \* the slowest the pacer gets, 1 / 0.1 rps
    Jitter,          \* ticks of random delay the pacer may add
    Opens, Closes,   \* valid_from and valid_until of the authorization
    Operator,        \* somebody engages and disengages the kill switch
    Horizon          \* bound on the clock, for model checking

Callers == Requests \cup Probes

ASSUME TransportAssumption ==
    /\ Requests \cap Probes = {}
    /\ InScope \subseteq Hosts /\ Hosts # {}
    /\ Unsafe \subseteq Addresses /\ NoAddress \notin Addresses
    /\ MaxConcurrency \in Nat \ {0} /\ MaxRequests \in Nat /\ MaxRedirects \in Nat
    /\ Interval \in Nat \ {0} /\ MaxInterval \in Nat /\ MaxInterval >= Interval
    /\ Jitter \in Nat /\ Opens \in Nat /\ Closes \in Nat /\ Horizon \in Nat
    /\ Operator \in BOOLEAN

(* What getaddrinfo returns once duplicates are dropped; the empty answer stands for a
   failed resolution too.  Two addresses are enough for answers to differ in order. *)
Answers == {<<>>} \cup {<<a>> : a \in Addresses}
                  \cup {<<p[1], p[2]>> : p \in {q \in Addresses \X Addresses : q[1] # q[2]}}

VARIABLES
    clock,      \* time.monotonic() and datetime.now(), in ticks
    killed,     \* KillSwitch._engaged
    gate,       \* _requests_made and _last_request_time of the RequestGate
    pacer,      \* current interval, _last_request_at and _signals of the AdaptivePacer
    pins,       \* GatedTransport._pins
    backend,    \* PinnedNetworkBackend._pins, what sockets are really opened to
    call,       \* where each caller is
    sent,       \* how many requests and probes have reached the network
    overshoot   \* per caller, what it sent since it last passed the gate while the
                \* kill switch was engaged or the window closed

control == <<clock, killed>>
vars    == <<clock, killed, gate, pacer, pins, backend, call, sent, overshoot>>

Running  == {"hop", "resolving", "waiting", "sent"}
Finished == {"returned", "denied", "blocked", "conflict", "redirect_limit", "failed"}

Call == [pc : {"idle"} \cup Running \cup Finished, host : Hosts, depth : Nat,
         slot : Nat, address : Addresses \cup {NoAddress}]

Larger(m, n)  == IF m >= n THEN m ELSE n
Smaller(m, n) == IF m <= n THEN m ELSE n
Listed(answer) == {answer[i] : i \in DOMAIN answer}

Init ==
    /\ clock = Interval          \* long after the zero of both _last_request fields
    /\ killed = FALSE
    /\ gate = [made |-> 0, last |-> 0]
    /\ pacer = [interval |-> Interval, last |-> 0, signals |-> 0]
    /\ pins = [h \in Hosts |-> <<>>]
    /\ backend = [h \in Hosts |-> <<>>]
    /\ call = [c \in Callers |-> [pc |-> "idle", host |-> CHOOSE h \in Hosts : TRUE,
                                  depth |-> 0, slot |-> 0, address |-> NoAddress]]
    /\ sent = 0
    /\ overshoot = [c \in Callers |-> 0]

Ends(c, how) == call' = [call EXCEPT ![c].pc = how, ![c].slot = 0, ![c].address = NoAddress]

-----------------------------------------------------------------------------
(* RequestGate *)

InWindow     == Opens <= clock /\ clock <= Closes
ControlsOpen == ~killed /\ InWindow

(* evaluate() of a request without a body: the mutation checks are in MutationRecovery. *)
Permits(h, depth) ==
    /\ ControlsOpen
    /\ gate.made < MaxRequests
    /\ depth <= MaxRedirects
    /\ h \in InScope

(* compute_delay() of the gate: the moment until which the caller sleeps. *)
GateSlot == Larger(clock, gate.last + Interval)

(* AdaptivePacer.compute_delay() with jitter j, and what it remembers. *)
PacerSlot(j) == Larger(clock, pacer.last + pacer.interval) + j
PacerAfter(slot) == [pacer EXCEPT !.last = slot]

(* Mutant: the gate counts the request and does not note the slot it gave. *)
GateForgetsSlot(made) == [made |-> made, last |-> gate.last]

GateAfter(made) == [made |-> made, last |-> GateSlot]

(* request() takes the later of the two delays, both computed without an await. *)
TakeSlot(c, made, j) ==
    /\ gate' = GateAfter(made)
    /\ pacer' = PacerAfter(PacerSlot(j))
    /\ call' = [call EXCEPT ![c].pc = "waiting", ![c].slot = Larger(GateSlot, PacerSlot(j))]

-----------------------------------------------------------------------------
(* GatedTransport.request and probe_tls *)

Active == {c \in Requests : call[c].pc \in Running}

(* execute_plan: a request enters under the semaphore; a probe is called on its own. *)
Start(c, h) ==
    /\ call[c].pc = "idle"
    /\ c \in Requests => Cardinality(Active) < MaxConcurrency
    /\ call' = [call EXCEPT ![c].pc = "hop", ![c].host = h]
    /\ UNCHANGED <<clock, killed, gate, pacer, pins, backend, sent, overshoot>>

(* Mutant: a request that is refused waits for the gate to open again. *)
DeniedRetries(c) ==
    /\ call[c].pc = "hop"
    /\ ~Permits(call[c].host, call[c].depth)
    /\ UNCHANGED vars

(* _allow raises PolicyDeny. *)
Denied(c) ==
    /\ call[c].pc = "hop"
    /\ ~Permits(call[c].host, call[c].depth)
    /\ Ends(c, "denied")
    /\ UNCHANGED <<clock, killed, gate, pacer, pins, backend, sent, overshoot>>

Passes(c) ==
    /\ call[c].pc = "hop"
    /\ Permits(call[c].host, call[c].depth)
    /\ overshoot' = [overshoot EXCEPT ![c] = 0]

(* A host the transport has not seen, and every host of a probe, is resolved. *)
AllowedToResolve(c) ==
    /\ Passes(c)
    /\ c \in Probes \/ pins[call[c].host] = <<>>
    /\ gate' = [gate EXCEPT !.made = @ + 1]
    /\ call' = [call EXCEPT ![c].pc = "resolving"]
    /\ UNCHANGED <<clock, killed, pacer, pins, backend, sent>>

AllowedToWait(c, j) ==
    /\ Passes(c)
    /\ c \in Requests /\ pins[call[c].host] # <<>>
    /\ TakeSlot(c, gate.made + 1, j)
    /\ UNCHANGED <<clock, killed, pins, backend, sent>>

Safe(answer) == answer # <<>> /\ Listed(answer) \cap Unsafe = {}

(* Mutant: one safe address is enough. *)
SafeEnough(answer) == answer # <<>> /\ ~ Listed(answer) \subseteq Unsafe

(* _validate_hostname: no address, or one that is unsafe, raises SSRFBlocked. *)
Accepts(answer) == Safe(answer)

(* The answer of the resolver is refused. *)
Blocked(c, answer) ==
    /\ call[c].pc = "resolving"
    /\ ~Accepts(answer)
    /\ Ends(c, "blocked")
    /\ UNCHANGED <<clock, killed, gate, pacer, pins, backend, sent, overshoot>>

(* Mutant: a later answer replaces the pin. *)
RepinAllowed(h, answer) == TRUE

(* The test of PinnedNetworkBackend.pin. *)
PinAllowed(h, answer) == backend[h] \in {<<>>, answer}

(* _ensure_hostname_pin after its await: the transport's own table is written before
   the backend compares the answer with the pin it has. *)
Pinned(c, answer, j) ==
    /\ c \in Requests /\ call[c].pc = "resolving"
    /\ Accepts(answer)
    /\ PinAllowed(call[c].host, answer)
    /\ pins' = [pins EXCEPT ![call[c].host] = answer]
    /\ backend' = [backend EXCEPT ![call[c].host] = answer]
    /\ TakeSlot(c, gate.made, j)
    /\ UNCHANGED <<clock, killed, sent, overshoot>>

(* ... and raises ValueError when it differs. *)
PinConflict(c, answer) ==
    /\ c \in Requests /\ call[c].pc = "resolving"
    /\ Accepts(answer)
    /\ ~PinAllowed(call[c].host, answer)
    /\ pins' = [pins EXCEPT ![call[c].host] = answer]
    /\ Ends(c, "conflict")
    /\ UNCHANGED <<clock, killed, gate, pacer, backend, sent, overshoot>>

(* A probe keeps its own answer and takes a slot of the gate only; "address" is the one
   of the answer that will accept the connection. *)
ProbeResolved(c, answer) ==
    /\ c \in Probes /\ call[c].pc = "resolving"
    /\ Accepts(answer)
    /\ gate' = GateAfter(gate.made)
    /\ \E a \in Listed(answer) :
           call' = [call EXCEPT ![c].pc = "waiting", ![c].slot = GateSlot, ![c].address = a]
    /\ UNCHANGED <<clock, killed, pacer, pins, backend, sent, overshoot>>

Reaches(c) ==
    IF c \in Probes THEN {call[c].address} ELSE Listed(backend[call[c].host])

(* The sleep is over and a socket is opened (or one of the pool, opened earlier to the
   same host, is used); nothing is checked between the sleep and the connection. *)
Send(c) ==
    /\ call[c].pc = "waiting" /\ clock >= call[c].slot
    /\ sent' = sent + 1
    /\ overshoot' = [overshoot EXCEPT ![c] = IF ControlsOpen THEN @ ELSE @ + 1]
    /\ \E a \in Reaches(c) :
           call' = [call EXCEPT ![c].pc = "sent", ![c].slot = 0, ![c].address = a]
    /\ UNCHANGED <<clock, killed, gate, pacer, pins, backend>>

(* Mutant: the count of signals goes on after the rate was halved. *)
ObserveCounting(throttled) ==
    IF throttled THEN [pacer EXCEPT !.signals = @ + 1, !.interval = Smaller(MaxInterval, 2 * @)]
                 ELSE [pacer EXCEPT !.signals = 0]

(* AdaptivePacer.observe: the second throttling answer in a row halves the rate. *)
Observe(throttled) ==
    IF ~throttled THEN [pacer EXCEPT !.signals = 0]
    ELSE IF pacer.signals = 0 THEN [pacer EXCEPT !.signals = 1]
    ELSE [pacer EXCEPT !.signals = 0, !.interval = Smaller(MaxInterval, 2 * @)]

Respond(c, throttled) ==
    /\ call[c].pc = "sent"
    /\ pacer' = IF c \in Requests THEN Observe(throttled) ELSE pacer
    /\ Ends(c, "returned")
    /\ UNCHANGED <<clock, killed, gate, pins, backend, sent, overshoot>>

(* Mutant: a redirect to a host already pinned takes its slot without passing the
   gate again. *)
RedirectUnchecked(c, h) ==
    /\ c \in Requests /\ call[c].pc = "sent" /\ call[c].depth < MaxRedirects
    /\ pins[h] # <<>>
    /\ gate' = GateAfter(gate.made)
    /\ pacer' = PacerAfter(PacerSlot(0))
    /\ call' = [call EXCEPT ![c].pc = "waiting", ![c].slot = Larger(GateSlot, PacerSlot(0)),
                            ![c].host = h, ![c].depth = @ + 1, ![c].address = NoAddress]
    /\ UNCHANGED <<clock, killed, pins, backend, sent, overshoot>>

(* A redirect is a new request, through the gate again. *)
Redirect(c, h) ==
    /\ c \in Requests /\ call[c].pc = "sent" /\ call[c].depth < MaxRedirects
    /\ pacer' = Observe(FALSE)
    /\ call' = [call EXCEPT ![c].pc = "hop", ![c].host = h, ![c].depth = @ + 1,
                            ![c].address = NoAddress]
    /\ UNCHANGED <<clock, killed, gate, pins, backend, sent, overshoot>>

RedirectLimit(c) ==
    /\ c \in Requests /\ call[c].pc = "sent" /\ call[c].depth = MaxRedirects
    /\ pacer' = Observe(FALSE)
    /\ Ends(c, "redirect_limit")
    /\ UNCHANGED <<clock, killed, gate, pins, backend, sent, overshoot>>

(* A connection or a read that fails or times out: the exception ends the call. *)
Fail(c) ==
    /\ call[c].pc = "sent"
    /\ Ends(c, "failed")
    /\ UNCHANGED <<clock, killed, gate, pacer, pins, backend, sent, overshoot>>

-----------------------------------------------------------------------------
(* The environment *)

(* Past the horizon the clock only moves for a caller that sleeps. *)
Tick ==
    /\ clock < Horizon \/ \E c \in Callers : clock < call[c].slot
    /\ clock' = clock + 1
    /\ UNCHANGED <<killed, gate, pacer, pins, backend, call, sent, overshoot>>

Engage ==
    /\ Operator /\ ~killed
    /\ killed' = TRUE
    /\ UNCHANGED <<clock, gate, pacer, pins, backend, call, sent, overshoot>>

Disengage ==
    /\ Operator /\ killed
    /\ killed' = FALSE
    /\ UNCHANGED <<clock, gate, pacer, pins, backend, call, sent, overshoot>>

Resolved(c) == \E answer \in Answers :
    \/ Blocked(c, answer)
    \/ \E j \in 0 .. Jitter : Pinned(c, answer, j)
    \/ PinConflict(c, answer)
    \/ ProbeResolved(c, answer)

Answered(c) ==
    \/ \E throttled \in BOOLEAN : Respond(c, throttled)
    \/ \E h \in Hosts : Redirect(c, h)
    \/ RedirectLimit(c)
    \/ Fail(c)

Step(c) ==
    \/ Denied(c)
    \/ AllowedToResolve(c)
    \/ \E j \in 0 .. Jitter : AllowedToWait(c, j)
    \/ Resolved(c)
    \/ Send(c)
    \/ Answered(c)

Next ==
    \/ \E c \in Callers : Step(c) \/ \E h \in Hosts : Start(c, h)
    \/ Tick \/ Engage \/ Disengage

Spec == Init /\ [][Next]_vars

(* The event loop runs every coroutine that is ready, time passes, the resolver answers
   and the client's timeout ends every exchange. *)
Fairness == WF_vars(Tick) /\ \A c \in Callers : WF_vars(Step(c))

FairSpec == Spec /\ Fairness

-----------------------------------------------------------------------------
(* Properties *)

TypeOK ==
    /\ clock \in Nat /\ killed \in BOOLEAN
    /\ gate \in [made : Nat, last : Nat]
    /\ pacer \in [interval : Nat, last : Nat, signals : 0 .. 1]
    /\ pins \in [Hosts -> Answers] /\ backend \in [Hosts -> Answers]
    /\ call \in [Callers -> Call]
    /\ sent \in Nat /\ overshoot \in [Callers -> Nat]

(* The traffic is never ahead of max_rps: by any moment the scan has sent at most one
   request or probe for each interval that has passed (the clock starts at one). *)
PaceHolds == sent * Interval <= clock

(* No socket leads to an address the SSRF guard refuses, and a request only reaches one
   of the addresses its host was pinned to, even when the callers' DNS answers differ. *)
ConnectedSafely ==
    \A c \in Callers : call[c].pc = "sent" =>
        /\ call[c].address \notin Unsafe
        /\ c \in Requests => call[c].address \in Listed(backend[call[c].host])

(* When the kill switch is engaged or the window closes each caller sends at most the one
   request that had already passed the gate ("stop at next request boundary"). *)
OvershootBounded == \A c \in Callers : overshoot[c] <= 1

(* A second DNS answer for the same host never moves the connections of a scan. *)
BackendFrozen ==
    [][\A h \in Hosts : backend[h] # <<>> => backend'[h] = backend[h]]_vars

(* Every call ends: redirects are bounded, slots come, and every refusal is raised. *)
CallsEnd == \A c \in Callers : (call[c].pc \in Running) ~> (call[c].pc \in Finished)

(* gate.py: "A scan that outlives its approved window stops at this boundary". *)
SentInsideWindow == [][sent' # sent => InWindow]_vars

(* _ensure_hostname_pin: "Validate DNS once and freeze the result before opening a
   socket".  Two requests that resolve the same host together write the table twice. *)
PinsFrozen == [][\A h \in Hosts : pins[h] # <<>> => pins'[h] = pins[h]]_vars
=============================================================================
