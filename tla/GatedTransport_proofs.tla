-------------------------- MODULE GatedTransport_proofs --------------------------
(***************************************************************************)
(* Machine-checked safety of GatedTransport, for any number of callers,    *)
(* hosts and addresses, any rate, budget, window and redirects.            *)
(***************************************************************************)
EXTENDS GatedTransport, FiniteSetTheorems, TLAPS

(* What an answer lists are addresses. *)
LEMMA ListedType ==
  ASSUME NEW answer \in Answers
  PROVE  Listed(answer) \subseteq Addresses
<1>1. CASE answer = <<>>
  BY <1>1 DEF Listed
<1>2. ASSUME NEW a \in Addresses, answer = <<a>> PROVE Listed(answer) \subseteq Addresses
  BY <1>2 DEF Listed
<1>3. ASSUME NEW a \in Addresses, NEW b \in Addresses, answer = <<a, b>>
      PROVE  Listed(answer) \subseteq Addresses
  BY <1>3 DEF Listed
<1>. QED BY <1>1, <1>2, <1>3 DEF Answers

(* The slots of the gate and of the pacer are moments, none of them past. *)
LEMMA SlotLemma ==
  ASSUME TypeOK, NEW j \in 0 .. Jitter
  PROVE  /\ GateSlot \in Nat /\ GateSlot >= clock /\ GateSlot >= gate.last + Interval
         /\ PacerSlot(j) \in Nat
         /\ Larger(GateSlot, PacerSlot(j)) \in Nat
         /\ Larger(GateSlot, PacerSlot(j)) >= GateSlot
BY TransportAssumption DEF TypeOK, GateSlot, PacerSlot, Larger

LEMMA ObserveType ==
  ASSUME TypeOK, NEW throttled \in BOOLEAN
  PROVE  Observe(throttled) \in [interval : Nat, last : Nat, signals : 0 .. 1]
<1>. DEFINE slower == Smaller(MaxInterval, 2 * pacer.interval)
            Pacer  == [interval : Nat, last : Nat, signals : 0 .. 1]
<1>1. pacer \in Pacer
  BY DEF TypeOK
<1>2. slower \in Nat
  BY <1>1, TransportAssumption DEF Smaller
<1>3. \E none \in 0 .. 1, one \in 0 .. 1 :
         Observe(throttled) \in {[pacer EXCEPT !.signals = none], [pacer EXCEPT !.signals = one],
                                [[pacer EXCEPT !.signals = none] EXCEPT !.interval = slower]}
  <2>1. 0 \in 0 .. 1 /\ 1 \in 0 .. 1
    OBVIOUS
  <2>2. [[pacer EXCEPT !.signals = 0] EXCEPT !.interval = slower]
            = [pacer EXCEPT !.signals = 0, !.interval = slower]
    OBVIOUS
  <2>. QED BY <2>1, <2>2 DEF Observe
<1>. HIDE DEF slower
<1>4. ASSUME NEW k \in 0 .. 1
      PROVE  /\ [pacer EXCEPT !.signals = k] \in Pacer
             /\ [[pacer EXCEPT !.signals = k] EXCEPT !.interval = slower] \in Pacer
  BY <1>1, <1>2
<1>. QED BY <1>3, <1>4

(* What a call that ends becomes. *)
LEMMA EndsType ==
  ASSUME TypeOK, NEW c \in Callers, NEW how \in Finished, Ends(c, how)
  PROVE  call' \in [Callers -> Call]
BY ZenonT(40) DEF TypeOK, Ends, Call

LEMMA TypeStep ==
  ASSUME TypeOK, [Next]_vars
  PROVE  TypeOK'
<1>1. ASSUME NEW c \in Callers, NEW h \in Hosts, Start(c, h) PROVE TypeOK'
  BY ZenonT(40), <1>1 DEF Start, TypeOK, Call, Running
<1>2. ASSUME NEW c \in Callers, Denied(c) PROVE TypeOK'
  BY <1>2, EndsType DEF Denied, TypeOK, Finished
<1>3. ASSUME NEW c \in Callers, AllowedToResolve(c) PROVE TypeOK'
  <2>1. gate' \in [made : Nat, last : Nat] /\ overshoot' \in [Callers -> Nat]
    BY <1>3 DEF AllowedToResolve, Passes, TypeOK
  <2>2. call' \in [Callers -> Call]
    BY ZenonT(40), <1>3 DEF AllowedToResolve, TypeOK, Call, Running
  <2>. QED BY <1>3, <2>1, <2>2 DEF AllowedToResolve, TypeOK
<1>4. ASSUME NEW c \in Callers, NEW j \in 0 .. Jitter, AllowedToWait(c, j) PROVE TypeOK'
  <2>1. gate' \in [made : Nat, last : Nat]
    BY <1>4, SlotLemma DEF AllowedToWait, TakeSlot, GateAfter, TypeOK
  <2>2. pacer' \in [interval : Nat, last : Nat, signals : 0 .. 1]
    BY <1>4, SlotLemma DEF AllowedToWait, TakeSlot, PacerAfter, TypeOK
  <2>3. call' \in [Callers -> Call]
    BY ZenonT(40), <1>4, SlotLemma DEF AllowedToWait, TakeSlot, TypeOK, Call, Running
  <2>. QED BY <1>4, <2>1, <2>2, <2>3 DEF AllowedToWait, Passes, TypeOK
<1>5. ASSUME NEW c \in Callers, NEW answer \in Answers, Blocked(c, answer) PROVE TypeOK'
  BY <1>5, EndsType DEF Blocked, TypeOK, Finished
<1>6. ASSUME NEW c \in Callers, NEW answer \in Answers, NEW j \in 0 .. Jitter,
             Pinned(c, answer, j)
      PROVE  TypeOK'
  <2>1. gate' \in [made : Nat, last : Nat]
    BY <1>6, SlotLemma DEF Pinned, TakeSlot, GateAfter, TypeOK
  <2>2. pacer' \in [interval : Nat, last : Nat, signals : 0 .. 1]
    BY <1>6, SlotLemma DEF Pinned, TakeSlot, PacerAfter, TypeOK
  <2>3. call' \in [Callers -> Call]
    BY ZenonT(40), <1>6, SlotLemma DEF Pinned, TakeSlot, TypeOK, Call, Running
  <2>. QED BY <1>6, <2>1, <2>2, <2>3 DEF Pinned, TypeOK
<1>7. ASSUME NEW c \in Callers, NEW answer \in Answers, PinConflict(c, answer) PROVE TypeOK'
  BY <1>7, EndsType DEF PinConflict, TypeOK, Finished
<1>8. ASSUME NEW c \in Callers, NEW answer \in Answers, ProbeResolved(c, answer) PROVE TypeOK'
  <2>1. 0 \in 0 .. Jitter
    BY TransportAssumption
  <2>2. gate' \in [made : Nat, last : Nat]
    BY <1>8, <2>1, SlotLemma DEF ProbeResolved, GateAfter, TypeOK
  <2>3. call' \in [Callers -> Call]
    <3>1. PICK a \in Addresses : call' = [call EXCEPT ![c].pc = "waiting", ![c].slot = GateSlot,
                                                     ![c].address = a]
      BY <1>8, ListedType DEF ProbeResolved
    <3>2. GateSlot \in Nat
      BY <2>1, SlotLemma
    <3>3. [call[c] EXCEPT !.pc = "waiting", !.slot = GateSlot, !.address = a] \in Call
      BY <3>2 DEF TypeOK, Call, Running
    <3>4. call' = [call EXCEPT ![c] = [call[c] EXCEPT !.pc = "waiting", !.slot = GateSlot,
                                                      !.address = a]]
      BY <3>1 DEF TypeOK
    <3>. QED BY <3>3, <3>4 DEF TypeOK
  <2>. QED BY <1>8, <2>2, <2>3 DEF ProbeResolved, TypeOK
<1>9. ASSUME NEW c \in Callers, Send(c) PROVE TypeOK'
  <2>1. Reaches(c) \subseteq Addresses \cup {NoAddress}
    BY ListedType DEF Reaches, TypeOK, Call
  <2>2. call' \in [Callers -> Call]
    <3>1. PICK a \in Addresses \cup {NoAddress} :
             call' = [call EXCEPT ![c].pc = "sent", ![c].slot = 0, ![c].address = a]
      BY <1>9, <2>1 DEF Send
    <3>2. [call[c] EXCEPT !.pc = "sent", !.slot = 0, !.address = a] \in Call
      BY DEF TypeOK, Call, Running
    <3>3. call' = [call EXCEPT ![c] = [call[c] EXCEPT !.pc = "sent", !.slot = 0, !.address = a]]
      BY <3>1 DEF TypeOK
    <3>. QED BY <3>2, <3>3 DEF TypeOK
  <2>. QED BY <1>9, <2>2 DEF Send, TypeOK
<1>10. ASSUME NEW c \in Callers, NEW throttled \in BOOLEAN, Respond(c, throttled) PROVE TypeOK'
  BY <1>10, EndsType, ObserveType DEF Respond, TypeOK, Finished
<1>11. ASSUME NEW c \in Callers, NEW h \in Hosts, Redirect(c, h) PROVE TypeOK'
  <2>1. call' \in [Callers -> Call]
    BY <1>11 DEF Redirect, TypeOK, Call, Running
  <2>. QED BY <1>11, <2>1, ObserveType DEF Redirect, TypeOK
<1>12. ASSUME NEW c \in Callers, RedirectLimit(c) PROVE TypeOK'
  BY <1>12, EndsType, ObserveType DEF RedirectLimit, TypeOK, Finished
<1>13. ASSUME NEW c \in Callers, Fail(c) PROVE TypeOK'
  BY <1>13, EndsType DEF Fail, TypeOK, Finished
<1>14. CASE Tick \/ Engage \/ Disengage
  <2>1. clock' \in Nat
    BY <1>14 DEF Tick, Engage, Disengage, TypeOK
  <2>3. killed' \in BOOLEAN
    BY <1>14, Zenon DEF Tick, Engage, Disengage, TypeOK
  <2>2. UNCHANGED <<gate, pacer, pins, backend, call, sent, overshoot>>
    BY <1>14 DEF Tick, Engage, Disengage
  <2>. QED BY <2>1, <2>2, <2>3 DEF TypeOK
<1>15. CASE UNCHANGED vars
  BY <1>15 DEF vars, TypeOK
<1>. QED
  BY <1>1, <1>2, <1>3, <1>4, <1>5, <1>6, <1>7, <1>8, <1>9, <1>10, <1>11, <1>12, <1>13,
     <1>14, <1>15 DEF Next, Step, Resolved, Answered

(* The state of every component of the transport is what it should be. *)
THEOREM TypeCorrect == Spec => []TypeOK
<1>1. ASSUME Init PROVE TypeOK
  <2>1. (CHOOSE h \in Hosts : TRUE) \in Hosts
    BY TransportAssumption
  <2>2. call \in [Callers -> Call] /\ overshoot \in [Callers -> Nat]
    BY <1>1, <2>1 DEF Init, Call
  <2>3. <<>> \in Answers
    BY DEF Answers
  <2>4. gate \in [made : Nat, last : Nat] /\ pacer \in [interval : Nat, last : Nat, signals : 0 .. 1]
    BY <1>1, TransportAssumption DEF Init
  <2>5. clock \in Nat /\ killed \in BOOLEAN /\ sent \in Nat
    BY <1>1, TransportAssumption DEF Init
  <2>6. pins \in [Hosts -> Answers] /\ backend \in [Hosts -> Answers]
    BY <1>1, <2>3 DEF Init
  <2>. QED BY <2>2, <2>4, <2>5, <2>6 DEF TypeOK
<1>2. TypeOK /\ [Next]_vars => TypeOK'
  BY TypeStep
<1>. QED BY <1>1, <1>2, PTL DEF Spec
-----------------------------------------------------------------------------
(* Of every step: it opens a socket, or it gives a caller a slot, or it is neither and
   leaves who sleeps and who waits for an answer as they are. *)
GivesSlot(c) ==
    /\ call[c].pc \in {"hop", "resolving"} /\ call'[c].pc = "waiting"
    /\ call'[c].slot >= GateSlot
    /\ \A d \in Callers \ {c} : call'[d] = call[d]
    /\ gate'.last = GateSlot
    /\ UNCHANGED <<clock, sent>>

GivesNone ==
    /\ \A c \in Callers : call'[c].pc \in {"waiting", "sent"} => call'[c] = call[c]
    /\ \A c \in Callers : call[c].pc = "waiting" => call'[c].pc = "waiting"
    /\ gate'.last = gate.last /\ sent' = sent /\ clock' >= clock

LEMMA StepShape ==
  ASSUME TypeOK, [Next]_vars
  PROVE  GivesNone \/ \E c \in Callers : Send(c) \/ GivesSlot(c)
<1>1. ASSUME NEW c \in Callers, NEW how \in Finished, Ends(c, how),
             call[c].pc # "waiting", UNCHANGED <<clock, gate, sent>>
      PROVE  GivesNone
  BY <1>1 DEF Ends, GivesNone, TypeOK, Finished
<1>2. ASSUME NEW c \in Callers, NEW made \in Nat, NEW j \in 0 .. Jitter, TakeSlot(c, made, j),
             call[c].pc \in {"hop", "resolving"}, UNCHANGED <<clock, sent>>
      PROVE  GivesSlot(c)
  BY <1>2, SlotLemma DEF TakeSlot, GateAfter, GivesSlot, TypeOK
<1>3. ASSUME NEW c \in Callers, NEW h \in Hosts, Start(c, h) PROVE GivesNone
  BY <1>3 DEF Start, GivesNone, TypeOK
<1>4. ASSUME NEW c \in Callers, Denied(c) PROVE GivesNone
  BY <1>4, <1>1 DEF Denied, Finished
<1>5. ASSUME NEW c \in Callers, AllowedToResolve(c) PROVE GivesNone
  BY <1>5 DEF AllowedToResolve, Passes, GivesNone, TypeOK
<1>6. ASSUME NEW c \in Callers, NEW j \in 0 .. Jitter, AllowedToWait(c, j) PROVE GivesSlot(c)
  <2>1. gate.made + 1 \in Nat
    BY DEF TypeOK
  <2>. QED BY <1>6, <1>2, <2>1 DEF AllowedToWait, Passes
<1>7. ASSUME NEW c \in Callers, NEW answer \in Answers, Blocked(c, answer) PROVE GivesNone
  BY <1>7, <1>1 DEF Blocked, Finished
<1>8. ASSUME NEW c \in Callers, NEW answer \in Answers, NEW j \in 0 .. Jitter, Pinned(c, answer, j)
      PROVE  GivesSlot(c)
  <2>1. gate.made \in Nat
    BY DEF TypeOK
  <2>. QED BY <1>8, <1>2, <2>1 DEF Pinned
<1>9. ASSUME NEW c \in Callers, NEW answer \in Answers, PinConflict(c, answer) PROVE GivesNone
  BY <1>9, <1>1 DEF PinConflict, Finished
<1>10. ASSUME NEW c \in Callers, NEW answer \in Answers, ProbeResolved(c, answer)
       PROVE  GivesSlot(c)
  <2>1. GateSlot \in Nat /\ gate' = [made |-> gate.made, last |-> GateSlot]
    <3>1. 0 \in 0 .. Jitter
      BY TransportAssumption
    <3>. QED BY <1>10, <3>1, SlotLemma DEF ProbeResolved, GateAfter
  <2>2. PICK a \in Listed(answer) :
           call' = [call EXCEPT ![c].pc = "waiting", ![c].slot = GateSlot, ![c].address = a]
    BY <1>10 DEF ProbeResolved
  <2>3. /\ call'[c].pc = "waiting" /\ call'[c].slot = GateSlot
        /\ \A d \in Callers \ {c} : call'[d] = call[d]
    BY <2>2 DEF TypeOK, Call
  <2>4. call[c].pc = "resolving" /\ UNCHANGED <<clock, sent>>
    BY <1>10 DEF ProbeResolved
  <2>5. gate'.last = GateSlot /\ call'[c].slot >= GateSlot
    BY <2>1, <2>3
  <2>. QED BY <2>3, <2>4, <2>5 DEF GivesSlot
<1>11. ASSUME NEW c \in Callers, NEW throttled \in BOOLEAN, Respond(c, throttled) PROVE GivesNone
  BY <1>11, <1>1 DEF Respond, Finished
<1>12. ASSUME NEW c \in Callers, NEW h \in Hosts, Redirect(c, h) PROVE GivesNone
  BY <1>12 DEF Redirect, GivesNone, TypeOK
<1>13. ASSUME NEW c \in Callers, RedirectLimit(c) \/ Fail(c) PROVE GivesNone
  BY <1>13, <1>1 DEF RedirectLimit, Fail, Finished
<1>14. CASE Tick \/ Engage \/ Disengage \/ UNCHANGED vars
  BY <1>14 DEF Tick, Engage, Disengage, vars, GivesNone, TypeOK
<1>. QED
  BY <1>3, <1>4, <1>5, <1>6, <1>7, <1>8, <1>9, <1>10, <1>11, <1>12, <1>13, <1>14
     DEF Next, Step, Resolved, Answered

-----------------------------------------------------------------------------
Waiting == {c \in Callers : call[c].pc = "waiting"}
Due(t)  == {c \in Waiting : call[c].slot <= t}

(* The inductive strengthening of PaceHolds.  The slots the gate has given, used or not,
   are an Interval apart, so the last of them bounds how many there are; and by any later
   moment t, counting those who will have stopped sleeping as sent, the rate holds. *)
PaceInv ==
    /\ IsFiniteSet(Waiting)
    /\ (sent + Cardinality(Waiting)) * Interval <= gate.last
    /\ \A t \in Nat : t >= clock => (sent + Cardinality(Due(t))) * Interval <= t

LEMMA Times ==
  ASSUME NEW m \in Nat, NEW n \in Nat, NEW i \in Nat, m <= n
  PROVE  m * i <= n * i /\ (m + 1) * i = m * i + i /\ m * i \in Nat
<1>1. (m + 1) * i = m * i + i
  OBVIOUS
<1>2. PICK k \in Nat : n = m + k
  BY n - m \in Nat, n = m + (n - m)
<1>3. n * i = m * i + k * i /\ k * i >= 0
  BY <1>2
<1>. QED BY <1>1, <1>3

LEMMA PaceStep == TypeOK /\ PaceInv /\ [Next]_vars => PaceInv'
<1>. SUFFICES ASSUME TypeOK, PaceInv, [Next]_vars PROVE PaceInv'
  OBVIOUS
<1>1. /\ Interval \in Nat \ {0} /\ clock \in Nat /\ sent \in Nat /\ gate.last \in Nat
      /\ \A c \in Callers : call[c].slot \in Nat
  BY TransportAssumption DEF TypeOK, Call
<1>2. TypeOK'
  BY TypeStep
<1>3. clock' \in Nat /\ sent' \in Nat /\ gate'.last \in Nat /\ \A c \in Callers : call'[c].slot \in Nat
  BY <1>2 DEF TypeOK, Call
<1>4. /\ IsFiniteSet(Waiting) /\ Cardinality(Waiting) \in Nat
      /\ \A t \in Nat : /\ Due(t) \subseteq Waiting /\ IsFiniteSet(Due(t))
                        /\ Cardinality(Due(t)) \in Nat
                        /\ Cardinality(Due(t)) <= Cardinality(Waiting)
  BY FS_CardinalityType, FS_Subset DEF PaceInv, Due
<1>5. CASE GivesNone
  <2>1. Waiting' = Waiting
    BY <1>5 DEF GivesNone, Waiting
  <2>2. \A t \in Nat : Due(t)' = Due(t)
    BY <1>5, <2>1 DEF GivesNone, Waiting, Due
  <2>3. \A t \in Nat : t >= clock' => t >= clock
    BY <1>1, <1>3, <1>5 DEF GivesNone
  <2>. QED BY <1>5, <2>1, <2>2, <2>3 DEF GivesNone, PaceInv
<1>6. ASSUME NEW c \in Callers, GivesSlot(c) PROVE PaceInv'
  <2>1. c \notin Waiting /\ Waiting' = Waiting \cup {c}
    BY <1>6 DEF GivesSlot, Waiting
  <2>2. IsFiniteSet(Waiting') /\ Cardinality(Waiting') = Cardinality(Waiting) + 1
    BY <1>4, <2>1, FS_AddElement
  <2>3. GateSlot \in Nat /\ GateSlot >= clock /\ GateSlot >= gate.last + Interval
    <3>1. 0 \in 0 .. Jitter
      BY TransportAssumption
    <3>. QED BY <3>1, SlotLemma
  <2>4. (sent' + Cardinality(Waiting')) * Interval <= GateSlot
    <3>. DEFINE n == sent + Cardinality(Waiting)
    <3>1. n \in Nat /\ sent' + Cardinality(Waiting') = n + 1 /\ n * Interval <= gate.last
      BY <1>1, <1>4, <1>6, <2>2 DEF GivesSlot, PaceInv
    <3>. HIDE DEF n
    <3>2. (n + 1) * Interval = n * Interval + Interval /\ n * Interval \in Nat
      BY <1>1, <3>1, Times
    <3>. QED BY <1>1, <2>3, <3>1, <3>2
  <2>5. ASSUME NEW t \in Nat, t >= clock'
        PROVE  (sent' + Cardinality(Due(t)')) * Interval <= t
    <3>1. CASE call'[c].slot <= t
      <4>1. Due(t)' \subseteq Waiting'
        BY DEF Due
      <4>2. Cardinality(Due(t)') \in Nat /\ Cardinality(Due(t)') <= Cardinality(Waiting')
            /\ Cardinality(Waiting') \in Nat
        BY <2>2, <4>1, FS_Subset, FS_CardinalityType
      <4>. DEFINE m == sent' + Cardinality(Due(t)')
                  n == sent' + Cardinality(Waiting')
      <4>3. m \in Nat /\ n \in Nat /\ m <= n
        BY <1>3, <4>2
      <4>4. m * Interval <= n * Interval /\ m * Interval \in Nat /\ n * Interval \in Nat
        <5>. HIDE DEF m, n
        <5>. QED BY <1>1, <4>3, Times
      <4>5. GateSlot <= t
        BY <1>3, <1>6, <2>3, <3>1 DEF GivesSlot
      <4>6. n * Interval <= GateSlot
        BY <2>4
      <4>. HIDE DEF m, n
      <4>7. m * Interval <= t
        BY <2>3, <4>4, <4>5, <4>6
      <4>. QED BY <4>7 DEF m
    <3>2. CASE ~(call'[c].slot <= t)
      <4>1. Due(t)' = Due(t)
        BY <1>6, <2>1, <3>2 DEF GivesSlot, Waiting, Due
      <4>. QED BY <1>6, <2>5, <4>1 DEF GivesSlot, PaceInv
    <3>. QED BY <3>1, <3>2
  <2>. QED BY <1>6, <2>2, <2>4, <2>5 DEF GivesSlot, PaceInv
<1>7. ASSUME NEW c \in Callers, Send(c) PROVE PaceInv'
  <2>1. /\ c \in Waiting /\ call[c].slot <= clock /\ sent' = sent + 1
        /\ UNCHANGED <<clock, gate>>
    BY <1>1, <1>7 DEF Send, Waiting
  <2>2. call'[c].pc = "sent" /\ \A d \in Callers \ {c} : call'[d] = call[d]
    BY <1>7 DEF Send, TypeOK, Call
  <2>3. Waiting' = Waiting \ {c}
    BY <2>2 DEF Waiting
  <2>4. IsFiniteSet(Waiting') /\ Cardinality(Waiting') = Cardinality(Waiting) - 1
    BY <1>4, <2>1, <2>3, FS_RemoveElement
  <2>5. ASSUME NEW t \in Nat, t >= clock'
        PROVE  (sent' + Cardinality(Due(t)')) * Interval <= t
    <3>1. c \in Due(t) /\ Due(t)' = Due(t) \ {c}
      <4>1. call[c].slot <= t
        BY <1>1, <2>1, <2>5
      <4>2. \A d \in Waiting \ {c} : call'[d] = call[d]
        BY <2>2 DEF Waiting
      <4>. QED BY <2>1, <2>3, <4>1, <4>2 DEF Due
    <3>2. Cardinality(Due(t)') = Cardinality(Due(t)) - 1
      BY ZenonT(40), <1>4, <3>1, FS_RemoveElement
    <3>3. sent' + Cardinality(Due(t)') = sent + Cardinality(Due(t))
      BY <1>1, <1>4, <2>1, <3>2
    <3>. QED BY <2>1, <2>5, <3>3 DEF PaceInv
  <2>6. sent' + Cardinality(Waiting') = sent + Cardinality(Waiting)
    BY <1>1, <1>4, <2>1, <2>4
  <2>. QED BY <2>1, <2>4, <2>5, <2>6 DEF PaceInv
<1>. QED BY <1>5, <1>6, <1>7, StepShape

(* Whatever callers sleep, fail, redirect or probe, the traffic of a scan is never ahead
   of max_rps (gate.py, compute_delay). *)
THEOREM PaceHolding == Spec => []PaceHolds
<1>1. Init => PaceInv
  <2>. SUFFICES ASSUME Init PROVE PaceInv
    OBVIOUS
  <2>1. Waiting = {} /\ \A t \in Nat : Due(t) = {}
    BY DEF Init, Waiting, Due
  <2>2. Cardinality({}) = 0 /\ IsFiniteSet({})
    BY FS_EmptySet
  <2>3. sent = 0 /\ gate.last = 0 /\ clock = Interval /\ (0 + 0) * Interval = 0
    BY TransportAssumption DEF Init
  <2>. QED BY <2>1, <2>2, <2>3 DEF PaceInv
<1>2. TypeOK /\ PaceInv => PaceHolds
  <2>. SUFFICES ASSUME TypeOK, PaceInv PROVE PaceHolds
    OBVIOUS
  <2>1. clock \in Nat /\ sent \in Nat /\ Interval \in Nat
    BY TransportAssumption DEF TypeOK
  <2>2. Due(clock) \subseteq Waiting
    BY DEF Due
  <2>3. Cardinality(Due(clock)) \in Nat
    BY <2>2, FS_Subset, FS_CardinalityType DEF PaceInv
  <2>. DEFINE n == sent + Cardinality(Due(clock))
  <2>4. n \in Nat /\ sent <= n /\ n * Interval <= clock
    BY <2>1, <2>3 DEF PaceInv
  <2>. HIDE DEF n
  <2>5. sent * Interval <= n * Interval /\ sent * Interval \in Nat /\ n * Interval \in Nat
    BY <2>1, <2>4, Times
  <2>. QED BY <2>1, <2>4, <2>5 DEF PaceHolds
<1>. QED BY <1>1, <1>2, PaceStep, TypeCorrect, PTL DEF Spec
-----------------------------------------------------------------------------
(* A caller that starts, or is redirected, is about to ask the gate; nobody else moves. *)
LEMMA HopShape ==
  ASSUME TypeOK, NEW c \in Callers, NEW h \in Hosts, Start(c, h) \/ Redirect(c, h)
  PROVE  call'[c].pc = "hop" /\ \A d \in Callers \ {c} : call'[d] = call[d]
<1>1. CASE Start(c, h)
  BY <1>1 DEF Start, TypeOK, Call
<1>2. CASE Redirect(c, h)
  <2>1. PICK n \in Nat : call' = [call EXCEPT ![c].pc = "hop", ![c].host = h, ![c].depth = n,
                                             ![c].address = NoAddress]
    <3>1. call[c].depth + 1 \in Nat
      BY DEF TypeOK, Call
    <3>2. call' = [call EXCEPT ![c].pc = "hop", ![c].host = h, ![c].depth = call[c].depth + 1,
                              ![c].address = NoAddress]
      BY <1>2 DEF Redirect
    <3>. QED BY <3>1, <3>2
  <2>. QED BY <2>1 DEF TypeOK, Call
<1>. QED BY <1>1, <1>2

(* The addresses a pinned host has are none of the unsafe ones, nor is the one a probe is
   about to connect to: this is what makes ConnectedSafely inductive. *)
ConnectedInv ==
    /\ \A h \in Hosts : Listed(backend[h]) \cap Unsafe = {}
    /\ \A c \in Probes : call[c].pc = "waiting" => call[c].address \notin Unsafe
    /\ ConnectedSafely

(* What the pins of a step may do: nothing but fill an empty entry with a safe answer. *)
LEMMA BackendStep ==
  ASSUME TypeOK, [Next]_vars, NEW h \in Hosts
  PROVE  \/ backend'[h] = backend[h]
         \/ backend[h] = <<>> /\ Listed(backend'[h]) \cap Unsafe = {}
<1>1. ASSUME NEW c \in Callers, NEW answer \in Answers, NEW j \in 0 .. Jitter, Pinned(c, answer, j)
      PROVE  \/ backend'[h] = backend[h]
             \/ backend[h] = <<>> /\ Listed(backend'[h]) \cap Unsafe = {}
  BY <1>1 DEF Pinned, Accepts, Safe, PinAllowed, TypeOK
<1>2. backend' = backend \/ \E c \in Callers, answer \in Answers, j \in 0 .. Jitter : Pinned(c, answer, j)
  BY ZenonT(40) DEF Next, Step, Resolved, Answered, Start, Denied, AllowedToResolve, AllowedToWait, Passes,
         Blocked, PinConflict, ProbeResolved, Send, Respond, Redirect, RedirectLimit, Fail,
         Tick, Engage, Disengage, vars
<1>. QED BY <1>1, <1>2

(* A connection of the transport always leads to a safe address of its host (gate.py,
   check_ip; pinned_http.py, pin). *)
LEMMA ConnectedStep == TypeOK /\ ConnectedInv /\ [Next]_vars => ConnectedInv'
<1>. SUFFICES ASSUME TypeOK, ConnectedInv, [Next]_vars PROVE ConnectedInv'
  OBVIOUS
<1>1. \A h \in Hosts : Listed(backend'[h]) \cap Unsafe = {}
  BY BackendStep DEF ConnectedInv
<1>2. \A h \in Hosts : Listed(backend[h]) \subseteq Listed(backend'[h])
  BY BackendStep DEF Listed
<1>. DEFINE Good(d) == /\ d \in Probes /\ call'[d].pc = "waiting" => call'[d].address \notin Unsafe
                       /\ call'[d].pc = "sent" =>
                             /\ call'[d].address \notin Unsafe
                             /\ d \in Requests => call'[d].address \in Listed(backend'[call'[d].host])
<1>3. ASSUME NEW d \in Callers, call'[d] = call[d] PROVE Good(d)
  <2>1. call[d].host \in Hosts
    BY DEF TypeOK, Call
  <2>. QED BY <1>2, <1>3, <2>1 DEF ConnectedInv, ConnectedSafely
<1>4. ASSUME NEW d \in Callers, call'[d].pc \notin {"waiting", "sent"} PROVE Good(d)
  BY <1>4
<1>5. ASSUME NEW d \in Requests, call'[d].pc # "sent" PROVE Good(d)
  BY <1>5, TransportAssumption
<1>. HIDE DEF Good
<1>6. \A d \in Callers : Good(d)
  <2>1. ASSUME NEW c \in Callers, NEW how \in Finished, Ends(c, how) PROVE \A d \in Callers : Good(d)
    <3>1. \A d \in Callers \ {c} : call'[d] = call[d]
      BY <2>1 DEF Ends, TypeOK
    <3>2. call'[c].pc = how
      BY <2>1 DEF Ends, TypeOK, Call
    <3>. QED BY <1>3, <1>4, <2>1, <3>1, <3>2 DEF Finished
  <2>2. ASSUME NEW c \in Callers, NEW h \in Hosts, Start(c, h) \/ Redirect(c, h)
        PROVE  \A d \in Callers : Good(d)
    <3>1. call'[c].pc = "hop" /\ \A d \in Callers \ {c} : call'[d] = call[d]
      BY <2>2, HopShape
    <3>. QED BY <1>3, <1>4, <3>1
  <2>3. ASSUME NEW c \in Callers, AllowedToResolve(c) PROVE \A d \in Callers : Good(d)
    <3>1. call'[c].pc = "resolving" /\ \A d \in Callers \ {c} : call'[d] = call[d]
      BY <2>3 DEF AllowedToResolve, TypeOK, Call
    <3>. QED BY <1>3, <1>4, <3>1
  <2>4. ASSUME NEW c \in Requests, NEW made, NEW j, TakeSlot(c, made, j)
        PROVE  \A d \in Callers : Good(d)
    <3>1. call'[c].pc = "waiting" /\ \A d \in Callers \ {c} : call'[d] = call[d]
      BY <2>4 DEF TakeSlot, TypeOK, Call, Callers
    <3>. QED BY <1>3, <1>5, <3>1
  <2>5. ASSUME NEW c \in Callers, NEW answer \in Answers, ProbeResolved(c, answer)
        PROVE  \A d \in Callers : Good(d)
    <3>1. PICK a \in Listed(answer) :
             call' = [call EXCEPT ![c].pc = "waiting", ![c].slot = GateSlot, ![c].address = a]
      BY <2>5 DEF ProbeResolved
    <3>2. /\ call'[c].pc = "waiting" /\ call'[c].address = a
          /\ \A d \in Callers \ {c} : call'[d] = call[d]
      BY <3>1 DEF TypeOK, Call
    <3>3. a \notin Unsafe
      BY <2>5, <3>1 DEF ProbeResolved, Accepts, Safe
    <3>4. Good(c)
      BY <3>2, <3>3 DEF Good
    <3>. QED BY <1>3, <3>2, <3>4
  <2>6. ASSUME NEW c \in Callers, Send(c) PROVE \A d \in Callers : Good(d)
    <3>1. PICK a \in Reaches(c) :
             call' = [call EXCEPT ![c].pc = "sent", ![c].slot = 0, ![c].address = a]
      BY <2>6 DEF Send
    <3>2. /\ call'[c].pc = "sent" /\ call'[c].address = a /\ call'[c].host = call[c].host
          /\ \A d \in Callers \ {c} : call'[d] = call[d]
      BY <3>1 DEF TypeOK, Call
    <3>3. call[c].host \in Hosts /\ call[c].pc = "waiting" /\ backend' = backend
      BY <2>6 DEF Send, TypeOK, Call
    <3>4. c \in Requests => a \in Listed(backend'[call'[c].host]) /\ a \notin Unsafe
      BY <3>1, <3>2, <3>3, TransportAssumption DEF Reaches, ConnectedInv
    <3>5. c \in Probes => a \notin Unsafe
      BY <3>1, <3>3 DEF Reaches, ConnectedInv
    <3>6. Good(c)
      BY <3>2, <3>4, <3>5 DEF Good, Callers
    <3>. QED BY <1>3, <3>2, <3>6
  <2>7. ASSUME NEW c \in Callers, Denied(c) PROVE \A d \in Callers : Good(d)
    BY <2>1, <2>7 DEF Denied, Finished
  <2>8. ASSUME NEW c \in Callers, NEW j \in 0 .. Jitter, AllowedToWait(c, j)
        PROVE  \A d \in Callers : Good(d)
    BY <2>4, <2>8 DEF AllowedToWait
  <2>9. ASSUME NEW c \in Callers, Resolved(c) PROVE \A d \in Callers : Good(d)
    <3>1. PICK answer \in Answers : \/ Blocked(c, answer) \/ PinConflict(c, answer)
                                    \/ ProbeResolved(c, answer)
                                    \/ \E j \in 0 .. Jitter : Pinned(c, answer, j)
      BY <2>9 DEF Resolved
    <3>. QED BY <2>1, <2>4, <2>5, <3>1 DEF Blocked, PinConflict, Pinned, Finished
  <2>10. ASSUME NEW c \in Callers, Answered(c) PROVE \A d \in Callers : Good(d)
    BY <2>1, <2>2, <2>10 DEF Answered, Respond, RedirectLimit, Fail, Finished
  <2>11. CASE call' = call
    BY <1>3, <2>11
  <2>. QED
    BY <2>2, <2>3, <2>6, <2>7, <2>8, <2>9, <2>10, <2>11
       DEF Next, Step, Tick, Engage, Disengage, vars
<1>. QED BY <1>1, <1>6 DEF Good, ConnectedInv, ConnectedSafely, Callers

THEOREM ConnectingSafely == Spec => []ConnectedSafely
<1>1. Init => ConnectedInv
  BY DEF Init, ConnectedInv, ConnectedSafely, Listed, Callers
<1>2. ConnectedInv => ConnectedSafely
  BY DEF ConnectedInv
<1>. QED BY <1>1, <1>2, ConnectedStep, TypeCorrect, PTL DEF Spec

(* Two requests that resolve the same host together never move its connections
   (pinned_http.py, pin: a second, different pin is refused). *)
THEOREM BackendFreezing == Spec => BackendFrozen
<1>1. TypeOK /\ [Next]_vars => [\A h \in Hosts : backend[h] # <<>> => backend'[h] = backend[h]]_vars
  BY BackendStep
<1>. QED BY <1>1, TypeCorrect, PTL DEF Spec, BackendFrozen
-----------------------------------------------------------------------------
(* Whoever waits for an address or a slot has not sent since it passed the gate. *)
OvershootInv ==
    \A c \in Callers : /\ overshoot[c] \in {0, 1}
                       /\ call[c].pc \in {"resolving", "waiting"} => overshoot[c] = 0

(* A caller passes the gate for each request it sends (gate.py, allow: "stop at next
   request boundary"). *)
LEMMA OvershootStep == TypeOK /\ OvershootInv /\ [Next]_vars => OvershootInv'
<1>. SUFFICES ASSUME TypeOK, OvershootInv, [Next]_vars, NEW d \in Callers
              PROVE  /\ overshoot'[d] \in {0, 1}
                     /\ call'[d].pc \in {"resolving", "waiting"} => overshoot'[d] = 0
  BY DEF OvershootInv
<1>. DEFINE Good == /\ overshoot'[d] \in {0, 1}
                    /\ call'[d].pc \in {"resolving", "waiting"} => overshoot'[d] = 0
<1>1. CASE call'[d] = call[d] /\ overshoot'[d] = overshoot[d]
  BY <1>1 DEF OvershootInv
<1>2. CASE overshoot' = overshoot /\ call'[d].pc \notin {"resolving", "waiting"}
  BY <1>2 DEF OvershootInv
<1>3. CASE overshoot' = overshoot /\ call[d].pc \in {"resolving", "waiting"}
  BY <1>3 DEF OvershootInv
<1>4. CASE overshoot' = [overshoot EXCEPT ![d] = 0]
  BY <1>4 DEF TypeOK
<1>5. ASSUME NEW c \in Callers, NEW how \in Finished, Ends(c, how), UNCHANGED overshoot PROVE Good
  <2>1. c # d => call'[d] = call[d]
    BY <1>5 DEF Ends, TypeOK
  <2>2. c = d => call'[d].pc = how
    BY <1>5 DEF Ends, TypeOK, Call
  <2>. QED BY <1>1, <1>2, <1>5, <2>1, <2>2 DEF Finished
<1>6. ASSUME NEW c \in Callers, Passes(c), \A e \in Callers \ {c} : call'[e] = call[e] PROVE Good
  <2>1. c # d => call'[d] = call[d] /\ overshoot'[d] = overshoot[d]
    BY <1>6 DEF Passes, TypeOK
  <2>. QED BY <1>1, <1>4, <1>6, <2>1 DEF Passes
<1>7. ASSUME NEW c \in Callers, call[c].pc = "resolving", UNCHANGED overshoot,
             \A e \in Callers \ {c} : call'[e] = call[e]
      PROVE  Good
  BY <1>1, <1>3, <1>7
<1>8. ASSUME NEW c \in Callers, Send(c) PROVE Good
  <2>1. call[c].pc = "waiting" /\ overshoot' = [overshoot EXCEPT ![c] = IF ControlsOpen THEN @ ELSE @ + 1]
    BY <1>8 DEF Send
  <2>2. call'[c].pc = "sent" /\ \A e \in Callers \ {c} : call'[e] = call[e]
    BY <1>8 DEF Send, TypeOK, Call
  <2>3. overshoot[c] = 0
    BY <2>1 DEF OvershootInv
  <2>4. c = d => overshoot'[d] \in {0, 1}
    BY <2>1, <2>3 DEF TypeOK
  <2>5. c # d => overshoot'[d] = overshoot[d]
    BY <2>1 DEF TypeOK
  <2>. QED BY <1>1, <2>2, <2>4, <2>5
<1>9. ASSUME NEW c \in Callers, NEW h \in Hosts, Start(c, h) \/ Redirect(c, h) PROVE Good
  <2>1. /\ call'[c].pc = "hop" /\ \A e \in Callers \ {c} : call'[e] = call[e]
        /\ overshoot' = overshoot
    BY <1>9, HopShape DEF Start, Redirect
  <2>. QED BY <1>1, <1>2, <2>1
<1>10. ASSUME NEW c \in Callers, NEW made, NEW j, TakeSlot(c, made, j)
       PROVE  \A e \in Callers \ {c} : call'[e] = call[e]
  BY <1>10 DEF TakeSlot, TypeOK
<1>11. ASSUME NEW c \in Callers, NEW answer \in Answers, ProbeResolved(c, answer)
       PROVE  \A e \in Callers \ {c} : call'[e] = call[e]
  BY <1>11 DEF ProbeResolved, TypeOK
<1>. HIDE DEF Good
<1>12. ASSUME NEW c \in Callers, AllowedToResolve(c) PROVE Good
  <2>1. \A e \in Callers \ {c} : call'[e] = call[e]
    BY <1>12 DEF AllowedToResolve, TypeOK
  <2>. QED BY <1>6, <1>12, <2>1 DEF AllowedToResolve
<1>13. ASSUME NEW c \in Callers, NEW j \in 0 .. Jitter, AllowedToWait(c, j) PROVE Good
  BY <1>6, <1>10, <1>13 DEF AllowedToWait
<1>14. ASSUME NEW c \in Callers, Resolved(c) PROVE Good
  <2>1. PICK answer \in Answers : \/ Blocked(c, answer) \/ PinConflict(c, answer)
                                  \/ ProbeResolved(c, answer)
                                  \/ \E j \in 0 .. Jitter : Pinned(c, answer, j)
    BY <1>14 DEF Resolved
  <2>2. CASE Blocked(c, answer) \/ PinConflict(c, answer)
    BY <1>5, <2>2 DEF Blocked, PinConflict, Finished
  <2>3. CASE ProbeResolved(c, answer)
    BY <1>7, <1>11, <2>3 DEF ProbeResolved
  <2>4. CASE \E j \in 0 .. Jitter : Pinned(c, answer, j)
    BY <1>7, <1>10, <2>4 DEF Pinned
  <2>. QED BY <2>1, <2>2, <2>3, <2>4
<1>15. ASSUME NEW c \in Callers, Denied(c) PROVE Good
  BY <1>5, <1>15 DEF Denied, Finished
<1>16. ASSUME NEW c \in Callers, Answered(c) PROVE Good
  BY <1>5, <1>9, <1>16 DEF Answered, Respond, RedirectLimit, Fail, Finished
<1>17. ASSUME call' = call, overshoot' = overshoot PROVE Good
  BY <1>1, <1>17 DEF Good
<1>18. Good
  <2>1. CASE Tick \/ Engage \/ Disengage \/ UNCHANGED vars
    <3>1. call' = call /\ overshoot' = overshoot
      BY <2>1 DEF Tick, Engage, Disengage, vars
    <3>. QED BY <1>17, <3>1
  <2>2. ASSUME NEW c \in Callers, Step(c) PROVE Good
    BY <1>8, <1>12, <1>13, <1>14, <1>15, <1>16, <2>2 DEF Step
  <2>. QED BY <1>9, <2>1, <2>2 DEF Next
<1>. QED BY <1>18 DEF Good

THEOREM OvershootIsBounded == Spec => []OvershootBounded
<1>1. Init => OvershootInv
  BY DEF Init, OvershootInv
<1>2. OvershootInv => OvershootBounded
  BY DEF OvershootInv, OvershootBounded
<1>. QED BY <1>1, <1>2, OvershootStep, TypeCorrect, PTL DEF Spec
=============================================================================
