--------------------------- MODULE MCPolicyDecision ---------------------------
(* Small instances of PolicyDecision: one scanner of each risk, three authorizations
   and a request for each question the gate asks. *)
EXTENDS PolicyDecision

MCScanners ==
    {[risk |-> r, destructive |-> r = "DESTRUCTIVE"] : r \in Risks}
        \cup {[risk |-> "LIGHT", destructive |-> TRUE]}

Page(origin) == [origin |-> origin, path |-> "page"]

Read(origin) == [method |-> "GET", url |-> Page(origin), web |-> TRUE, depth |-> 0,
                 type |-> Absent, probe |-> FALSE, payload |-> Absent]

Probe(payload) == [Read("apex") EXCEPT !.probe = TRUE, !.payload = payload]
Write(verb) == [Read("apex") EXCEPT !.method = verb, !.type = "json"]

MCRequests ==
    {Read("apex"), Read("www"), Read("other"),
     Probe("swap"), Probe(Absent),
     Write("POST"), Write("PUT"), Write("DELETE")}

(* A light ROE without mutations, an aggressive one, and one for another origin. *)
Light == [opens |-> 0, closes |-> 1, origins |-> {"apex"}, excluded |-> {},
          verbs |-> ReadVerbs, types |-> {}, payloads |-> {}, mutations |-> FALSE,
          active |-> FALSE, max |-> 2, writable |-> {}]

Full == [Light EXCEPT !.origins = {"apex", "www"}, !.excluded = {Page("www")},
                      !.verbs = Verbs, !.types = {"json"}, !.payloads = {"swap"},
                      !.mutations = TRUE, !.active = TRUE, !.writable = {Page("apex")}]

Elsewhere == [Full EXCEPT !.opens = 1, !.origins = {"other"}]

MCRoes == {Light, Full, Elsewhere}
=============================================================================
