------------------------------- MODULE Discovery -------------------------------
(***************************************************************************)
(* Surface discovery (safescope_scanners/discovery.py): what documents an  *)
(* analyst supplies (OpenAPI, a GraphQL schema, JavaScript) declare, and   *)
(* the loop of deduplicate_candidates that merges what is declared more    *)
(* than once.                                                              *)
(*                                                                         *)
(* A declaration has the method as it is written, the address it resolves  *)
(* to, the names of its parameters and the kinds of document it is from.   *)
(* Lists are sets: the code sorts what it returns.  The sources of a       *)
(* candidate are a list joined by commas; a candidate that was merged once *)
(* and is merged again may name one twice, which the set does not show.    *)
(***************************************************************************)
CONSTANTS
    Methods, Urls, Names, Sources,
    Upper,       \* the method in capitals, of each method
    HttpMethods, \* _HTTP_METHODS
    InScope      \* the addresses whose origin is allowed and whose scheme is HTTP(S)

VARIABLES
    pending,   \* the candidates the loop has not come to
    seen,      \* those it has
    merged     \* the dict of the loop

vars == <<pending, seen, merged>>

Declaration == [method : Methods, url : Urls, parameters : SUBSET Names, sources : SUBSET Sources]

(* _allowed, and the operations of a path item among its other keys. *)
Candidates(document) == {c \in document : c.url \in InScope /\ Upper[c.method] \in HttpMethods}

Key(c) == <<Upper[c.method], c.url>>

Of(candidates, key) == {c \in candidates : Key(c) = key}

Init ==
    /\ \E document \in SUBSET Declaration : pending = Candidates(document)
    /\ seen = {}
    /\ merged = [key \in {} |-> {}]

Joined(c, current) ==
    [parameters |-> c.parameters \cup current.parameters, sources |-> c.sources \cup current.sources]

(* An iteration of the loop.  A list may hold a candidate more than once. *)
Merge(c) ==
    /\ c \in pending \cup seen
    /\ pending' = pending \ {c} /\ seen' = seen \cup {c}
    /\ merged' = [key \in DOMAIN merged \cup {Key(c)} |->
                     IF key # Key(c) THEN merged[key]
                     ELSE IF key \in DOMAIN merged THEN Joined(c, merged[key])
                     ELSE [parameters |-> c.parameters, sources |-> c.sources]]

Next == \E c \in pending \cup seen : Merge(c)

Spec == Init /\ [][Next]_vars

-----------------------------------------------------------------------------
(* What is merged, whatever the order: of each method and address, everything any
   declaration says. *)
Union(candidates) ==
    [key \in {Key(c) : c \in candidates} |->
        [parameters |-> UNION {c.parameters : c \in Of(candidates, key)},
         sources    |-> UNION {c.sources : c \in Of(candidates, key)}]]

(* "Merge duplicates by method/URL and preserve all discovered parameters": the dict is
   the union of what the loop has come to. *)
MergedIsUnion == merged = Union(seen)

(* No candidate is outside the scope, and none is lost. *)
MergedInScope ==
    /\ \A key \in DOMAIN merged : key[1] \in HttpMethods /\ key[2] \in InScope
    /\ \A c \in seen : Key(c) \in DOMAIN merged
=============================================================================
