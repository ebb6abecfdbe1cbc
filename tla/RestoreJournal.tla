----------------------------- MODULE RestoreJournal -----------------------------
(***************************************************************************)
(* FileRestoreJournal (worker/restore_journal.py): one JSON document per   *)
(* restore action, replaced atomically (temporary file, fsync, os.replace),*)
(* so a document is always entirely the old or entirely the new one and    *)
(* survives a crash.  The journal is a function from action ids to         *)
(* documents; the operators below are the methods of the class.            *)
(***************************************************************************)
EXTENDS Integers

CONSTANTS
    NActions,      \* how many restore actions can ever be journaled
    MaxAttempts,   \* RestoreAction.max_attempts (3 in the code)
    Workers,       \* worker processes; the run of a worker owns its actions
    CreatedUrls,   \* addresses where a canary may be created (absent before)
    ExistingUrls,  \* resources of the target that exist before the scan
    Collections,   \* addresses canaries are posted to, other than their own
    Contents,      \* what a request can declare: a content type, a probe payload, neither
    Original,      \* the content of an existing resource before the scan
    NoResource     \* "there is nothing at this address"

(* Ids are random (uuid4); sorted() lists them in an order unrelated to their creation.
   A number stands for an id, so that the journal's order is the numbers' order while
   the order of creation stays free. *)
Actions == 1 .. NActions
Urls    == CreatedUrls \cup ExistingUrls
Places  == Urls \cup Collections
Values  == Actions \cup {Original, NoResource}   \* the write of action a leaves the value a

ASSUME JournalAssumption ==
    /\ NActions \in Nat
    /\ MaxAttempts \in Nat \ {0}
    /\ Workers # {} /\ Urls # {} /\ Contents # {}
    /\ CreatedUrls \cap ExistingUrls = {}
    /\ Original # NoResource
    /\ Actions \cap {Original, NoResource} = {}

Kinds  == {"DELETE_CREATED", "RESTORE_SNAPSHOT"}
Status == {"ABSENT", "PENDING", "FAILED", "COMPLETED"}

WriteVerbs == {"POST", "PUT", "PATCH", "DELETE"}

(* The requests _validate lets into the journal. *)
Restorations == [verb : WriteVerbs \ {"POST"}, url : Urls, content : Contents]

(* What a frozen policy says of writes: the verbs (none if allow_mutations is false), the
   addresses of an allowed origin no exclusion matches, the allowed content types and
   payloads, and allow_write_paths. *)
Policy == [verbs : SUBSET WriteVerbs, scope : SUBSET Places,
           contents : SUBSET Contents, paths : SUBSET Places]

NoPolicy == [verbs |-> {}, scope |-> {}, contents |-> {}, paths |-> {}]

(* "verb", "url", "content" and the body "restore" are the request that restores, "run" is
   scan_run_id and "policy" the policy_snapshot the replay will be judged by. *)
Entry == [status : Status, attempts : Nat, kind : Kinds, verb : WriteVerbs, url : Urls,
          content : Contents, restore : Values, run : Workers, policy : Policy]

NoEntry == [status |-> "ABSENT", attempts |-> 0, kind |-> "DELETE_CREATED", verb |-> "DELETE",
            url |-> CHOOSE u \in Urls : TRUE, content |-> CHOOSE c \in Contents : TRUE,
            restore |-> NoResource, run |-> CHOOSE w \in Workers : TRUE, policy |-> NoPolicy]

(* append: the caller picked an id with no document. *)
AppendAction(journal, a, kind, r, restore, run, policy) ==
    [journal EXCEPT ![a] = [status |-> "PENDING", attempts |-> 0, kind |-> kind, verb |-> r.verb,
                            url |-> r.url, content |-> r.content, restore |-> restore,
                            run |-> run, policy |-> policy]]

MarkCompleted(journal, a) == [journal EXCEPT ![a].status = "COMPLETED"]

(* Mutant: counts the attempts left instead of those made. *)
MarkFailedDown(journal, a) ==
    [journal EXCEPT ![a].status = "FAILED", ![a].attempts = @ - 1]

MarkFailed(journal, a) ==
    [journal EXCEPT ![a].status = "FAILED", ![a].attempts = @ + 1]

(* What unresolved_count() counts: exhausted actions included. *)
Unresolved(journal) == {a \in Actions : journal[a].status \in {"PENDING", "FAILED"}}

(* What pending() returns; the caller goes through it in the order of the ids. *)
Pending(journal) == {a \in Unresolved(journal) : journal[a].attempts < MaxAttempts}

First(todo) == {a \in todo : \A b \in todo : a <= b}
=============================================================================
