----------------------------- MODULE RestoreContract -----------------------------
(***************************************************************************)
(* What journaled mutation promises the owner of the target, without the   *)
(* files, the requests and the replies: a resource is touched only while   *)
(* somebody owes its restoration, a debt is settled only when the resource *)
(* is back as it was, and no run starts while anything is owed.            *)
(***************************************************************************)
CONSTANTS Debts, Resources, Runs

VARIABLES
    owed,      \* the unsettled debts, each with its resource: Debts x Resources
    settled,   \* debts paid back; they are never owed again
    dirty,     \* resources that are not as they were before the first run
    running    \* the runs in progress

vars == <<owed, settled, dirty, running>>

OwedFor(u) == \E d \in Debts : <<d, u>> \in owed

Init == /\ owed = {} /\ settled = {} /\ dirty = {} /\ running = {}

Owe(d, u) ==
    /\ d \notin settled
    /\ \A v \in Resources : <<d, v>> \notin owed
    /\ running # {}
    /\ owed' = owed \cup {<<d, u>>}
    /\ UNCHANGED <<settled, dirty, running>>

Touch(u) ==
    /\ OwedFor(u)
    /\ dirty' = dirty \cup {u}
    /\ UNCHANGED <<owed, settled, running>>

Undo(u) ==
    /\ dirty' = dirty \ {u}
    /\ UNCHANGED <<owed, settled, running>>

Settle(d, u) ==
    /\ <<d, u>> \in owed
    /\ u \notin dirty
    /\ owed' = owed \ {<<d, u>>}
    /\ settled' = settled \cup {d}
    /\ UNCHANGED <<dirty, running>>

Start(r) ==
    /\ r \notin running
    /\ owed = {}
    /\ running' = running \cup {r}
    /\ UNCHANGED <<owed, settled, dirty>>

Stop(r) ==
    /\ running' = running \ {r}
    /\ UNCHANGED <<owed, settled, dirty>>

Next ==
    \/ \E d \in Debts, u \in Resources : Owe(d, u) \/ Settle(d, u)
    \/ \E u \in Resources : Touch(u) \/ Undo(u)
    \/ \E r \in Runs : Start(r) \/ Stop(r)

Spec == Init /\ [][Next]_vars

TypeOK ==
    /\ owed \subseteq Debts \X Resources
    /\ settled \subseteq Debts
    /\ dirty \subseteq Resources
    /\ running \subseteq Runs

(* Nothing is dirty without somebody owing its restoration. *)
DirtyIsOwed == \A u \in dirty : OwedFor(u)

(* A run starts on a target that is exactly as it was before the first run. *)
CleanStart == \A r \in Runs : r \in running' \ running => dirty = {}

StartsClean == [][CleanStart]_vars
=============================================================================
