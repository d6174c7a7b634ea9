------------------------------- MODULE Ledger -------------------------------
(***************************************************************************)
(* What the audit journal promises (app/audit/subscribers.py, lines 1-14,  *)
(* and app/audit/models.py): what a request did and the entry that tells   *)
(* of it appear in the same instant, once; an entry never changes, and     *)
(* only entries older than the retention period are ever removed.          *)
(***************************************************************************)
EXTENDS Naturals

CONSTANTS
    Requests,    \* what may happen
    Retention    \* how long an entry is kept

VARIABLES
    leaves,    \* leaves[t]: what t leaves behind, among "row" and "entry"
    now,       \* the current time
    at,        \* at[t]: when t began
    happened,  \* the requests that have had their effect
    rows,      \* the requests whose row the database holds
    entries    \* the requests whose entry the journal holds

vars == <<leaves, now, at, happened, rows, entries>>

Init ==
    /\ leaves \in [Requests -> SUBSET {"row", "entry"}]
    /\ now = 0 /\ at = [t \in Requests |-> 0]
    /\ happened = {} /\ rows = {} /\ entries = {}

Begin(t) ==
    /\ now' = now + 1
    /\ at' = [at EXCEPT ![t] = now + 1]
    /\ UNCHANGED <<leaves, happened, rows, entries>>

\* The row and the entry, both or neither.
Happen(t) ==
    /\ t \notin happened
    /\ happened' = happened \cup {t}
    /\ rows' = rows \cup {u \in {t} : "row" \in leaves[t]}
    /\ entries' = entries \cup {u \in {t} : "entry" \in leaves[t]}
    /\ UNCHANGED <<leaves, now, at>>

Forget(S) ==
    /\ \A t \in S : at[t] + Retention < now
    /\ entries' = entries \ S
    /\ UNCHANGED <<leaves, now, at, happened, rows>>

Next == \/ \E t \in Requests : Begin(t) \/ Happen(t)
        \/ \E S \in SUBSET entries : Forget(S)

Spec == Init /\ [][Next]_vars
=============================================================================
