------------------------------ MODULE Register ------------------------------
(***************************************************************************)
(* What case materials and checks promise to whoever reads them            *)
(* (app/case_materials/service.py and app/checks/service.py): an upload is *)
(* registered in one instant, with its file, all that was read in it and   *)
(* the entry that tells of it; so is a check, with the verdicts on its     *)
(* answers; nothing registered ever changes.                               *)
(***************************************************************************)
CONSTANTS
    Users,      \* who sends files and answers
    Admins,     \* the users that may use the uploads of others
    Ids,        \* the identifiers of rows
    Readings,   \* Readings[f]: status and draft of a file that is accepted
    Payloads,   \* answers a user may give instead of a draft
    Verdicts,   \* Verdicts[u][a]: the verdicts on the answers a of user u
    None

VARIABLES
    uploads,    \* uploads[i]: a registered upload, or None
    checks,     \* checks[i]: a registered check, or None
    trail       \* the entries of the journal

vars == <<uploads, checks, trail>>

Init ==
    /\ uploads = [i \in Ids |-> None]
    /\ checks = [i \in Ids |-> None]
    /\ trail = {}

\* The entry appears with the row, under an identifier nothing else has.
Enter(event, i, u) ==
    /\ trail' = trail \cup {[event |-> event, id |-> i, user |-> u]}
    /\ uploads[i] = None /\ checks[i] = None

AddUpload(i, u) ==
    /\ Enter("CaseMaterialUploaded", i, u)
    /\ \E f \in DOMAIN Readings :
         uploads' = [uploads EXCEPT ![i] = [owner |-> u, file |-> f,
                                            status |-> Readings[f].status,
                                            draft |-> Readings[f].draft]]
    /\ UNCHANGED checks

\* The uploads u may confirm, and what may be answered when from is confirmed.
Confirmable(u) == {j \in Ids : /\ uploads[j] # None
                               /\ uploads[j].status = "extracted"
                               /\ uploads[j].owner = u \/ u \in Admins}

Offered(from) == Payloads \cup {uploads[j].draft : j \in {from} \ {None}}

AddCheck(i, u) ==
    /\ Enter("CheckCreated", i, u)
    /\ \E from \in Confirmable(u) \cup {None} : \E a \in Offered(from) :
         checks' = [checks EXCEPT ![i] = [owner |-> u, from |-> from, answers |-> a,
                                          results |-> Verdicts[u][a]]]
    /\ UNCHANGED uploads

Next == \E i \in Ids, u \in Users : AddUpload(i, u) \/ AddCheck(i, u)

Spec == Init /\ [][Next]_vars
=============================================================================
