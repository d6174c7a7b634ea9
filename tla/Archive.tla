------------------------------ MODULE Archive ------------------------------
(***************************************************************************)
(* What generated documents promise to whoever reads them or the journal   *)
(* (app/documents/service.py, app/audit/subscribers.py): a document        *)
(* changes and the entry that tells of it appears in one instant, each     *)
(* request does so once at most and in the name of a user who may, and of  *)
(* a document nothing changes but its content and, once, its status.       *)
(*                                                                         *)
(* It does not promise that a finalized document keeps its content, nor    *)
(* that a document is finalized by one request only.                       *)
(***************************************************************************)
CONSTANTS
    Users,      \* who sends requests
    Admins,     \* the users that may finalize and export the documents of others
    Entitled,   \* the users that may have a document generated
    Docs,       \* the identifiers of documents
    Contents,   \* contents of a document
    Template,   \* the content of a new one
    Requests,   \* requests
    None

VARIABLES
    docs,       \* docs[d]: the document, or None
    trail       \* the entries of the journal

New(u, r) == [owner |-> u, status |-> "draft", content |-> Template, author |-> r]

Entry(event, d, u, r) == [event |-> event, doc |-> d, user |-> u, by |-> r]

\* Documents older than the requests, with their entries.
Init ==
    \E S \in SUBSET Docs, u \in Users :
      /\ docs = [d \in Docs |-> IF d \in S THEN New(u, None) ELSE None]
      /\ trail = {Entry("DocumentCreated", d, u, None) : d \in S}

\* A request enters what it has done, which it has not done before.
Enter(event, d, u, r) ==
    /\ \A e \in trail : e.by # r
    /\ trail' = trail \cup {Entry(event, d, u, r)}

MayUse(u, d) == docs[d] # None /\ (docs[d].owner = u \/ u \in Admins)

Create(d, u, r) ==
    /\ u \in Entitled /\ docs[d] = None
    /\ docs' = [docs EXCEPT ![d] = New(u, r)]
    /\ Enter("DocumentCreated", d, u, r)

Edited(d, c, r) == [owner |-> docs[d].owner, status |-> docs[d].status,
                    content |-> c, author |-> r]

\* The owner edits.  A content that is the one the request has read is not
\* written, whatever the document shows by now.
Rewrite(d, u, r) ==
    /\ docs[d] # None /\ docs[d].owner = u
    /\ \/ \E c \in Contents :
            docs' = [docs EXCEPT ![d] = Edited(d, c, r)]
       \/ docs' = docs
    /\ Enter("DocumentContentUpdated", d, u, r)

Finalize(d, u, r) ==
    /\ MayUse(u, d)
    /\ docs' = [docs EXCEPT ![d] = [@ EXCEPT !.status = "finalized"]]
    /\ Enter("DocumentFinalized", d, u, r)

Export(d, u, r) ==
    /\ MayUse(u, d)
    /\ docs' = docs
    /\ Enter("DocumentExported", d, u, r)

Next == \E d \in Docs, u \in Users, r \in Requests :
    Create(d, u, r) \/ Rewrite(d, u, r) \/ Finalize(d, u, r) \/ Export(d, u, r)

Spec == Init /\ [][Next]_<<docs, trail>>
=============================================================================
