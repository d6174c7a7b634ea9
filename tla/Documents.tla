----------------------------- MODULE Documents -----------------------------
(***************************************************************************)
(* Generated documents (app/documents) written by concurrent requests,     *)
(* together with what surrounds each of them: the request's database       *)
(* session (app/db/session.py), the event bus (app/core/events.py) and the *)
(* audit subscriber (app/audit/subscribers.py), which writes its entry in  *)
(* the same session.                                                       *)
(*                                                                         *)
(* A member of Txns is one request.  Each statement that awaits the server *)
(* is an action, since other requests run in between.  The answer leaves   *)
(* before get_db commits.                                                  *)
(***************************************************************************)
EXTENDS Integers, FiniteSets

CONSTANTS
    Users,        \* the users that send requests
    Role,         \* Role[u]: users.role
    Checks,       \* identifiers of checks
    CheckOwner,   \* CheckOwner[c]: the user of check c, None if c is unknown
    Docs,         \* the identifiers uuid4 may give
    Contents,     \* contents of a document
    Template,     \* the content the templates render
    Txns,         \* requests
    Workload,     \* the kinds of request a run admits
    Faults,       \* the faults a run admits
    Seeds,        \* whether documents may exist before the run starts
    None          \* the absent value: Python's None, an absent row

Roles == {"lawyer", "investigator", "officer", "admin"}
Kinds == {"generate", "update", "finalize", "export"}

\* DOCUMENT_TYPES_BY_ROLE and REQUIRED_EXTRA_FIELDS.
TypesByRole ==
    [lawyer |-> {"exclusion_motion", "court_decision_copy_request",
                 "data_request_complaint"},
     investigator |-> {"court_decision_copy_request", "officer_checklist",
                       "legalization_plan"},
     officer |-> {"officer_checklist", "legalization_plan"},
     admin |-> {"exclusion_motion", "court_decision_copy_request",
                "data_request_complaint", "officer_checklist",
                "legalization_plan"}]

Types == TypesByRole["admin"]

RequiredFields ==
    [exclusion_motion |-> {"addressee", "applicant_name", "case_number"},
     court_decision_copy_request |->
         {"addressee", "applicant_name", "case_number"},
     data_request_complaint |-> {"addressee", "applicant_name"},
     officer_checklist |-> {},
     legalization_plan |-> {}]

\* A row. author is the request that wrote the content, None for a row older
\* than the run.
Columns == {"owner", "status", "content", "author"}
Rows == [owner : Users, status : {"draft", "finalized"}, content : Contents,
         author : Txns \cup {None}]

\* What POST /documents asks for; complete tells whether no required field is
\* missing.
Orders == [user : Users, check : Checks, type : Types, complete : BOOLEAN]

\* What a request carries on once its first statement has been answered; only
\* a PATCH has a content, and only generate has no document.
Requests == [kind : Kinds, user : Users, doc : Docs \cup {None},
             content : Contents \cup {None}]
OnDocument == {r \in Requests : /\ r.kind # "generate" /\ r.doc # None
                                /\ r.content # None <=> r.kind = "update"}

EventOf == [generate |-> "DocumentCreated", update |-> "DocumentContentUpdated",
            finalize |-> "DocumentFinalized", export |-> "DocumentExported"]

Entries == [event : {EventOf[k] : k \in Kinds}, doc : Docs, user : Users,
            by : Txns \cup {None}]

\* An INSERT or UPDATE: it sets the columns of sets to their values in row.
Writes == [doc : Docs, sets : SUBSET Columns, row : Rows]

Running == {"flush", "publish", "commit"}
Ends == {"committed", "rolled_back"}
Refusals == {"check_not_found", "type_not_allowed", "missing_fields",
             "not_found", "forbidden", "already_finalized"}

ASSUME DocumentsAssumption ==
    /\ Role \in [Users -> Roles]
    /\ CheckOwner \in [Checks -> Users \cup {None}]
    /\ Template \in Contents
    /\ Workload \subseteq Kinds
    /\ Faults \subseteq {"audit", "crash"}
    /\ Seeds \in BOOLEAN
    /\ None \notin Docs \cup Contents \cup Txns \cup Rows \cup Requests \cup Writes
    /\ None \notin Refusals \cup {"ok", "error"}

VARIABLES
    docs,    \* docs[d]: the committed row, or None
    trail,   \* the committed audit_log_entries
    pc,      \* where each request stands
    req,     \* the request it serves, from its first statement on
    seen,    \* the document in its session's identity map
    write,   \* what it has flushed, or None
    audit,   \* what became of its audit entry
    answer   \* the answer the client got

vars == <<docs, trail, pc, req, seen, write, audit, answer>>

TypeOK ==
    /\ docs \in [Docs -> Rows \cup {None}]
    /\ trail \subseteq Entries
    /\ pc \in [Txns -> {"idle"} \cup Running \cup Ends]
    /\ req \in [Txns -> Requests \cup {None}]
    /\ seen \in [Txns -> Rows \cup {None}]
    /\ write \in [Txns -> Writes \cup {None}]
    /\ audit \in [Txns -> {"none", "added", "failed"}]
    /\ answer \in [Txns -> {None, "ok", "error"} \cup Refusals]

Draft(u) == [owner |-> u, status |-> "draft", content |-> Template,
             author |-> None]

Init ==
    /\ \E S \in (IF Seeds THEN SUBSET Docs ELSE {{}}), u \in Users :
       /\ docs = [d \in Docs |-> IF d \in S THEN Draft(u) ELSE None]
       /\ trail = {[event |-> "DocumentCreated", doc |-> d, user |-> u,
                    by |-> None] : d \in S}
    /\ pc = [t \in Txns |-> "idle"]
    /\ req = [t \in Txns |-> None]
    /\ seen = [t \in Txns |-> None]
    /\ write = [t \in Txns |-> None]
    /\ audit = [t \in Txns |-> "none"]
    /\ answer = [t \in Txns |-> None]

-----------------------------------------------------------------------------
(* Helpers.                                                                *)

IsAdmin(u) == Role[u] = "admin"

\* t holds the lock of the row d, or the key d it has inserted.
Holds(t, d) == write[t] # None /\ write[t].doc = d

\* Variant: a closed session keeps its locks.
CloseHolding(t, end) ==
    /\ pc' = [pc EXCEPT ![t] = end]
    /\ req' = [req EXCEPT ![t] = None]
    /\ seen' = [seen EXCEPT ![t] = None]
    /\ UNCHANGED write

\* The session closes; its locks go.
Close(t, end) ==
    /\ pc' = [pc EXCEPT ![t] = end]
    /\ req' = [req EXCEPT ![t] = None]
    /\ seen' = [seen EXCEPT ![t] = None]
    /\ write' = [write EXCEPT ![t] = None]

\* An exception leaves the handler: get_db rolls back, main.py answers.
Raise(t, outcome) ==
    /\ answer' = [answer EXCEPT ![t] = outcome]
    /\ Close(t, "rolled_back")
    /\ UNCHANGED <<docs, trail, audit>>

\* generate: access to the check, then the role, then the fields.
GenerateRefusal(r) ==
    LET owner == CheckOwner[r.check]
    IN  IF owner = None \/ (owner # r.user /\ ~IsAdmin(r.user)) THEN "check_not_found"
        ELSE IF r.type \notin TypesByRole[Role[r.user]] THEN "type_not_allowed"
        ELSE IF RequiredFields[r.type] # {} /\ ~r.complete THEN "missing_fields"
        ELSE None

\* Variant: an admin may edit as well.
MayUseAsAdmin(r, row) == r.user = row.owner \/ IsAdmin(r.user)

\* update_content admits the owner only, finalize and export an admin as well.
MayUse(r, row) == r.user = row.owner \/ (r.kind # "update" /\ IsAdmin(r.user))

DocumentRefusal(r, row) ==
    IF row = None THEN "not_found"
    ELSE IF ~MayUse(r, row) THEN "forbidden"
    ELSE IF r.kind # "export" /\ row.status = "finalized" THEN "already_finalized"
    ELSE None

\* The object in the session after the handler has set its attributes.
NewRow(t, r, old) ==
    IF r.kind = "finalize" THEN [old EXCEPT !.status = "finalized"]
    ELSE [old EXCEPT !.content = r.content, !.author = t]

\* Variant: the UPDATE writes the whole object.
AllColumns(r, old) == Columns

\* The columns an UPDATE sets: the attributes whose value differs from what the
\* session has read.
ChangedColumns(r, old) ==
    IF r.kind = "finalize" THEN {"status"}
    ELSE IF r.content = old.content THEN {}
    ELSE {"content", "author"}

\* A row after an INSERT or UPDATE.
Apply(w, row) ==
    [owner   |-> IF "owner" \in w.sets THEN w.row.owner ELSE row.owner,
     status  |-> IF "status" \in w.sets THEN w.row.status ELSE row.status,
     content |-> IF "content" \in w.sets THEN w.row.content ELSE row.content,
     author  |-> IF "author" \in w.sets THEN w.row.author ELSE row.author]

Entry(t, d) == [event |-> EventOf[req[t].kind], doc |-> d, user |-> req[t].user,
                by |-> t]

\* The document an event of t names.
Subject(t) == IF req[t].kind = "generate" THEN write[t].doc ELSE req[t].doc

-----------------------------------------------------------------------------
(* A request: its arrival and first statement, which no other request can  *)
(* tell apart, are one action.                                             *)

\* Docs bounds the documents of a run: it takes no more requests to generate
\* one than identifiers are left.
IdentifierLeft ==
    Cardinality({d \in Docs : docs[d] = None})
        > Cardinality({t \in Txns : req[t] # None /\ req[t].kind = "generate"})

\* SELECT of the check, and the guards of generate.
ReadCheck(t, r) ==
    /\ pc[t] = "idle" /\ "generate" \in Workload /\ IdentifierLeft
    /\ IF GenerateRefusal(r) # None
       THEN Raise(t, GenerateRefusal(r))
       ELSE /\ pc' = [pc EXCEPT ![t] = "flush"]
            /\ req' = [req EXCEPT ![t] = [kind |-> "generate", user |-> r.user,
                                            doc |-> None, content |-> None]]
            /\ UNCHANGED <<docs, trail, seen, write, audit, answer>>

\* get_by_id, and the guards that follow it without an await.
ReadDocument(t, r) ==
    /\ pc[t] = "idle" /\ r.kind \in Workload
    /\ LET row == docs[r.doc]
       IN  IF DocumentRefusal(r, row) # None
           THEN Raise(t, DocumentRefusal(r, row))
           ELSE /\ pc' = [pc EXCEPT ![t] = IF r.kind = "export"
                                           THEN "publish" ELSE "flush"]
                /\ req' = [req EXCEPT ![t] = r]
                /\ seen' = [seen EXCEPT ![t] = row]
                /\ UNCHANGED <<docs, trail, write, audit, answer>>

\* INSERT of a draft under a fresh identifier.
AddDraft(t) ==
    /\ pc[t] = "flush" /\ req[t].kind = "generate"
    /\ \E d \in Docs :
       /\ docs[d] = None
       /\ \A u \in Txns : ~Holds(u, d)
       /\ write' = [write EXCEPT ![t] =
              [doc |-> d, sets |-> Columns,
               row |-> [Draft(req[t].user) EXCEPT !.author = t]]]
    /\ pc' = [pc EXCEPT ![t] = "publish"]
    /\ UNCHANGED <<docs, trail, req, seen, audit, answer>>

\* Variant: the UPDATE takes no lock.
UpdateRowUnlocked(t) ==
    /\ pc[t] = "flush" /\ req[t].kind # "generate"
    /\ write' = [write EXCEPT ![t] =
           [doc |-> req[t].doc, sets |-> ChangedColumns(req[t], seen[t]),
            row |-> NewRow(t, req[t], seen[t])]]
    /\ pc' = [pc EXCEPT ![t] = "publish"]
    /\ UNCHANGED <<docs, trail, req, seen, audit, answer>>

\* UPDATE by primary key: waits for the row lock, checks nothing again.
UpdateRow(t) ==
    /\ pc[t] = "flush" /\ req[t].kind # "generate"
    /\ \A u \in Txns \ {t} : ~Holds(u, req[t].doc)
    /\ write' = [write EXCEPT ![t] =
           [doc |-> req[t].doc, sets |-> ChangedColumns(req[t], seen[t]),
            row |-> NewRow(t, req[t], seen[t])]]
    /\ pc' = [pc EXCEPT ![t] = "publish"]
    /\ UNCHANGED <<docs, trail, req, seen, audit, answer>>

\* Variant: the entry is committed in a session of the writer's own.
PublishInOwnSession(t) ==
    /\ pc[t] = "publish"
    /\ trail' = trail \cup {Entry(t, Subject(t))}
    /\ audit' = [audit EXCEPT ![t] = "added"]
    /\ answer' = [answer EXCEPT ![t] = "ok"]
    /\ pc' = [pc EXCEPT ![t] = "commit"]
    /\ UNCHANGED <<docs, req, seen, write>>

\* The subscriber adds its entry to the request's session, publish returns,
\* and the answer is sent; the commit is still to come.
Publish(t) ==
    /\ pc[t] = "publish"
    /\ audit' = [audit EXCEPT ![t] = "added"]
    /\ answer' = [answer EXCEPT ![t] = "ok"]
    /\ pc' = [pc EXCEPT ![t] = "commit"]
    /\ UNCHANGED <<docs, trail, req, seen, write>>

\* The flush of the entry fails.  The bus swallows the exception, but the
\* session has rolled its transaction back and takes no further statement:
\* reading the expired document raises; a new document is detached and an
\* export holds its bytes, so these answer first and fail at the commit.
PublishFails(t) ==
    /\ pc[t] = "publish" /\ "audit" \in Faults
    /\ audit' = [audit EXCEPT ![t] = "failed"]
    /\ IF req[t].kind \in {"update", "finalize"}
       THEN /\ answer' = [answer EXCEPT ![t] = "error"]
            /\ Close(t, "rolled_back")
       ELSE /\ answer' = [answer EXCEPT ![t] = "ok"]
            /\ pc' = [pc EXCEPT ![t] = "commit"]
            /\ write' = [write EXCEPT ![t] = None]
            /\ UNCHANGED <<req, seen>>
    /\ UNCHANGED <<docs, trail>>

Commit(t) ==
    /\ pc[t] = "commit" /\ audit[t] = "added"
    /\ docs' = IF write[t] = None THEN docs
               ELSE [docs EXCEPT ![write[t].doc] = Apply(write[t], @)]
    /\ trail' = trail \cup {Entry(t, Subject(t))}
    /\ Close(t, "committed")
    /\ UNCHANGED <<audit, answer>>

\* PendingRollbackError, after the answer.
CommitFails(t) ==
    /\ pc[t] = "commit" /\ audit[t] = "failed"
    /\ Close(t, "rolled_back")
    /\ UNCHANGED <<docs, trail, audit, answer>>

\* Variant: get_db commits whichever way the handler is left.
FailCommitting(t) ==
    /\ pc[t] \in Running /\ "crash" \in Faults
    /\ answer' = [answer EXCEPT ![t] = IF @ = None THEN "error" ELSE @]
    /\ docs' = IF write[t] = None THEN docs
               ELSE [docs EXCEPT ![write[t].doc] = Apply(write[t], @)]
    /\ Close(t, "rolled_back")
    /\ UNCHANGED <<trail, audit>>

\* A statement fails, the connection drops, or the process dies: before the
\* answer is sent the client sees an error, afterwards it keeps its "ok".
Fail(t) ==
    /\ pc[t] \in Running /\ "crash" \in Faults
    /\ answer' = [answer EXCEPT ![t] = IF @ = None THEN "error" ELSE @]
    /\ Close(t, "rolled_back")
    /\ UNCHANGED <<docs, trail, audit>>

-----------------------------------------------------------------------------
Arrive(t) ==
    \/ \E r \in Orders : ReadCheck(t, r)
    \/ \E r \in OnDocument : ReadDocument(t, r)

Step(t) ==
    \/ AddDraft(t)
    \/ UpdateRow(t)
    \/ Publish(t)
    \/ Commit(t)
    \/ CommitFails(t)

\* Every request has ended.
AllEnded == (\A t \in Txns : pc[t] \in Ends) /\ UNCHANGED vars

Next ==
    \/ \E t \in Txns : Arrive(t) \/ Step(t) \/ PublishFails(t) \/ Fail(t)
    \/ AllEnded

Spec == Init /\ [][Next]_vars

\* The event loop and the server keep executing the statements of a request.
FairSpec == Spec /\ \A t \in Txns : WF_vars(Step(t))

-----------------------------------------------------------------------------
(* Properties.                                                             *)

Recorded(d, event) == \E e \in trail : e.doc = d /\ e.event = event

\* The content request t has given to d is on record.
ContentRecorded(d, t) ==
    \E e \in trail : /\ e.doc = d /\ e.by = t
                      /\ e.event \in {"DocumentCreated", "DocumentContentUpdated"}

IsFinalized(d) == docs[d] # None /\ docs[d].status = "finalized"

TrailMatches(d) ==
    /\ docs[d] # None <=> Recorded(d, "DocumentCreated")
    /\ IsFinalized(d) <=> Recorded(d, "DocumentFinalized")
    /\ docs[d] # None /\ docs[d].author # None => ContentRecorded(d, docs[d].author)

\* The trail and the documents tell the same story at every moment, whatever
\* failed between the event and the commit: a document exists, is finalized
\* or shows a request's content exactly when, respectively only if, the trail
\* has the event.
TrailMatchesDocuments == \A d \in Docs : TrailMatches(d)

\* A request answered with an error left nothing behind, neither in a document
\* nor in the trail: it can be sent again.
RefusedLeavesNoTrace ==
    \A t \in Txns : answer[t] \notin {None, "ok"} =>
        /\ \A e \in trail : e.by # t
        /\ \A d \in Docs : docs[d] = None \/ docs[d].author # t

\* A document is finalized once and for good and never changes hands; the
\* commit of a PATCH does not reopen it, and the commit of a finalization does
\* not put back the content its request has read.
LifecycleOneWay ==
    [][\A d \in Docs : docs[d] # None =>
           /\ docs'[d] # None /\ docs'[d].owner = docs[d].owner
           /\ docs'[d].status # docs[d].status =>
                  /\ docs'[d].status = "finalized"
                  /\ docs'[d].content = docs[d].content]_vars

\* Every request ends, although the requests to one document wait for each
\* other's row lock.
EveryRequestEnds ==
    \A t \in Txns : pc[t] \in Running ~> pc[t] \in Ends

-----------------------------------------------------------------------------
(* The refinement: what readers see is an Archive.                         *)

\* The users some request to generate a document is not refused to.
Entitled == {o.user : o \in {x \in Orders : GenerateRefusal(x) = None}}

A == INSTANCE Archive WITH
       Admins <- {u \in Users : IsAdmin(u)},
       Requests <- Txns

\* However requests interleave, and whichever write, flush, commit or process
\* fails: a document changes and the entry that tells of it appears in one
\* instant, once for a request, and the user it names might do so at that
\* instant, although the guards have looked at what was read long before.
ImplementsArchive == A!Spec

-----------------------------------------------------------------------------
(* What the source says of itself, and the code does not do.               *)

\* finalize "fixes the content for the export" and update_content edits "only
\* a draft": the content of a finalized document never changes.
FinalizedContentFrozen ==
    [][\A d \in Docs : docs[d] # None /\ docs[d].status = "finalized" =>
           docs'[d].content = docs[d].content]_vars

\* "An error of the audit write does not bring down the source of the event":
\* a request whose only fault is its audit entry is not rolled back.
AuditFailureHarmless ==
    \A t \in Txns : audit[t] = "failed" => pc[t] # "rolled_back"

-----------------------------------------------------------------------------
(* The inductive invariant behind TrailMatchesDocuments,                   *)
(* RefusedLeavesNoTrace, LifecycleOneWay and ImplementsArchive.            *)

\* Two sessions never hold one row or one new identifier.
HoldsExclusive ==
    \A t, u \in Txns : t # u /\ write[t] # None /\ write[u] # None =>
        write[t].doc # write[u].doc

\* A request on a document has seen it, and rows are not deleted; whoever was
\* let through at the guards still would be.
RequestShapeOf(t) ==
    pc[t] \in Running =>
        /\ req[t] # None
        /\ pc[t] = "flush" => req[t].kind # "export"
        /\ req[t].kind = "generate" => req[t].user \in Entitled
        /\ req[t].kind # "generate" =>
               /\ req[t].doc \in Docs /\ docs[req[t].doc] # None
               /\ MayUse(req[t], docs[req[t].doc])
               /\ pc[t] = "flush" => seen[t] # None
        /\ req[t].kind = "update" => req[t].content \in Contents

RequestShape == \A t \in Txns : RequestShapeOf(t)

\* What a session has flushed, by the kind of its request.
FlushedDraft(t) ==
    /\ write[t] # None /\ write[t].sets = Columns
    /\ write[t].row = [Draft(req[t].user) EXCEPT !.author = t]
    /\ docs[write[t].doc] = None

FlushedContent(t) ==
    /\ write[t] # None /\ write[t].doc = req[t].doc
    /\ \/ write[t].sets = {}
       \/ write[t].sets = {"content", "author"} /\ write[t].row.author = t

FlushedStatus(t) ==
    /\ write[t] # None /\ write[t].doc = req[t].doc
    /\ write[t].sets = {"status"} /\ write[t].row.status = "finalized"

HasFlushed(t) == pc[t] \in {"publish", "commit"} /\ audit[t] # "failed"

WriteShapeOf(t) ==
    /\ ~HasFlushed(t) => write[t] = None
    /\ HasFlushed(t) =>
           /\ req[t].kind = "generate" => FlushedDraft(t)
           /\ req[t].kind = "update" => FlushedContent(t)
           /\ req[t].kind = "finalize" => FlushedStatus(t)
           /\ req[t].kind = "export" => write[t] = None

WriteShape == \A t \in Txns : WriteShapeOf(t)

\* Only a request that was answered "ok" and committed has left a trace.
TracesCommitted ==
    /\ \A t \in Txns : pc[t] \in {"commit", "committed"} => answer[t] = "ok"
    /\ \A t \in Txns : pc[t] \in {"idle", "flush", "publish"} =>
           answer[t] = None /\ audit[t] = "none"
    /\ \A e \in trail : e.by # None => pc[e.by] = "committed"
    /\ \A d \in Docs : docs[d] # None /\ docs[d].author # None =>
           pc[docs[d].author] = "committed"

DocInv ==
    /\ TypeOK
    /\ TrailMatchesDocuments
    /\ HoldsExclusive
    /\ RequestShape
    /\ WriteShape
    /\ TracesCommitted
=============================================================================
