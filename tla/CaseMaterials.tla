--------------------------- MODULE CaseMaterials ---------------------------
(***************************************************************************)
(* Case files uploaded, read and turned into checks (app/case_materials,   *)
(* CheckService.create of app/checks), by concurrent requests.             *)
(*                                                                         *)
(* A member of Txns is one request.  The file goes to the disk, which does *)
(* not roll back; the row, the results of the extraction and the audit     *)
(* entry go to the request's session, which get_db commits after the       *)
(* answer.  The text is abstracted to what the extractors find in it; the  *)
(* reading endpoints change nothing and are left out, and so are the legal *)
(* references a check copies, which no rule reads.                         *)
(***************************************************************************)
EXTENDS Evidence, Sequences, SequencesExt

CONSTANTS
    Users,      \* the users that send requests
    Role,       \* Role[u]: users.role
    Files,      \* files that are sent
    Payloads,   \* answers a user may give instead of a draft
    Names,      \* the names uuid4 may give a stored file
    Ids,        \* the identifiers uuid4 may give a row
    Txns,       \* requests
    Faults      \* the faults a run admits

-----------------------------------------------------------------------------
(* Reading a file.                                                         *)

\* What is found in one document: approval of a resolution, the quoted type of
\* measure, what an order says of the premises and of the person it was shown.
CaseDocuments == [kind : {"resolution", "inspection_order", "search_protocol", "other"},
                  approved : BOOLEAN,
                  orm_type : Words \cup {None},
                  premises : {"residential", "non_residential", "unnamed"},
                  shown : {"acquainted", "not_acquainted", "unmarked"}]

\* upload: content type, size, nothing at all, in this order.
Refusal(f) == IF f.type = "other" THEN "unsupported_format"
              ELSE IF f.size = "too_large" THEN "file_too_large"
              ELSE IF f.size = "empty" THEN "unsupported_format"
              ELSE None

\* The words for residential and for non-residential premises both hold the
\* stem the extractor looks for, as "acquainted" is part of "not acquainted".
NamesPremises(d) == d.premises # "unnamed"
Mentions(d) == d.shown # "unmarked"

One(field, value) == [f \in {field} |-> value]

\* Variant: an approved resolution is taken for the signs of a crime as well.
SuggestedWithSigns(d) ==
    [c \in (IF d.kind = "resolution" /\ d.approved THEN {1} ELSE {}) |->
       [f \in {"has_instruction", "has_crime_signs"} |-> Flag(TRUE)]]

\* FIELD_EXTRACTORS: the answers one document suggests, by criterion.
Suggested(d) ==
    CASE d.kind = "resolution" ->
           [c \in (IF d.approved THEN {1} ELSE {})
                  \cup (IF d.orm_type # None THEN {13} ELSE {}) |->
              IF c = 1 THEN One("has_instruction", Flag(TRUE))
              ELSE One("orm_type", Text(d.orm_type))]
      [] d.kind = "inspection_order" ->
           [c \in {6} |->
              [f \in {"premises_type", "residents_consent"} |->
                 IF f = "residents_consent" THEN Flag(Mentions(d))
                 ELSE Text(IF NamesPremises(d) THEN Residential
                           ELSE "nezhiloe")]]
      [] d.kind = "search_protocol" ->
           [c \in {13} |-> One("orm_type", Text("dosmotr"))]
      [] OTHER -> [c \in {} |-> Unanswered]

\* dict.update.
Updated(old, new) ==
    [k \in DOMAIN old \cup DOMAIN new |-> IF k \in DOMAIN new THEN new[k] ELSE old[k]]

\* Variant: an answer that is there already is kept.
MergeKeeping(merged, d) ==
    LET new == Suggested(d)
    IN  [c \in DOMAIN merged \cup DOMAIN new |->
           Updated(AnswersTo(c, new), AnswersTo(c, merged))]

\* merged.setdefault(criterion, {}).update(fields).
Merge(merged, d) ==
    LET new == Suggested(d)
    IN  [c \in DOMAIN merged \cup DOMAIN new |->
           Updated(AnswersTo(c, merged), AnswersTo(c, new))]

NoAnswers == [c \in {} |-> Unanswered]

\* _merge_answers over the documents in the order of the file.
Draft(f) ==
    LET merged[n \in 0 .. Len(f.documents)] ==
          IF n = 0 THEN NoAnswers ELSE Merge(merged[n - 1], f.documents[n])
    IN  merged[Len(f.documents)]

\* The status and the draft an extraction leaves; a draft without answers is
\* stored as null, which the confirmation screen shows as no answers.
Extracted(f) ==
    CASE f.text = "unreadable" -> [status |-> "failed", draft |-> NoAnswers]
      [] f.text = "sparse" ->
           [status |-> "text_extraction_failed", draft |-> NoAnswers]
      [] OTHER -> [status |-> "extracted", draft |-> Draft(f)]

-----------------------------------------------------------------------------
(* The state.                                                              *)

\* Rows of case_material_uploads, the same with the file in the place of its
\* name, and rows of checks.  from is the upload whose draft was confirmed, None
\* for a check entered by hand.
Settled == {"extracted", "text_extraction_failed", "failed"}
Drafts == {NoAnswers} \cup {Extracted(f).draft : f \in Files}
Registrations == [owner : Users, file : Files, status : Settled, draft : Drafts]
Uploads == [owner : Users, name : Names, status : Settled \cup {"processing"},
            draft : Drafts]
Answers == Drafts \cup Payloads
Checks == [owner : Users, from : Ids \cup {None}, answers : Answers,
           results : {Evaluate(r, a) : r \in {Role[u] : u \in Users}, a \in Answers}]

\* What a request carries on: the file it has stored, or the answers it judges.
UploadRequests == [kind : {"upload"}, user : Users, name : Names]
CheckRequests == [kind : {"check"}, user : Users, from : Ids \cup {None}, answers : Answers]

Entries == [event : {"CaseMaterialUploaded", "CheckCreated"}, id : Ids, user : Users]

Running == {"insert", "publish", "commit"}
Ends == {"committed", "rolled_back"}
Refusals == {"unsupported_format", "file_too_large", "not_found", "not_ready"}

ASSUME CaseMaterialsAssumption ==
    /\ Role \in [Users -> DOMAIN PriorityByRole]
    /\ Faults \subseteq {"audit", "crash"}
    /\ "nezhiloe" \in Words
    /\ \A f \in Files : f.documents \in Seq(CaseDocuments)
    /\ \A a \in Payloads : \A c \in Numbers : AreJson(c, AnswersTo(c, a))
    /\ None \notin Files \cup Names \cup Ids \cup Uploads \cup Checks \cup Registrations
    /\ None \notin UploadRequests \cup CheckRequests \cup Refusals \cup {"ok", "error"}

VARIABLES
    disk,      \* disk[n]: the file stored under the name n, or None
    uploads,   \* uploads[i]: the committed row of case_material_uploads, or None
    checks,    \* checks[i]: the committed row of checks and its results, or None
    trail,     \* the committed audit_log_entries
    pc,        \* where each request stands
    req,       \* the request it serves once nothing refuses it, or None
    id,        \* the identifier of the row it has flushed, or None
    row,       \* that row, or None
    audit,     \* what became of its audit entry
    answer     \* the answer the client got

vars == <<disk, uploads, checks, trail, pc, req, id, row, audit, answer>>

Init ==
    /\ disk = [n \in Names |-> None]
    /\ uploads = [i \in Ids |-> None]
    /\ checks = [i \in Ids |-> None]
    /\ trail = {}
    /\ pc = [t \in Txns |-> "idle"]
    /\ req = [t \in Txns |-> None]
    /\ id = [t \in Txns |-> None]
    /\ row = [t \in Txns |-> None]
    /\ audit = [t \in Txns |-> "none"]
    /\ answer = [t \in Txns |-> None]

db == <<uploads, checks, trail>>

TypeOK ==
    /\ disk \in [Names -> Files \cup {None}]
    /\ uploads \in [Ids -> Uploads \cup {None}]
    /\ checks \in [Ids -> Checks \cup {None}]
    /\ trail \subseteq Entries
    /\ pc \in [Txns -> {"idle"} \cup Running \cup Ends]
    /\ req \in [Txns -> UploadRequests \cup CheckRequests \cup {None}]
    /\ id \in [Txns -> Ids \cup {None}]
    /\ row \in [Txns -> Uploads \cup Checks \cup {None}]
    /\ audit \in [Txns -> {"none", "added", "failed"}]
    /\ answer \in [Txns -> {None, "ok", "error"} \cup Refusals]

-----------------------------------------------------------------------------
(* Helpers.                                                                *)

Uploading(t) == req[t].kind = "upload"

\* The name under which some session holds, or the database has, a row.
IdTaken(i) == uploads[i] # None \/ checks[i] # None \/ \E t \in Txns : id[t] = i

Goto(t, where) == pc' = [pc EXCEPT ![t] = where]

\* The session closes.
Close(t, end) ==
    /\ Goto(t, end)
    /\ req' = [req EXCEPT ![t] = None]
    /\ id' = [id EXCEPT ![t] = None]
    /\ row' = [row EXCEPT ![t] = None]

\* An exception leaves the handler: get_db rolls back.
Raise(t, outcome) ==
    /\ answer' = [answer EXCEPT ![t] = outcome]
    /\ Close(t, "rolled_back")
    /\ UNCHANGED audit

Accept(t, r) ==
    /\ req' = [req EXCEPT ![t] = r]
    /\ Goto(t, "insert")
    /\ UNCHANGED <<id, row, audit, answer>>

-----------------------------------------------------------------------------
(* Requests arrive.                                                        *)

\* Variant: the file is stored before its size is looked at.
UploadStoringFirst(t, u, f) ==
    /\ pc[t] = "idle"
    /\ \E n \in Names :
       /\ disk[n] = None
       /\ disk' = [disk EXCEPT ![n] = f]
       /\ IF Refusal(f) # None THEN Raise(t, Refusal(f))
          ELSE Accept(t, [kind |-> "upload", user |-> u, name |-> n])
    /\ UNCHANGED db

\* Variant: the file is stored under a name that may be taken.
UploadOverwriting(t, u, f) ==
    /\ pc[t] = "idle"
    /\ IF Refusal(f) # None THEN Raise(t, Refusal(f)) /\ UNCHANGED disk
       ELSE \E n \in Names :
            /\ disk' = [disk EXCEPT ![n] = f]
            /\ Accept(t, [kind |-> "upload", user |-> u, name |-> n])
    /\ UNCHANGED db

\* POST /case-materials: the guards and _save_file.
Upload(t, u, f) ==
    /\ pc[t] = "idle"
    /\ IF Refusal(f) # None THEN Raise(t, Refusal(f)) /\ UNCHANGED disk
       ELSE \E n \in Names :
            /\ disk[n] = None
            /\ disk' = [disk EXCEPT ![n] = f]
            /\ Accept(t, [kind |-> "upload", user |-> u, name |-> n])
    /\ UNCHANGED db

\* _require_owned.
MayUse(u, upload) == upload.owner = u \/ Role[u] = "admin"

\* Variant: the status is not looked at.
ConfirmRefusalOwner(u, i) ==
    IF uploads[i] = None THEN "not_found"
    ELSE IF ~MayUse(u, uploads[i]) THEN "not_found"
    ELSE None

ConfirmRefusal(u, i) ==
    IF uploads[i] = None THEN "not_found"
    ELSE IF ~MayUse(u, uploads[i]) THEN "not_found"
    ELSE IF uploads[i].status # "extracted" THEN "not_ready"
    ELSE None

\* POST /case-materials/{i}/confirm with the draft as it is or with answers of
\* the user's own.
Confirm(t, u, i) ==
    /\ pc[t] = "idle"
    /\ IF ConfirmRefusal(u, i) # None THEN Raise(t, ConfirmRefusal(u, i))
       ELSE \E a \in Payloads \cup {uploads[i].draft} :
            Accept(t, [kind |-> "check", user |-> u, from |-> i, answers |-> a])
    /\ UNCHANGED <<disk, db>>

\* POST /checks.
Check(t, u, a) ==
    /\ pc[t] = "idle"
    /\ Accept(t, [kind |-> "check", user |-> u, from |-> None, answers |-> a])
    /\ UNCHANGED <<disk, db>>

-----------------------------------------------------------------------------
(* The statements of a request.                                            *)

\* The INSERT of an upload, before the text is extracted.
NewUpload(r) == [owner |-> r.user, name |-> r.name, status |-> "processing",
                 draft |-> NoAnswers]

\* CheckService.create: evaluate_criteria, then the INSERT of the check and of
\* its results.
NewCheck(r) == [owner |-> r.user, from |-> r.from, answers |-> r.answers,
                results |-> Evaluate(Role[r.user], r.answers)]

Insert(t) ==
    /\ pc[t] = "insert"
    /\ \E i \in Ids :
       /\ ~IdTaken(i)
       /\ id' = [id EXCEPT ![t] = i]
       /\ row' = [row EXCEPT ![t] = IF Uploading(t) THEN NewUpload(req[t])
                                    ELSE NewCheck(req[t])]
    /\ Goto(t, "publish")
    /\ UNCHANGED <<disk, db, req, audit, answer>>

\* Variant: the entry is flushed, the results of the extraction are not.
FlushedUnread(t) == row[t]

\* What the flush of the audit entry writes along: the results of the
\* extraction, set on the object since its INSERT.
Flushed(t) ==
    IF Uploading(t)
    THEN LET x == Extracted(disk[req[t].name])
         IN  [row[t] EXCEPT !.status = x.status, !.draft = x.draft]
    ELSE row[t]

\* The extraction, the event with its audit entry, and the answer.
Publish(t) ==
    /\ pc[t] = "publish"
    /\ row' = [row EXCEPT ![t] = Flushed(t)]
    /\ audit' = [audit EXCEPT ![t] = "added"]
    /\ answer' = [answer EXCEPT ![t] = "ok"]
    /\ Goto(t, "commit")
    /\ UNCHANGED <<disk, db, req, id>>

\* That flush fails.  The bus swallows the exception and the transaction is
\* rolled back; the new object is detached with its attributes, and the client
\* is answered 201.
PublishFails(t) ==
    /\ pc[t] = "publish" /\ "audit" \in Faults
    /\ id' = [id EXCEPT ![t] = None]
    /\ row' = [row EXCEPT ![t] = None]
    /\ audit' = [audit EXCEPT ![t] = "failed"]
    /\ answer' = [answer EXCEPT ![t] = "ok"]
    /\ Goto(t, "commit")
    /\ UNCHANGED <<disk, db, req>>

EntryOf(t) == [event |-> IF Uploading(t) THEN "CaseMaterialUploaded" ELSE "CheckCreated",
               id |-> id[t], user |-> req[t].user]

Commit(t) ==
    /\ pc[t] = "commit" /\ audit[t] = "added"
    /\ IF Uploading(t)
       THEN uploads' = [uploads EXCEPT ![id[t]] = row[t]] /\ UNCHANGED checks
       ELSE checks' = [checks EXCEPT ![id[t]] = row[t]] /\ UNCHANGED uploads
    /\ trail' = trail \cup {EntryOf(t)}
    /\ Close(t, "committed")
    /\ UNCHANGED <<disk, audit, answer>>

\* PendingRollbackError, after the answer.
CommitFails(t) ==
    /\ pc[t] = "commit" /\ audit[t] = "failed"
    /\ Close(t, "rolled_back")
    /\ UNCHANGED <<disk, db, audit, answer>>

\* Variant: what was flushed is committed when the handler fails.
FailCommitting(t) ==
    /\ pc[t] \in Running /\ "crash" \in Faults
    /\ answer' = [answer EXCEPT ![t] = IF @ = None THEN "error" ELSE @]
    /\ uploads' = IF Uploading(t) /\ id[t] # None
                  THEN [uploads EXCEPT ![id[t]] = row[t]] ELSE uploads
    /\ Close(t, "rolled_back")
    /\ UNCHANGED <<disk, checks, trail, audit>>

\* A statement fails, the connection drops or the process dies. The file stays.
Fail(t) ==
    /\ pc[t] \in Running /\ "crash" \in Faults
    /\ answer' = [answer EXCEPT ![t] = IF @ = None THEN "error" ELSE @]
    /\ Close(t, "rolled_back")
    /\ UNCHANGED <<disk, db, audit>>

Arrive(t) == \E u \in Users :
    \/ \E f \in Files : Upload(t, u, f)
    \/ \E i \in Ids : Confirm(t, u, i)
    \/ \E a \in Payloads : Check(t, u, a)

Step(t) == Insert(t) \/ Publish(t) \/ PublishFails(t) \/ Commit(t) \/ CommitFails(t)
           \/ Fail(t)

\* Every request has ended.
AllEnded == (\A t \in Txns : pc[t] \in Ends) /\ UNCHANGED vars

Next == (\E t \in Txns : Arrive(t) \/ Step(t)) \/ AllEnded

Spec == Init /\ [][Next]_vars

-----------------------------------------------------------------------------
(* Properties.                                                             *)

\* The row of an upload tells of a file that is on the disk and of no other
\* row's, and of all that was read in it: no reader ever sees one "processing".
RowComplete(i) ==
    LET u == uploads[i]
        f == disk[u.name]
    IN  /\ f # None
        /\ u.status = Extracted(f).status /\ u.draft = Extracted(f).draft
        /\ \A j \in Ids \ {i} : uploads[j] # None => uploads[j].name # u.name

UploadsComplete == \A i \in Ids : uploads[i] # None => RowComplete(i)

Recorded(i, event) == \E e \in trail : e.id = i /\ e.event = event

\* The journal reports exactly the uploads and checks there are, whichever
\* statement of whichever request has failed.
JournalMatches ==
    \A i \in Ids : /\ uploads[i] # None <=> Recorded(i, "CaseMaterialUploaded")
                   /\ checks[i] # None <=> Recorded(i, "CheckCreated")

HasOwner(n) ==
    \/ \E i \in Ids : uploads[i] # None /\ uploads[i].name = n
    \/ \E t \in Txns : req[t] # None /\ Uploading(t) /\ req[t].name = n

\* The files no row or request will ever tell of, and the requests that failed
\* under way.
Orphans == {n \in Names : disk[n] # None /\ ~HasOwner(n)}
Failures == {t \in Txns : pc[t] = "rolled_back" /\ answer[t] \in {"ok", "error"}}

\* Each file without a row comes from an upload that failed under way; a
\* refused upload leaves none.
OnlyFailuresLeaveFiles == Cardinality(Orphans) <= Cardinality(Failures)

\* A check that came of an upload came of one that was read, and of a user who
\* may see it.
FromReadUpload(i) ==
    checks[i].from # None =>
        LET u == uploads[checks[i].from]
        IN  /\ u # None
            /\ u.status = "extracted"
            /\ MayUse(checks[i].owner, u)

ChecksFromReadUploads == \A i \in Ids : checks[i] # None => FromReadUpload(i)

\* The draft of a file, confirmed as it is, is judged in no criterion more
\* favourably than no answers at all: what the extractors find does not stand
\* in for what the user must attest.
ImportNeverExonerates ==
    \A i \in Ids :
      checks[i] # None /\ checks[i].from # None =>
        (checks[i].answers = uploads[checks[i].from].draft =>
           \A c \in Numbers :
             Severity(Verdict(c, Unanswered)) <= Severity(checks[i].results[c].status))

\* What the documents of f say in answer to field k of criterion c.
SaidBy(f, c, k) == {n \in DOMAIN f.documents :
                      k \in DOMAIN AnswersTo(c, Suggested(f.documents[n]))}

\* Of several documents that answer a question the last one does; nothing else
\* is answered.
LastDocumentDecides ==
    \A i \in Ids : uploads[i] # None /\ uploads[i].status = "extracted" =>
      LET f == disk[uploads[i].name]
      IN  \A c \in Numbers, k \in {"has_instruction", "has_crime_signs", "orm_type",
                                   "premises_type", "residents_consent"} :
            Get(AnswersTo(c, uploads[i].draft), k) =
              IF SaidBy(f, c, k) = {} THEN Null
              ELSE AnswersTo(c, Suggested(f.documents[Max(SaidBy(f, c, k))]))[k]

\* Of two stored checks, one with no worse answer to a criterion than the other
\* has no worse verdict on it, whoever sent them and however the answers came:
\* a case is never hurt by better evidence (the order of conditions in
\* criterion_01.py .. criterion_14.py, the words get_bool knows).
EvidenceNeverHurts ==
    \A i, j \in Ids : checks[i] # None /\ checks[j] # None =>
      \A c \in Numbers :
        NotWorse(c, AnswersTo(c, checks[i].answers), AnswersTo(c, checks[j].answers)) =>
          Severity(checks[j].results[c].status) <= Severity(checks[i].results[c].status)

\* A stored check reports every limit its answers pass, in whichever form the
\* number came.  Violated: get_int (base.py:36-47) makes 0 of the number 7.0 and
\* of the text "7 months", which no limit of criterion_07.py or criterion_08.py
\* is passed by.
LimitsEnforced ==
    \A i \in Ids : checks[i] # None =>
      \A c \in {7, 8} : OverLimit(c, AnswersTo(c, checks[i].answers)) =>
                          checks[i].results[c].status = Violation

-----------------------------------------------------------------------------
(* The refinement: what readers see is a Register.                         *)

Accepted == {f \in Files : Refusal(f) = None}

ReadingOf == [f \in Accepted |-> Extracted(f)]

VerdictsOn == [u \in Users |-> [a \in Answers |-> Evaluate(Role[u], a)]]

\* An upload with the file it is of, in the place of the name it has on the disk.
Registered(i) ==
    IF uploads[i] = None THEN None
    ELSE [owner |-> uploads[i].owner, file |-> disk[uploads[i].name],
          status |-> uploads[i].status, draft |-> uploads[i].draft]

R == INSTANCE Register WITH
       uploads <- [i \in Ids |-> Registered(i)],
       Admins <- {u \in Users : Role[u] = "admin"},
       Readings <- ReadingOf,
       Verdicts <- VerdictsOn

\* However requests interleave, and whichever write, flush, commit or process
\* fails, a file, the row that tells of it, what was read in it and the entry of
\* the journal appear in one instant or, to readers, never.
ImplementsRegister == R!Spec

-----------------------------------------------------------------------------
(* Why they hold.                                                          *)

\* A request under way that has stored a file.
Storing(t) == req[t] # None /\ Uploading(t)

\* What a request holds, by how far it has come.
RequestSound(t) ==
    /\ pc[t] \notin Running => req[t] = None /\ id[t] = None
    /\ pc[t] \in Running => req[t] # None
    /\ pc[t] = "insert" => id[t] = None
    /\ pc[t] = "publish" =>
           /\ id[t] # None
           /\ row[t] = IF Uploading(t) THEN NewUpload(req[t]) ELSE NewCheck(req[t])
    /\ pc[t] = "commit" /\ audit[t] = "added" =>
           /\ id[t] # None
           /\ row[t] = IF Uploading(t)
                       THEN [owner  |-> req[t].user, name |-> req[t].name,
                             status |-> Extracted(disk[req[t].name]).status,
                             draft  |-> Extracted(disk[req[t].name]).draft]
                       ELSE NewCheck(req[t])
    /\ pc[t] \in {"idle", "insert", "publish"} => answer[t] = None
    /\ pc[t] = "commit" => answer[t] = "ok"

\* Its file is on the disk, under a name nobody else has.
FileOwn(t) ==
    Storing(t) => /\ disk[req[t].name] # None
                  /\ \A i \in Ids : uploads[i] # None => uploads[i].name # req[t].name
                  /\ \A s \in Txns \ {t} : Storing(s) => req[s].name # req[t].name

\* So is the identifier of its row.
IdOwn(t) ==
    id[t] # None => /\ uploads[id[t]] = None /\ checks[id[t]] = None
                    /\ \A s \in Txns \ {t} : id[s] # id[t]

\* What it judges are answers the user gave, or the draft it confirms.
AnswersGiven(t) ==
    req[t] # None /\ ~Uploading(t) =>
        \/ req[t].answers \in Payloads
        \/ req[t].from # None /\ req[t].answers = uploads[req[t].from].draft

\* What it confirms could be confirmed when it arrived, and still can be.
SourceRead(t) ==
    req[t] # None /\ ~Uploading(t) /\ req[t].from # None =>
        /\ uploads[req[t].from] # None
        /\ uploads[req[t].from].status = "extracted"
        /\ MayUse(req[t].user, uploads[req[t].from])

\* A file that is refused is not stored.
DiskAccepted == \A n \in Names : disk[n] # None => disk[n] \in Accepted

\* A check holds the verdicts on its own answers by the role of its owner.
ChecksJudged ==
    \A i \in Ids : checks[i] # None =>
       checks[i].results = Evaluate(Role[checks[i].owner], checks[i].answers)

\* The inductive invariant of the proofs: the types, what each request under way
\* holds and owns, and the properties that rest on it.
MaterialsInv ==
    /\ TypeOK
    /\ \A t \in Txns : RequestSound(t) /\ FileOwn(t) /\ IdOwn(t) /\ SourceRead(t)
                      /\ AnswersGiven(t)
    /\ DiskAccepted
    /\ UploadsComplete
    /\ JournalMatches
    /\ ChecksFromReadUploads
    /\ ChecksJudged
=============================================================================
