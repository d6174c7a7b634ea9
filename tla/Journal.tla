------------------------------ MODULE Journal ------------------------------
(***************************************************************************)
(* The audit journal between those who write it and those who read it:     *)
(* requests that insert accounts, checks and documents and write an entry  *)
(* in the same session (app/audit/subscribers.py); scripts/create_admin.py *)
(* and scripts/purge_audit_log.py beside the application; the report of a  *)
(* check (app/audit/service.py), three statements of one READ COMMITTED    *)
(* transaction; and clients that turn the pages of a list, each page a     *)
(* request of two statements (app/core/pagination.py).                     *)
(*                                                                         *)
(* A request leaves at most one row and at most one entry, so a row and an *)
(* entry are named after the request that wrote them; created_at is the    *)
(* start of its transaction (db/base.py), and no two transactions start in *)
(* the same microsecond.                                                   *)
(***************************************************************************)
EXTENDS Naturals, FiniteSets

CONSTANTS
    Requests,       \* requests, runs of a script, clients that read a list
    Users,          \* the accounts older than the run
    Admins,         \* those of them whose role is admin
    Spellings,      \* emails as users type them
    Lower,          \* Lower[s]: the email in lower case, as it is stored
    Scenarios,      \* what each request asks for: one of these functions
    Retention,      \* --retention-days
    PerPage,        \* per_page
    MaxReportDocs,  \* _MAX_REPORT_DOCS
    None            \* the absent value

Accounts == {"register", "create_admin"}
Inserting == Accounts \cup {"create_check", "generate"}
Writing == Inserting \cup {"event"}
Kinds == Writing \cup {"report", "list", "purge"}
Lists == {"logs", "checks", "documents", "history"}
Newest == "-created_at"
Oldest == "created_at"

\* of is the check of a document or a report, the document of an event (None:
\* an event of another part of the system) and the filter of a list.
Asks == [kind : Kinds, by : Users \cup {None},
         of : Requests \cup Users \cup {None}, email : Spellings \cup {None},
         role : {"lawyer", "admin", None}, over : Lists \cup {None},
         sort : {Newest, Oldest, None}]

ASSUME JournalAssumption ==
    /\ IsFiniteSet(Requests) /\ None \notin Requests
    /\ Admins \subseteq Users
    /\ Scenarios \subseteq [Requests -> Asks]
    /\ Retention \in Nat
    /\ PerPage \in Nat \ {0}
    /\ MaxReportDocs \in Nat \ {0}

VARIABLES
    ask,       \* ask[t]: what t asks for
    pc,        \* where t stands
    clock,     \* the current time
    at,        \* at[t]: when t began, 0 before
    end,       \* end[t]: when t committed a row or an entry, 0 before
    rows,      \* the requests whose row is committed
    entries,   \* the requests whose entry is committed
    horizon,   \* the start of the latest purge that committed, 0 before
    listed,    \* listed[t]: the documents a report has read
    seen,      \* seen[t]: the rows t has read, or those its DELETE has hit
    page       \* page[t]: the page a client asks for next

vars == <<ask, pc, clock, at, end, rows, entries, horizon, listed, seen, page>>

Waiting == {"begun", "checked", "row", "entry", "listed", "read", "deleted"}
Stages == Waiting \cup {"new", "done", "refused", "failed"}

TypeOK ==
    /\ ask \in Scenarios
    /\ pc \in [Requests -> Stages]
    /\ clock \in Nat
    /\ at \in [Requests -> Nat]
    /\ end \in [Requests -> Nat]
    /\ rows \subseteq Requests
    /\ entries \subseteq Requests
    /\ horizon \in Nat
    /\ listed \in [Requests -> SUBSET Requests]
    /\ seen \in [Requests -> SUBSET Requests]
    /\ page \in [Requests -> Nat \ {0}]

Init ==
    /\ ask \in Scenarios
    /\ pc = [t \in Requests |-> "new"]
    /\ clock = 0
    /\ at = [t \in Requests |-> 0]
    /\ end = [t \in Requests |-> 0]
    /\ rows = {} /\ entries = {}
    /\ horizon = 0
    /\ listed = [t \in Requests |-> {}]
    /\ seen = [t \in Requests |-> {}]
    /\ page = [t \in Requests |-> 1]

-----------------------------------------------------------------------------
(* Helpers.                                                                *)

Kind(t) == ask[t].kind
Step(t, stage) == pc' = [pc EXCEPT ![t] = stage]
Verdict(t, ok) == Step(t, IF ok THEN "checked" ELSE "refused")

OfKind(kind) == {t \in rows : Kind(t) = kind}

\* Variant: the address is compared as it was typed.
SameTyped(t, u) ==
    Kind(t) \in Accounts /\ Kind(u) \in Accounts /\ ask[t].email = ask[u].email

\* Two requests for an account with one email: users.email is stored in lower
\* case and unique.
SameEmail(t, u) ==
    /\ Kind(t) \in Accounts /\ Kind(u) \in Accounts
    /\ Lower[ask[t].email] = Lower[ask[u].email]

MayRead(t, row) == ask[t].by \in Admins \/ ask[t].by = ask[row].by

\* get_for_user and get_summary_report: the owner of the check, or an admin.
ReadableCheck(t) ==
    ask[t].of \in OfKind("create_check") /\ MayRead(t, ask[t].of)

\* How many rows of S come before t in the order of a list.
Place(S, t, sort) ==
    Cardinality({u \in S : IF sort = Oldest THEN at[u] < at[t] ELSE at[u] > at[t]})

\* Variant: the offset is the number of the page times its size.
OffByOne(S, sort, n, size) ==
    {t \in S : n * size =< Place(S, t, sort) /\ Place(S, t, sort) < (n + 1) * size}

\* ORDER BY created_at OFFSET (n - 1) * size LIMIT size.
Page(S, sort, n, size) ==
    {t \in S : (n - 1) * size =< Place(S, t, sort) /\ Place(S, t, sort) < n * size}

DocumentsOf(check) == {d \in OfKind("generate") : ask[d].of = check}

\* Variant: only the entries that name the check.
NamesCheck(e, check, docs) ==
    \/ Kind(e) = "create_check" /\ e = check
    \/ Kind(e) = "generate" /\ ask[e].of = check

\* The condition of list_for_check: the payload of CheckCreated and of
\* DocumentCreated has the check, that of any document's event the document.
Concerns(e, check, docs) ==
    \/ Kind(e) = "create_check" /\ e = check
    \/ Kind(e) = "generate" /\ (ask[e].of = check \/ e \in docs)
    \/ Kind(e) = "event" /\ ask[e].of \in docs

-----------------------------------------------------------------------------
(* Writers.                                                                *)

\* The first statement starts the transaction and fixes its now().
Begin(t) ==
    /\ pc[t] = "new"
    /\ clock' = clock + 1
    /\ at' = [at EXCEPT ![t] = clock + 1]
    /\ Step(t, "begun")
    /\ UNCHANGED <<ask, end, rows, entries, horizon, listed, seen, page>>

Stays == UNCHANGED <<ask, clock, at, end, rows, entries, horizon, listed, seen,
                     page>>

\* register and create_admin: SELECT by email, then the refusals.
LookUpEmail(t) ==
    /\ pc[t] = "begun" /\ Kind(t) \in Accounts
    /\ Verdict(t, /\ \A u \in rows : ~SameEmail(t, u)
                  /\ Kind(t) = "register" => ask[t].role # "admin")
    /\ Stays

\* A check needs no row; the references it reads are another component's.
LookUpNothing(t) ==
    /\ pc[t] = "begun"
    /\ Kind(t) = "create_check" \/ (Kind(t) = "event" /\ ask[t].of = None)
    /\ Verdict(t, TRUE)
    /\ Stays

\* generate and the report read the check.
LookUpCheck(t) ==
    /\ pc[t] = "begun" /\ Kind(t) \in {"generate", "report"}
    /\ Verdict(t, ReadableCheck(t))
    /\ Stays

\* finalize and export read the document.
LookUpDocument(t) ==
    /\ pc[t] = "begun" /\ Kind(t) = "event" /\ ask[t].of # None
    /\ Verdict(t, ask[t].of \in OfKind("generate") /\ MayRead(t, ask[t].of))
    /\ Stays

\* INSERT INTO users: it waits for an open request that has inserted the same
\* email, and the unique index refuses it when that one has committed.
InsertAccount(t) ==
    /\ pc[t] = "checked" /\ Kind(t) \in Accounts
    /\ \A u \in Requests \ {t} : SameEmail(t, u) => pc[u] \notin {"row", "entry"}
    /\ Step(t, IF \E u \in rows : SameEmail(t, u) THEN "failed" ELSE "row")
    /\ Stays

InsertRow(t) ==
    /\ pc[t] = "checked" /\ Kind(t) \in {"create_check", "generate"}
    /\ Step(t, "row")
    /\ Stays

\* Variant: the subscriber opens a session of its own and commits it.
WriteApart(t) ==
    /\ pc[t] = IF Kind(t) = "event" THEN "checked" ELSE "row"
    /\ Kind(t) \in Writing \ {"create_admin"}
    /\ entries' = entries \cup {t}
    /\ end' = [end EXCEPT ![t] = clock]
    /\ Step(t, "entry")
    /\ UNCHANGED <<ask, clock, at, rows, horizon, listed, seen, page>>

\* The subscriber adds the entry to the session of the request.
WriteEntry(t) ==
    /\ pc[t] = IF Kind(t) = "event" THEN "checked" ELSE "row"
    /\ Kind(t) \in Writing \ {"create_admin"}
    /\ Step(t, "entry")
    /\ Stays

\* The end of get_db, and the commit of create_admin, which writes no entry.
Commit(t) ==
    /\ pc[t] = IF Kind(t) = "create_admin" THEN "row" ELSE "entry"
    /\ rows' = rows \cup {u \in {t} : Kind(t) \in Inserting}
    /\ entries' = entries \cup {u \in {t} : Kind(t) # "create_admin"}
    /\ end' = [end EXCEPT ![t] = clock]
    /\ Step(t, "done")
    /\ UNCHANGED <<ask, clock, at, horizon, listed, seen, page>>

\* A failure of any statement, a lost connection, a client that gives up.
Fail(t) == pc[t] \in Waiting /\ Step(t, "failed") /\ Stays

-----------------------------------------------------------------------------
(* The report of a check.                                                  *)

ReadDocuments(t) ==
    /\ pc[t] = "checked" /\ Kind(t) = "report"
    /\ listed' = [listed EXCEPT ![t] =
                      Page(DocumentsOf(ask[t].of), Newest, 1, MaxReportDocs)]
    /\ Step(t, "listed")
    /\ UNCHANGED <<ask, clock, at, end, rows, entries, horizon, seen, page>>

ReadEntries(t) ==
    /\ pc[t] = "listed"
    /\ seen' = [seen EXCEPT ![t] =
                    {e \in entries : Concerns(e, ask[t].of, listed[t])}]
    /\ Step(t, "done")
    /\ UNCHANGED <<ask, clock, at, end, rows, entries, horizon, listed, page>>

-----------------------------------------------------------------------------
(* Lists.                                                                  *)

\* The rows a list selects: /audit/logs by user_id, /checks and /documents
\* those of the user unless an admin asks, /documents by check_id as well.
Selected(t) ==
    LET filter == ask[t].of
        Mine(r) == MayRead(t, r) IN
    CASE ask[t].over = "logs" ->
             {e \in entries : filter = None \/ ask[e].by = filter}
      [] ask[t].over = "checks" -> {c \in OfKind("create_check") : Mine(c)}
      [] ask[t].over = "documents" ->
             {d \in OfKind("generate") :
                  Mine(d) /\ (filter = None \/ ask[d].of = filter)}
      [] OTHER -> DocumentsOf(filter)

\* /audit/logs is for admins, /checks/{id}/documents for who may read the check.
OpenList(t) ==
    /\ pc[t] = "begun" /\ Kind(t) = "list"
    /\ Verdict(t, /\ ask[t].over = "logs" => ask[t].by \in Admins
                  /\ ask[t].over = "history" => ReadableCheck(t))
    /\ Stays

ReadPage(t) ==
    /\ pc[t] = "checked" /\ Kind(t) = "list"
    /\ seen' = [seen EXCEPT ![t] =
                    @ \cup Page(Selected(t), ask[t].sort, page[t], PerPage)]
    /\ Step(t, "read")
    /\ UNCHANGED <<ask, clock, at, end, rows, entries, horizon, listed, page>>

\* The total of the answer is a second statement; the client goes on while
\* page * per_page < total.
CountRows(t) ==
    /\ pc[t] = "read"
    /\ IF page[t] * PerPage < Cardinality(Selected(t))
         THEN page' = [page EXCEPT ![t] = @ + 1] /\ Step(t, "checked")
         ELSE page' = page /\ Step(t, "done")
    /\ UNCHANGED <<ask, clock, at, end, rows, entries, horizon, listed, seen>>

-----------------------------------------------------------------------------
(* Retention.                                                              *)

\* created_at < now - retention_days.
Expired(e, now) == at[e] + Retention < now

DeleteOld(t) ==
    /\ pc[t] = "begun" /\ Kind(t) = "purge"
    /\ seen' = [seen EXCEPT ![t] = {e \in entries : Expired(e, at[t])}]
    /\ Step(t, "deleted")
    /\ UNCHANGED <<ask, clock, at, end, rows, entries, horizon, listed, page>>

CommitPurge(t) ==
    /\ pc[t] = "deleted"
    /\ entries' = entries \ seen[t]
    /\ horizon' = IF at[t] > horizon THEN at[t] ELSE horizon
    /\ Step(t, "done")
    /\ UNCHANGED <<ask, clock, at, end, rows, listed, seen, page>>

-----------------------------------------------------------------------------
AllEnded == \A t \in Requests : pc[t] \in {"done", "refused", "failed"}

\* Nothing is left to do.
Rest == AllEnded /\ UNCHANGED vars

Writer(t) ==
    \/ LookUpEmail(t) \/ LookUpNothing(t) \/ LookUpCheck(t) \/ LookUpDocument(t)
    \/ InsertAccount(t) \/ InsertRow(t) \/ WriteEntry(t) \/ Commit(t)

Reader(t) ==
    \/ ReadDocuments(t) \/ ReadEntries(t)
    \/ OpenList(t) \/ ReadPage(t) \/ CountRows(t)

Next ==
    \/ \E t \in Requests : \/ Begin(t) \/ Fail(t) \/ Writer(t) \/ Reader(t)
                           \/ DeleteOld(t) \/ CommitPurge(t)
    \/ Rest

Spec == Init /\ [][Next]_vars

-----------------------------------------------------------------------------
(* Properties.                                                             *)

\* e was committed before t began.
Before(e, t) == end[e] # 0 /\ end[e] < at[t]

\* Times only grow: nothing commits before it begins, or after now.
StampsInOrder ==
    /\ \A t \in Requests : at[t] =< clock /\ end[t] =< clock
    /\ \A t \in Requests : at[t] = 0 <=> pc[t] = "new"
    /\ \A t \in Requests : end[t] # 0 => pc[t] = "done" /\ at[t] =< end[t]
    /\ \A t, u \in Requests : at[t] = at[u] => at[t] = 0 \/ t = u
    /\ horizon =< clock

\* Which requests stand where; a list starts on its first page.
StageFits ==
    \A t \in Requests :
        /\ pc[t] \in {"new", "begun"} => page[t] = 1
        /\ pc[t] = "row" => Kind(t) \in Inserting
        /\ pc[t] = "entry" => Kind(t) \in Writing \ {"create_admin"}
        /\ pc[t] = "listed" => Kind(t) = "report"
        /\ pc[t] = "read" => Kind(t) = "list"
        /\ pc[t] = "deleted" => Kind(t) = "purge"

\* What is committed comes from requests that have ended.
OnlyCommitted ==
    /\ \A t \in rows : Kind(t) \in Inserting /\ pc[t] = "done" /\ end[t] # 0
    /\ \A t \in entries :
           Kind(t) \in Writing \ {"create_admin"} /\ pc[t] = "done" /\ end[t] # 0
    /\ \A t \in Requests : pc[t] = "done" /\ Kind(t) \in Inserting => t \in rows

\* An account per email, however it was typed and whoever created it.
OneAccountPerEmail ==
    \A t, u \in {r \in Requests : r \in rows \/ pc[r] \in {"row", "entry"}} :
        /\ Kind(t) \in Accounts /\ Kind(u) \in Accounts
        /\ Lower[ask[t].email] = Lower[ask[u].email]
        => t = u

\* Every row an endpoint has inserted is told of, until its entry expires.
RowsAreTold ==
    \A t \in Requests :
        /\ pc[t] = "done" /\ Kind(t) \in Writing \ {"create_admin"}
        /\ ~Expired(t, horizon)
        => t \in entries

\* What a document, or an event of one, belongs to was committed before it.
SubjectsCommitted ==
    \A t \in Requests : pc[t] \in {"checked", "row", "entry", "done"} =>
        /\ Kind(t) = "generate"
           => /\ ask[t].of \in OfKind("create_check")
              /\ (end[t] # 0 => end[ask[t].of] =< end[t])
        /\ Kind(t) = "event" /\ ask[t].of # None
           => /\ ask[t].of \in OfKind("generate")
              /\ (end[t] # 0 => end[ask[t].of] =< end[t])

\* What e tells is about check: its creation, a document's, or an event of one.
About(e, check) ==
    \/ e = check
    \/ e \in DocumentsOf(check)
    \/ Kind(e) = "event" /\ ask[e].of \in DocumentsOf(check)

\* A DELETE that has not committed holds only entries that have expired.
PurgeKnows ==
    \A t \in Requests : pc[t] = "deleted" =>
        \A e \in seen[t] : pc[e] = "done" /\ Expired(e, at[t])

\* The limit on the documents of a report is not reached.
Fits(check) == Cardinality(DocumentsOf(check)) =< MaxReportDocs

\* What a report has read so far.
ReportKnows ==
    \A t \in Requests :
        LET check == ask[t].of IN
        /\ Kind(t) = "report" /\ pc[t] \in {"checked", "listed", "done"}
           => check \in OfKind("create_check")
        /\ Kind(t) = "report" /\ pc[t] \in {"listed", "done"}
           => /\ listed[t] \subseteq DocumentsOf(check)
              /\ (Fits(check) => \A d \in DocumentsOf(check) :
                                    Before(d, t) => d \in listed[t])
        /\ Kind(t) = "report" /\ pc[t] = "done"
           => /\ (Fits(check) => \A e \in entries :
                     About(e, check) /\ Before(e, t) => e \in seen[t])
              /\ \A r \in {check} \cup listed[t] :
                    ~Expired(r, horizon) => r \in seen[t]
              /\ \A e \in seen[t] : About(e, check)

\* The rows a client is owed: those there before it began, except entries that
\* have expired and, from the oldest on, entries while a purge removes some.
Owed(r, t) ==
    /\ Before(r, t)
    /\ ask[t].over = "logs" => /\ ~Expired(r, horizon)
                               /\ (ask[t].sort = Oldest => horizon = 0)

\* A row that is owed and was not on the pages read is still ahead.
WalkKnows ==
    \A t \in Requests :
        Kind(t) = "list" /\ pc[t] \in {"checked", "read", "done"}
        => \A r \in Selected(t) : Owed(r, t) =>
             \/ r \in seen[t]
             \/ /\ pc[t] = "checked"
                /\ (page[t] - 1) * PerPage =< Place(Selected(t), r, ask[t].sort)
             \/ /\ pc[t] = "read"
                /\ page[t] * PerPage =< Place(Selected(t), r, ask[t].sort)

\* The journal and the tables agree, whatever fails, races or is purged:
\* accounts are unique, a row is told of until its entry expires, an entry has
\* its row and comes after what it tells of; and what each reader and purge
\* holds is as the three statements below need it (auth/service.py,
\* audit/subscribers.py, scripts/purge_audit_log.py).
JournalInv ==
    /\ TypeOK /\ StampsInOrder /\ StageFits /\ OnlyCommitted
    /\ OneAccountPerEmail /\ RowsAreTold /\ SubjectsCommitted
    /\ PurgeKnows /\ ReportKnows /\ WalkKnows

\* The documents a report lists and the entries it tells come from different
\* instants, and yet nothing committed before the report began is missing,
\* unless it expired, nor is the creation of anything the report lists, and
\* nothing is told of another check (audit/service.py get_summary_report).
ReportTellsAll ==
    \A t \in Requests :
        LET check == ask[t].of IN
        Kind(t) = "report" /\ pc[t] = "done"
        => /\ (Fits(check) =>
                 /\ \A d \in DocumentsOf(check) : Before(d, t) => d \in listed[t]
                 /\ \A e \in entries : About(e, check) /\ Before(e, t) => e \in seen[t])
           /\ \A r \in {check} \cup listed[t] : r \in seen[t] \/ Expired(r, horizon)
           /\ \A e \in seen[t] \cup listed[t] : About(e, check)

\* A client that turns the pages of a list to the end has seen every row that
\* was there before it began, whatever is inserted in between and whatever the
\* purge removes, except that a journal read from its oldest entry may lose
\* entries to a purge (audit/repository.py, core/pagination.py).
WalkMissesNothing ==
    \A t \in Requests :
        Kind(t) = "list" /\ pc[t] = "done"
        => \A r \in Selected(t) : Owed(r, t) => r \in seen[t]

LeavesOf == [t \in Requests |->
    {part \in {"row", "entry"} :
        Kind(t) \in IF part = "row" THEN Inserting ELSE Writing \ {"create_admin"}}]

\* The journal as its module promises it: row and entry in one instant, and
\* nothing removed before it expires (audit/subscribers.py, lines 3-7).
L == INSTANCE Ledger WITH leaves <- LeavesOf, now <- clock,
                          happened <- {t \in Requests : end[t] # 0}
ImplementsLedger == L!Spec
=============================================================================
