# A verification project for sppr_orm

`sppr_orm` is a backend (FastAPI, async SQLAlchemy over PostgreSQL, Redis) that helps lawyers
and investigators to judge whether an operational-search measure was lawful: users log in, fill
in or upload the materials of a measure, get a check of it against fourteen criteria, and
generate, edit, finalize and export documents; administrators keep a versioned base of normative
documents; an audit journal records what happened.

This directory holds TLA+ modules translated from the Python sources, TLC configurations that
check them on small instances, and TLAPS proofs for every value of the constants.
`PROJECT.json` maps every definition to the source lines it stands for.

Paths below are relative to the repository.

## 1. The system

### 1.1 What every request has in common

A request gets one database session from `app/db/session.py` (`get_db`). It commits when the
handler returns normally and rolls back when an exception leaves it. With the FastAPI version of
`uv.lock`, the code after the `yield` of a dependency runs after the answer has been sent: **the
commit follows the answer**. The engine sets no isolation level, so PostgreSQL runs at READ
COMMITTED: each statement sees what was committed when it started, and an `UPDATE` waits for the
sessions that hold its rows. SQLAlchemy flushes only the columns whose value differs from the one
the session has read. A flush that fails rolls the whole transaction back and leaves the session
unusable until `rollback()`.

A handler runs without interruption between two `await`s; at each `await` (a statement, a Redis
call, a commit) other requests run.

### 1.2 Components

| Component | State | Operations | Talks to |
|---|---|---|---|
| Knowledge base (`app/knowledge_base`) | `normative_documents`: rows (code, version, is_current, content), unique (code, version) | create, update (a new version), history, search | event bus |
| Seed script (`scripts/seed_knowledge_base.py`) | none | creates the codes that do not exist, one commit | knowledge base repository |
| Generated documents (`app/documents`) | `generated_documents`: owner, status draft/finalized, content | generate, update_content, finalize, export, lists | checks, event bus |
| Unit of work (`app/db/session.py`, `app/core/request_context.py`) | a session per request, found again through a context variable | commit, rollback | every component |
| Event bus (`app/core/events.py`) | handlers by event type | subscribe, publish (swallows what a handler raises) | publishers, audit |
| Audit (`app/audit`) | `audit_log_entries`, append only | write (in the request's session, or in one of its own outside a request), list, report, purge after 365 days | event bus, documents, checks |
| Sessions (`app/auth`) | Redis `session:<id>` with a TTL; `users` | register, login, logout, session lookup with a sliding (1800 s) and a hard (43200 s) limit | Redis, event bus, CSRF |
| CSRF (`app/core/csrf.py`) | a token in a cookie | issue, compare with the header | session cookie |
| Rate limiter (`app/core/rate_limit.py`) | Redis counter per address and scope, with a TTL | INCR, then EXPIRE on the first | Redis |
| Checks (`app/checks`) | `checks`: answers and verdict, written once | create (evaluates the rules), get, list | rules, event bus |
| Rules (`app/checks/rules`) | none, pure | fourteen criteria, aggregation into a verdict | |
| Case materials (`app/case_materials`) | a file on disk and a `case_material_uploads` row with a draft of answers | upload, get, confirm (creates a check) | extraction, checks, event bus |
| Extraction (`extraction.py`, `fields/`) | none, pure | segmentation by headers, pages by offset, fields by regular expression | |
| Migrations, configuration, messages, pagination, templates | none at run time | | |

### 1.3 What is hard, and what makes each component correct

The full list, each entry at its line, is `hazards` in `PROJECT.json`. In short:

* **Knowledge base.** `create_new_version` is three statements: `SELECT max(version)`, `UPDATE
  ... SET is_current = false`, `INSERT`. The `UPDATE` does not see rows committed after it
  started, and no constraint forbids two current rows; `get_current_by_code` raises on two. It is
  correct if, of the versions of a code, exactly the highest is current; if versions have no gap
  and are never rewritten; if a partial `PUT` does not mix two versions; and if every writer ends
  although writers wait for each other's rows and keys (the seed script holds several codes).
* **Documents, unit of work, event bus, audit.** The status of a document is tested on a row read
  earlier. The audit entry is written in the session of the request it reports, through a bus
  that swallows exceptions. It is correct if the trail and the documents agree whatever fails, if
  a request answered with an error left nothing, and if the life cycle goes one way.
* **Sessions.** A GET and an EXPIRE of one key are two calls; logout deletes in between. A
  session must not come back after its deletion and not outlive its hard limit. Redis is not part
  of the transaction.
* **Rate limiter.** INCR and EXPIRE are two calls: a failure between them leaves a counter
  without expiry.
* **Case materials, checks.** A file that does not roll back, a row, and results flushed only by
  the audit entry's flush inside the bus. It is correct if every upload readers see has its file
  and everything read in it, if the journal tells of what there is, if a check comes of an upload
  that was read and that its author may see, and if a draft nobody has looked at never speaks for
  the measure.
* **Rules.** Pure functions of answers that come in many forms and may be absent: more evidence
  must never hurt, in whichever form it comes, and no count may slip past its limit (it does,
  finding 5).
* **Extraction.** Pure functions on text; several documents of a file answer the same question.
* **Journal.** Rows and entries are written by requests, by two scripts and while others read: a
  report takes three statements, a list as many requests as it has pages, and the retention script
  deletes in between. It is correct if an email has one account, if a row and the entry that tells
  of it appear together and the entry stays until it expires, and if neither a report nor a reader
  of pages misses what was there before.
* **From the norms to a file.** A check takes a snapshot of the norms it cites, a document is
  written from the check, a file from the document, and the norms change all the while. It is
  correct if a check cites the norms of one moment and finds them all once the base is seeded, if a
  file argues what its check found, and if it hides nothing its content says.

## 2. The plan

| # | Module | Stands for | State |
|---|---|---|---|
| 1 | `KnowledgeBase`, refined to `VersionedStore` | the versioned base, its endpoints and the seed script | modelled, checked, proved |
| 2 | `Documents`, refined to `Archive` | documents, unit of work, event bus, audit entry | modelled, checked, proved |
| 3 | `Sessions` | login, logout, the lookup of every request with both limits, the session cookie, the journal entries, refused logins included | modelled, checked, proved |
| 4 | `RateLimit` | the two-call counter, failures between the calls | modelled, checked, proved |
| 5 | `Criteria`, `Evidence` | the readers of answers and the fourteen rules; what answers tell for and against a measure | modelled, checked with `CaseMaterials`, proved |
| 6 | `CaseMaterials`, refined to `Register` | upload, confirmation and `POST /checks`, with the rules of `Criteria` and the merge of suggested answers | modelled, checked, proved |
| 7 | `Journal`, refined to `Ledger` | accounts, the writers of entries, the report of a check, the pages of the lists sorted by time, retention | modelled, checked, proved |
| 8 | `Casework` | norms, the snapshot of a check, templates, edits, exports | modelled, checked, proved |
| 9 | `Pages` | `page_for_offset` over the pages of a file, against the offsets of the joined text | open: the page is only shown, and no property depends on it |
| 10 | the CSRF cookie in `Sessions` | its `Max-Age` beside that of the session cookie | open |

Four abstract specifications say what readers are promised: `VersionedStore` (a publication is
one step), `Archive`, `Ledger` and `Register` (what happened and the entry that tells of it appear
in one step; in `Archive` in the name of a user who may, in `Register` with the file and all that
was read in it). The detailed modules implement
them, checked and proved. Of what the runs check, every invariant and every action property is a
theorem now; what remains open is in rows 9 and 10.

## 3. Modules

### 3.1 `KnowledgeBase`

A member of `Txns` is a database session with the one request it serves, or one run of the seed
script. `pc[t]` is the next statement, or how the session ended.

| Action | Code |
|---|---|
| `Receive`, `StartSeed` | `router.py` POST and PUT; the script's loop head |
| `Refuse`, `SkipExisting`, `PrepareNew`, `PrepareUpdate` | `get_current_by_code` and what the caller does with its result (409, 404, skip, merge) |
| `SelectMax` | `SELECT max(version)` |
| `UpdateStart`, `LockRow`, `UpdateEnd` | the `UPDATE`: row set fixed when it starts, one lock after the other |
| `Insert`, `InsertDuplicate` | the flush of the new row, and the unique key |
| `Commit`, `Fail`, `DeadlockVictim` | `get_db`, any failure, PostgreSQL's deadlock detector |

Uncommitted effects are kept per session: `locks` (rows set to `is_current = false`) and `mine`
(inserted rows). `Commit` publishes both. Row locks, keys held by an uncommitted `INSERT` and
deadlock detection are PostgreSQL's and are marked external. A row carries history variables:
which fields the body set (`set`) and which version the others came from (`base`).

`VersionedStore` is the abstract specification: per code an append-only history and one shown
content, and atomic publications. `Store` in `KnowledgeBase` is its instance under the refinement
mapping that forgets sessions, locks and flags.

### 3.2 `Documents`

A member of `Txns` is one request. Its first statement and the guards after it are one action
(`ReadCheck`, `ReadDocument`), since nobody else can tell the arrival of a request from its first
statement. Then come the flush (`AddDraft`, `UpdateRow`), the event with its audit entry
(`Publish`, `PublishFails`), and the commit (`Commit`, `CommitFails`). `Fail` is any failure or
the death of the process. `answer[t]` is what the client got; it is set by `Publish` (the last
`await` of the handler) or by a refusal, and therefore before the commit.

`write[t]` is what the session has flushed: the columns an `INSERT` or `UPDATE` sets. It stands
for the row lock too. `author` in a row is a history variable: the request that gave the content.

`PublishFails` is what happens when the flush of the audit entry fails inside the bus, which
swallows the exception. The session has rolled its transaction back. A `PATCH` or finalization
then reads an attribute of its expired document, which raises, and answers 500. A new document
has been detached from the session and an export already holds its bytes, so these two answer
success and their commit fails afterwards.

`Archive` is what readers of documents and of the journal are promised: a document changes in the
instant in which its entry appears, a request does so once at most, the user the entry names may do
so in that instant (a draft needs a check they have access to, an edit the owner), and nothing
changes but the content and, once, the status. It does not promise what the code does not keep:
that a finalized document keeps its content (finding 1), that one request alone finalizes a document,
or that an edit which gives back what its request has read is written at all. `A` in `Documents` is
its instance with the tables as they are, and without requests and sessions; `ImplementsArchive` is the refinement.

Left out: the content of templates and files (`Casework` has it), titles, timestamps, the reading
endpoints.

### 3.3 `RateLimit`

One Redis counter (one address, one scope); counters of different keys share nothing. `Incr` is
the `INCR` and what the request decides from its reply, `Expire` the second call of the request
that has read 1, `Fail` its failure or the death of the process before it. `Tick` is the passing
of time in Redis. `count` is 0 and `ttl` is 0 when there is no key. `passed` and `lost` are
history variables: the requests let through in each of the last ticks, and whether an `EXPIRE`
was ever lost. The choice of the address (`client_ip`) is left out.

### 3.4 `Sessions`

A member of `Txns` is a slot in which requests run one after the other, each a sequence of single
calls to Redis and the database:

| Action | Code |
|---|---|
| `Login`, `CreateSession` | `authenticate`; the `SET` of `create_session` |
| `Use`, `Drop`, `LoadUser`, `Refresh` | `get_current_user`: cookie and `GET`, `DEL` after the hard limit, the user, `EXPIRE` |
| `Logout`, `Reread`, `Delete`, `DeleteAgain` | `destroy_session`, from `logout` or for a deactivated user: `GET`, `DEL` with and without a payload found |
| `Record`, `RecordFails` | the event and its entry, flushed in the request's session; the answer or the exception after it |
| `RollBack`, `Commit`, `Fail` | `get_db`, and any failure |
| `Tick`, `Deactivate` | time; an administrator who clears `is_active` in the database |

`store` is Redis, `trail` the committed journal, `jar` the session cookie of each browser, `out`
what a session has flushed and not committed. Time is kept as what is left of it, so that the
model needs no clock and no bound on one. `age` and the field `void` of a request are history
variables: how old a session is, and whether a request arrived in vain. A cookie is set when the
answer leaves, or not at all when the answer is lost. A browser drops a cookie whose `Max-Age` is
over; a client in `Lenient` (a script, a mobile application) goes on to send it.

Left out: requests that change nothing (no cookie, no key), the CSRF comparison, broken
payloads, which nothing writes, the role in the payload, which nothing reads, and registration,
which is in `Journal`.

### 3.5 `Criteria` and `Evidence`

`Criteria` has no state: `BoolOf`, `IntOf` and `StrOf` are `get_bool`, `get_int` and `get_str` of
`base.py` on JSON values (null, boolean, integer, number with a point, text), `Criterion01` to `Criterion14`
the rules, `Evaluate` the loop of `registry.py`. A text is a word of a small set; what the readers
do to it (`strip`, `lower`) is in the choice of words. Comments, titles and recommendations follow
from the verdict and are left out, and so are arrays and objects as answers.

`Evidence` is what the rules are judged by, and no model of code. It says which field of a criterion
tells for the measure, which against it (`For`, `Against`, `Counts`, `Texts`), and what an answer
says, without the readers of `base.py`: a value states a number (`num`) in whatever form, 7.0 and
"7 months" as well as 7, and it says yes or no where that is clear (`SaysYes`, `SaysNo`; nothing is
said of a 2 as an answer to a yes-or-no question). Two properties of the checks that
`CaseMaterials` stores rest on it. `EvidenceNeverHurts` compares the verdicts of any two checks: the
yes and no of every form, the texts, and counts as far as both are integers or numerals.
`LimitsEnforced` asks of counts in every form that the limits of criteria 7 and 8 hold, and is
violated (finding 5).

### 3.6 `CaseMaterials`

A member of `Txns` is one request.

| Action | Code |
|---|---|
| `Upload` | the guards of `upload` and `_save_file`: the file is on the disk from here on |
| `Confirm` | `_require_owned`, the test of the status, and the answers the user sends: the draft or others |
| `Check` | `POST /checks` |
| `Insert` | the flush of `repository.add`; for a check, `evaluate_criteria` before it |
| `Publish`, `PublishFails` | the extraction, the event, and the flush of the entry, which carries the results of the extraction along |
| `Commit`, `CommitFails`, `Fail` | `get_db`, and any failure |

`disk` does not roll back; `uploads`, `checks` and `trail` are the committed tables; `row[t]` is
what a session has flushed. A file is a record of what the program finds in it: its type and size,
whether text can be read, and the known documents in their order, each with what its extractor
looks for. `Suggested` is the three extractors, `Merge` one turn of `_merge_answers`, `Draft` its
loop, a recursive function over the documents of the file. The extractors look for parts of words, which `NamesPremises` and `Mentions` keep: an order
for non-residential premises suggests residential ones, and "not acquainted" suggests a consent.
Identifiers and file names come from `uuid4`, hence are fresh.

`Register` is what readers are promised: an upload appears in one instant with its file, what was
read in it and its entry; a check with the verdicts on its answers, which are the user's own or the
draft of an upload they may see and that was read; nothing registered ever changes. `R` in
`CaseMaterials` is its instance under the mapping that puts the file on the disk in the place of
its name and forgets requests, sessions and files without a row. `ImplementsRegister` is the
refinement.

Left out: the texts themselves, page numbers, the fields only shown to the user, the SHA-256,
which nothing reads, the snapshot of legal references (`Casework` has it), and the reading
endpoints.

### 3.7 `Journal` and `Ledger`

A member of `Requests` is a request, a run of a script, or a client that turns the pages of a list
to the end, each page a request of its own. What it asks for is fixed at the start (`ask`). It
leaves at most one row and one entry, so both are named after it.

| Action | Code |
|---|---|
| `Begin` | the first statement: it fixes `now()`, hence `created_at` of all the request writes |
| `LookUpEmail`, `LookUpNothing`, `LookUpCheck`, `LookUpDocument` | the `SELECT` of each handler, and its refusals |
| `InsertAccount`, `InsertRow` | the flush of the row; the unique index on `users.email` waits and refuses |
| `WriteEntry` | the subscriber, in the session of the request |
| `Commit`, `Fail` | `get_db` and `create_admin`; any failure |
| `ReadDocuments`, `ReadEntries` | the second and third statement of the report of a check |
| `OpenList`, `ReadPage`, `CountRows` | the guard of a list, the page, the total that decides whether the client goes on |
| `DeleteOld`, `CommitPurge` | `scripts/purge_audit_log.py` |

`Ledger` is what the module `audit/subscribers.py` promises: row and entry in one instant, entries
never changed, only expired ones removed. `ImplementsLedger` is the refinement.

`at`, `end`, `horizon` and `seen` are history variables as far as no action reads them: when a
request began and committed, when the latest purge that committed began, what a reader has been
shown. `created_at` is exact and no two transactions begin in the same microsecond; with equal
times the order of two rows is the database's choice, statement by statement, and a walk may miss
one of them.

Left out: the lists of case materials and of the knowledge base, sorting by anything but time, the filters by type and date, one entry by its identifier,
and the file of a report. The roles in entries and the payloads keep what `list_for_check` reads.

### 3.8 `Casework`

`Casework` follows one case through the components, each as the others see it: of the knowledge
base the commits that publish (`Seed`, `Edit`), as `VersionedStore` has them; of `POST /checks` the
request (`Receive`), the one `SELECT` of `get_by_codes_map` (`LookUp`) and the commit (`Store`,
`Abandon`); of documents the whole requests (`Generate`, `Update`, `Finalize`, `Export`), since
`Documents` has their interleavings. The verdicts are those of `Criteria`.

`moments` is every state the knowledge base has shown, which lets a property speak of the moment a
check cites; `since` is the moment its request came. A text is a set of lines, a list a set of
items, an item a record of sets of phrases; a phrase says what it tells: a number, the comment on a
verdict, a norm by its title or by its bare code, a blank. `Render` is `build_context` and the
template of a type, `Printout` the two exporters: what `_format_item` leaves out, and `html.escape`
before reportlab parses a text as markup. A title stands for the whole version: title, summary and
URL come from one row. A `POST` needs a title, a `PUT` may blank it, and then a document prints
the code.

Left out: who may send a request (`Documents` and `Journal` have it), the rulings of the
Constitutional Court, which no rule cites and of which one item stands for four, wording, order and
labels, objects nested deeper than one level.

### 3.9 Instances, proofs and variants

Modules that begin with `MC` are instances for TLC; those that end in `Proofs` hold the proofs of
the component they are named after. Definitions commented *Variant* in the component modules
are plausible mistakes in the code (a dropped guard, a swapped order, a missing reset). No
action uses them; they are there to show that each property notices the mistake it is for.

## 4. What the runs check

| Run | Instance | What it shows |
|---|---|---|
| `kb` | two codes, two fields, two sessions: seed script, POST, PUT with every partial body; 0 to 2 versions before the run, at most 4 | exactly the highest version is current; unset fields of a PUT come from one ancestor; history is never rewritten; the refinement to `VersionedStore`; every request ends, deadlocks included; the inductive invariant `KBInv` (no gap in the versions, types, locks, where each text descends from) holds |
| `docs_lifecycle` | one identifier for documents, a lawyer and an administrator, three requests of all four kinds, audit failures and crashes | the refinement to `Archive`; errors leave nothing; one-way life cycle; every request ends; the inductive invariant holds |
| `docs_frozen` | a draft, two requests | finding 1 |
| `docs_audit_failure` | audit failures | finding 2 |
| `rate_window` | one counter, three requests at a time, a limit of 2, a window of 3 ticks, counter up to 5, failures | at most twice the limit in any interval as long as a window; a window is never extended; it ends unless its `EXPIRE` is lost |
| `sessions` | one client, one user, one session, two requests at a time, a hard limit of 3 ticks and a sliding one of 2, failed entries, crashes, lost answers | an ended session never comes back; nobody is let through after the hard limit or a deactivation; a recorded logout is real; every session ends; the inductive invariant holds |
| `sessions_cookie` | one session, one request at a time, no faults | finding 3 |
| `sessions_refused` | the same | finding 4 |
| `materials` | a lawyer and an administrator, three requests, seven files (one for each refusal and outcome of the extraction, and files of up to four documents), two sets of answers of a user's own, audit failures and crashes | uploads are complete; the refinement to `Register`; only failed uploads leave files; checks come of uploads that were read; an unread draft does not speak for the measure; the last document decides; better answers have no worse verdict; the inductive invariant holds |
| `materials_limits` | one user, two requests, seven months or extensions as an integer, with a point, with a unit | finding 5 |
| `journal` | four requests, in some twenty scenarios: three accounts with one email typed in two ways and a purge; a check, its documents, an event and the report; each list read while rows are inserted and purged; pages of one row | rows and entries agree whatever races, fails or is purged; a report and a walk miss nothing they owe; the refinement to `Ledger` |
| `casework` | one check, one document of each type, two cases (nothing answered, a single remark), the seed script and edits of two norms, one with a blank title; a content of every form written by hand; up to 4 states of the knowledge base and one file | a check cites one moment; after the seed every norm is found; files argue their check; files hide nothing; the inductive invariant holds |

Why the bounds are enough for the interesting cases: two sessions are what every race on a row or
a key named in the hazards needs, and two codes are what a deadlock between a seed script and a
writer needs; a third writer adds nothing to the argument of the proofs, which hold for any
number. `MaxVersion` of 4 leaves each writer a publication above two existing versions; the bound
is a guard of `SelectMax`, no part of the code, and never the reason why a run stops. One document identifier makes
every request of a run meet on the same row; requests on different documents share nothing but
the append-only trail. Two contents suffice since the properties ask only whether a content
changed and whose it is. `docs_lifecycle` starts with and without a document, so that the run has
room for generation and for three requests on an existing draft.

In `RateLimit` a limit of 2 and a counter up to 5 let requests be refused in a window, and a
window of 3 ticks lets two windows meet inside an interval of that length; a third request counts
up while one waits to call `EXPIRE`.

In `Sessions` two requests on one session are what every race between its `GET` and a later call
needs. A sliding limit of 2 ticks can be extended to a hard limit of 3, and a session reaches each
limit before the other. The client
of the passing runs is lenient: it can do whatever a browser can, and only through it does a
session ever reach its hard limit, since a browser's cookie is gone long before (finding 3). The
client of `sessions_cookie` is a browser.

In `CaseMaterials` three requests let two
uploads meet and one of them be confirmed; files with several documents that answer the same
question in both orders are among the files. Requests, names and identifiers are interchangeable,
which the run uses as a symmetry; it checks no liveness. The answers of the users and the drafts
meet in criteria 1, 6, 9 and 13 and come as booleans, as words and not at all; that is enough to
notice a rule whose conditions are in the wrong order or a reader that takes "net" for a yes. All
other answers to the fourteen criteria are left to the proof, which has no bound.

In `Journal` each scenario puts together the four requests that can disturb one another: two
writers and a purge beside a reader, or three requests for one email. A page of one row makes every
insertion move a row across the border of two pages; a retention of one tick lets entries expire
while others are read. In `Casework` checks and documents do not interact with each other, so one
of each suffices; `MaxMoments` of 4 leaves a publication before the look-up, between look-up and
generation, and between generation and export, and `MaxFiles` of 1 loses nothing since a file
depends on its document only. The two bounds are guards of `Publish` and `Export`; when both are
reached and the case is done the run stops, which is why it does not check for deadlock.

**Fairness.** In the first two modules `FairSpec` assumes weak fairness of each session's `Step`: the event loop keeps
running ready coroutines and the server keeps executing statements. Arrivals, failed audit
entries and failures carry no fairness. Weak fairness is enough for lock waits because a run has finitely many sessions,
each of which takes a lock once and ends. Deadlock detection (`deadlock_timeout`) is a step of
PostgreSQL that always happens, hence part of `Step`. In `RateLimit` time passes (`Tick`) and a
request that does not fail reaches its second call (`Expire`); arrivals and failures carry no
fairness. In `Sessions` only time is fair (`Tick`): a session ends whatever requests do.

## 5. Findings

1. *A finalized document changes* (`docs_frozen`). `update_content` tests the status it has read
   and flushes by primary key; a finalization committed in between is not seen.
2. *A failed audit entry takes its request with it* (`docs_audit_failure`), although
   `app/audit/subscribers.py` and `docs/architecture.md` say that it does not.
3. *The cookie does not slide* (`sessions_cookie`). Each request extends the session in Redis, but
   only login sets the cookie, with a `Max-Age` of 30 minutes: a browser in constant use is logged
   out half an hour after login.
4. *Failed logins are never recorded* (`sessions_refused`). `LoginFailed` is flushed in the session
   of the request that the following exception rolls back.
5. *A number with a point passes the limits* (`materials_limits`). `get_int` makes 0 of 7.0 and of
   texts such as "7 months". Recordings kept for seven months without a criminal case then pass
   criterion 8, and extensions without new materials criterion 7; `criterion_08.py:21-22` and
   `tests/test_checks_rules.py:188-189` say that the integer 7 is a violation.

Behaviours the models have and the documentation does not, which no run of their own shows:

* *POST of an existing code.* Between `get_current_by_code` and `SELECT max(version)` another writer
  may commit; the POST then answers 201 and supersedes, where `docs/api.md:173` promises 409. The
  seed script has the same window.
* *A lost `EXPIRE` locks an address out.* Only the request that has read 1 sets the expiry; when
  that call fails, nobody sets it again. `WindowEnds` excepts this case by name (`lost`).
* *The journal read from its oldest entry.* When a purge commits between two pages, the client may
  miss entries that have not expired (`Owed` in `Journal` excepts them).
* A session is in Redis before the login's transaction commits; two concurrent confirmations of an
  upload make two checks; a repeated upload makes two rows.

Divergences that concern a single line: `export` also accepts drafts (`tests/test_documents_api.py` relies on
it), although its docstring and `docs/architecture.md` speak of finalized content only; `create_admin` calls any account
with the email an administrator that already exists; `--retention-days` takes less than the year
the documentation requires; the
parts of words the extractors look for; the unused SHA-256 of a file, and its size, which is
compared after the whole file has been read.

## 6. What is proved

All theorems hold for any finite or infinite sets of users, codes, documents, sessions and
values, under the named assumptions of the modules (`KBAssumption`, `DocumentsAssumption`, `RateLimitAssumption`,
`SessionsAssumption`, `CriteriaAssumption`, `CaseMaterialsAssumption`,
`JournalAssumption`, `CaseworkAssumption`: the
constants have the types the code gives them and `None` is none of the values).

### 6.1 `KnowledgeBaseProofs`

`CurrentIsLatest` is not inductive: it says nothing of what sessions are about to publish.
`IInv` adds the argument why `create_new_version` is right although its `UPDATE` misses rows:

* `NextVersionCovered`: a writer that has computed `new_version = n` has, once its `UPDATE` is
  over, locked every version below `n`;
* `InsertsCovered`: an inserted row has a free key and its session holds every older version, so
  a writer that missed a version has computed a number that is already taken, and the unique key
  stops it;
* `LocksExclusive`, `LocksCommitted`, `SessionShape`: locks belong to one session, lie on
  committed rows, and a session's variables are set by the point where it stands.

`UnsetFieldsFromOneAncestor` is about committed rows, and a `PUT` decides long before it commits
which version its unset fields come from. `KBInv` adds to `IInv` where the texts under way descend
from (any earlier version: a `PUT` overtaken by other publications keeps the one it has read as
current, and no document of the repository says otherwise): what a request has prepared (`DraftDescends`) and what a session has inserted
(`InsertsDescend`) copies its unset fields from one committed version of the same code. It is kept
because committed content never changes (`ContentKept`, `DescentKept`), so that whatever overtakes
the request leaves its ancestor as it was.

From `InductiveInvariant` follow `TypeCorrect`, `CurrentVersionCorrect`, `HistoryWithoutGaps`, `UpdatesNeverMix`,
the action property `HistoryNeverRewritten`, and `KnowledgeBaseImplementsStore`: the initial
states map to initial states of the store, a commit to a publication or a stutter, every other
step to a stutter.

### 6.2 `DocumentsProofs`

`DocInv` strengthens `TrailMatchesDocuments` by `HoldsExclusive` (no two sessions hold a row or a
new identifier), `RequestShape` (a request on a document has seen a row, rows are not deleted, and
whoever was let through at the guards still would be), `WriteShape` (what a session has flushed, by
the kind of its request: a finalization sets the status and nothing else, a PATCH never the status)
and `TracesCommitted` (only a request that answered "ok" and committed is named by an entry or a
row). `CommitEffect` states what a commit does to documents and trail; every other action leaves
both alone and is covered by `QuietStep`. From `DocumentsInvariant` follow `DocumentsTypes`,
`TrailCorrect`, `RefusalsTraceless` and the action property `LifecycleCorrect`.

`DocumentsImplementArchive` maps a commit, by the kind of its request, to `Create`, `Rewrite`,
`Finalize` or `Export` (`CommitArchives`, `CommitEnters`) and every other step to a stutter. The
permission that `Archive` asks for at the commit is the one the guards looked at when the request
read its document: it still holds because an owner never changes. That the entry is the request's
first is `TracesCommitted`.

### 6.3 `RateLimitProofs`

`WindowNotExtended` needs to know that whoever calls `EXPIRE` finds a key without expiry.
`OneStartsTheWindow` says so, and that it is alone in this; it holds for any limit, window and
number of requests.

`AtMostTwiceTheLimit` sums what passed in each of the last ticks, and no bound on the sum is kept by
the passing of time alone. `TwoWindows` says where the border lies: there is an `s` such that what
passed in the last `s` ticks belongs to the window that runs (so it is at most its counter, and the
limit), and what passed before it, inside the last `Window` ticks, belongs to the window before and
is at most the limit too. A request that is let through adds one on the near side of `s` and to the
counter; a tick shifts the border by one; when the key expires, a new window begins at 1, and since
a key never expires before it is `Window` ticks old (`ttl > 0 => Window - ttl < s`), nothing of a
third one is left. A late `EXPIRE` makes a window longer, never shorter. `RateInv`, the
conjunction, is the inductive invariant; it implies what the run checks, which is why it is not
listed there. The sums are a recursive function, and the lemmas about them (`SumSteps`, `SumShift`, `SumBump`,
`SumGrows`) are proved by induction as in 6.9. The theorems are
`RateLimitInvariant`, `TwiceTheLimit` and `WindowIsFixed`.

### 6.4 `SessionsProofs`

`SessionInv` says of Redis that a key agrees with the age of its session (`KeyAged`), of each
request what it knows of its session where it stands (`RequestShape`), that what it reports as
logged out has ended (`ReportsTrue`) and that a request in vain gets no further than its user
(`StoppedInTime`), and of the journal that it is true (`JournalTrue`). `Evolves` is the heart of
the argument: no step brings an ended session back, since `EXPIRE` does nothing to a missing key
and `SET` takes a fresh one, so what a request has learnt of an ended session stays true while
others run. From `SessionsInvariant` follow `EndedForGood`, `LimitsHold` and `JournalCorrect`.

### 6.5 `EvidenceProofs`

The readers of `base.py` take what clearly says yes or no for that, and a plain number for itself
(`Reading`, `ReadingText`); so answers that are at least as good are read as at least as good
(`ForRead`, `AgainstRead`, `CountRead`, `TextRead`). Each of the fourteen rules is monotone in what
it reads: `VerdictMonotone`, for any JSON values but arrays and objects. Of counts with a point or
a unit it says only that the same value gets the same verdict.

### 6.6 `CaseMaterialsProofs`

`MaterialsInv` adds to the properties of the tables what each request holds by how far it has come
(`RequestSound`), that its file and its identifier are nobody else's (`FileOwn`, `IdOwn`), that what
it confirms could be confirmed and still can be (`SourceRead`), that it judges answers the user gave
or the draft it confirms (`AnswersGiven`), that a check holds the verdicts on its own answers
(`ChecksJudged`) and that no refused file is on the disk (`DiskAccepted`). Every step but the
commit leaves the tables alone and is covered by `UncommittedKeeps`; `CommitKeeps` is the commit.
From `MaterialsInvariant` follow `MaterialsTypes`, `UploadsAreComplete`, `JournalIsRight` and
`ConfirmationsAreRight`; so far what a text yields stays closed: these hold for any extractors.

`FilesAreAccountedFor` compares two cardinalities. A step adds to `Orphans` at most the one file of
the request that ends, and then it adds that request to `Failures` (`LostFile`); every other step
leaves both sets as they are or removes a file from the first. Both are finite in every state,
however many requests there are.

`TheLastDocumentDecides` and `DraftsExonerateNobody` open the extractors. `DraftReads` says, by
induction over the documents of a file, what a draft holds after each of them: for every field the
answer of the last document that gives one. The first theorem is this fact at the end of the file.
For the second, `DraftLittle` says which fields a draft can hold at all, and `SilentVerdict` and
`UnansweredVerdicts` what the rules make of an answer without them: criterion 1 stays a
violation, 6 and 13 pass without any answer, so that no draft does better, and the others do not see
the draft.

`EvidenceTheorem` is `VerdictMonotone` on two rows of `checks`: `ChecksJudged` says that their
verdicts are those on their own answers, and `AnswersJson` that these are JSON values, those a
user sends by assumption and those of a draft because the extractors suggest nothing else
(`SuggestedJson`, `LastSaidJson`).

`MaterialsImplementRegister` maps the initial state to the initial state of `Register`, the commit
of an upload to `AddUpload` (`UploadRegisters`), the commit of a check to `AddCheck`
(`CheckRegisters`, which needs `SourceRead`, `AnswersGiven` and `UploadsComplete`), and every other
step, the failures included, to a stutter (`QuietRegister`: the files of rows stay).

### 6.7 `JournalProofs`

`JournalInv` adds to what it promises what the two readers need to hold half-way. `ReportKnows`:
the documents a report has read include every one committed before it began, and since an entry is
committed with its row and after what it tells of (`SubjectsCommitted`, `OnlyCommitted`), the
entries read later miss nothing. `WalkKnows`: a row that is owed and not yet seen is at or behind
the place where the next page begins. Insertions push rows back in a list with the newest first
and do not move them in one with the oldest first; deletions pull rows forward only when what is
deleted lies before them, and with the newest first it never lies before a row that stays
(`AheadStays`, `OwedStays`, counting with `PlaceBelow`). `LedgerStep` maps a commit to `Happen`, a
purge to `Forget`, and every other step to a stutter or the passing of time. The theorems are
`JournalAgrees`, `ReportsComplete`, `WalksComplete` and `JournalImplementsLedger`, for any finite
set of requests, any scenarios and any page size.

### 6.8 `CaseworkProofs`

`CaseworkInv` keeps, for a request that has looked its norms up, the moment they are from, and for
an untouched document the role and the form it was rendered with. `SeededResolve` needs one fact
about the sources: every code a rule cites is among those the seed script writes (`CitedAreSeeded`).
`FilesTellAll` needs that the two exporters show the same phrases (`FormatsAgree`: escaping undoes
what reportlab does) and that what `_format_item` leaves out says nothing (`ItemPrinted`,
`ItemSaid`). `FilesArgue` follows the argument of a petition, a checklist and a plan from the
stored results to the lines of the file (`PetitionArgues`, `ChecklistArgues`, `PlanArgues`).

### 6.9 Induction, and what is only model-checked

The induction theorems of the library take an operator as a parameter, which the installed provers
cannot instantiate. Where a proof needs induction over a number (the ticks of a window, the
documents of a file), it is stated over sets: `LeastNatural` says that a set of numbers that is not
empty has a least element (from the well-foundedness of inclusion on finite sets), and
`InductionUpTo` that a set which holds 0 and, with each number below `N`, the next, holds all up to
`N`. Recursive functions are shown to exist first (`SumExists`, `MergeExists`).

Only model-checked are `EveryRequestAnswered`, `EveryRequestEnds`, `WindowEnds` and
`EverySessionEnds`: liveness under fairness is out of the prover's reach.

## 7. Not modelled

* Full-text search, and the reading endpoints that return one row: they change no state, and what
  they return is the state other modules speak of.
* Configuration, messages, start-up wiring and migrations: tables and order of start-up.
* The CSRF comparison, which keeps no state; page numbers of extracted fields, which are only shown.
  Regular expressions are abstracted to what they find.
* The audit writer's own session outside a request: every publisher runs inside one.
* The wording, fonts and layout of documents and files.
* The body of a `PUT` with an explicit null, which the flush refuses: in the model it is one of
  the failures `Fail` stands for.
