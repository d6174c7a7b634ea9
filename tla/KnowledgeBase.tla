--------------------------- MODULE KnowledgeBase ---------------------------
(***************************************************************************)
(* The versioned normative documents (app/knowledge_base) written by       *)
(* concurrent requests and by the seed script, over PostgreSQL at READ     *)
(* COMMITTED, the level app/db/session.py leaves in force.                 *)
(*                                                                         *)
(* A member of Txns is one database session with the one request (or one   *)
(* run of the seed script) it serves.  Every SQL statement of the handlers *)
(* is an action of its own, since other sessions run between two of them.  *)
(* Uncommitted effects live in locks (the rows an UPDATE has touched) and  *)
(* in mine (the rows an INSERT has added); Commit publishes both.          *)
(*                                                                         *)
(* The event a writer publishes adds an audit entry to the same session,   *)
(* which Documents models; here it is one more statement that may Fail.    *)
(***************************************************************************)
EXTENDS Naturals

CONSTANTS
    Codes,         \* codes of normative documents
    Fields,        \* the columns an administrator edits
    Values,        \* the values of a column
    Txns,          \* sessions, each serving one request
    Workload,      \* the kinds of request a run admits
    Bodies,        \* the request bodies a run sends: the fields they set
    SeedCodes,     \* codes of SEED_DOCUMENTS
    SeedRank,      \* SeedRank[c]: position of c in SEED_DOCUMENTS
    SeedContent,   \* the content the seed script writes
    InitialCount,  \* bound on the versions a code has before the run starts
    MaxVersion,    \* bound on the versions of one code
    None           \* the absent value: Python's None, an absent row

Kinds == {"create", "update", "seed"}
Versions == 1 .. MaxVersion
Contents == [Fields -> Values]

\* What a request body sets: NormativeDocumentUpdate leaves any field out.
Payloads == UNION {[S -> Values] : S \in SUBSET Fields}

\* A row. set and base record which fields its writer gave and which version
\* the others were read from.
Rows == [content : Contents, current : BOOLEAN,
         set : SUBSET Fields, base : 0 .. MaxVersion]

ASSUME KBAssumption ==
    /\ MaxVersion \in Nat
    /\ Workload \subseteq Kinds
    /\ Bodies \subseteq Payloads
    /\ SeedCodes \subseteq Codes
    /\ SeedRank \in [Codes -> Nat]
    /\ SeedContent \in Contents
    /\ InitialCount \in 0 .. MaxVersion
    /\ None \notin Rows \cup Contents \cup Codes

VARIABLES
    docs,      \* docs[c][v]: the committed row (code c, version v), or None
    pc,        \* where each session stands, or how it ended
    kind,      \* the kind of its request
    payload,   \* the fields its request sets
    left,      \* codes its loop has still to visit
    code,      \* the code it works on
    base,      \* the version get_current_by_code returned, 0 for None
    draft,     \* the field values the new version will have
    newv,      \* new_version, 0 before it is computed
    pend,      \* rows its UPDATE has still to lock
    locks,     \* rows <<c, v>> it has set is_current = FALSE
    mine       \* mine[c][v]: the row it has inserted and not committed

vars == <<docs, pc, kind, payload, left, code, base, draft, newv, pend,
          locks, mine>>

Running == {"get_current", "select_max", "update", "lock_rows", "insert",
            "commit"}
Outcomes == {"done", "conflict", "not_found", "error"}

NoRows == [c \in Codes |-> [v \in Versions |-> None]]

TypeOK ==
    /\ docs \in [Codes -> [Versions -> Rows \cup {None}]]
    /\ pc \in [Txns -> {"idle"} \cup Running \cup Outcomes]
    /\ kind \in [Txns -> Kinds \cup {None}]
    /\ payload \in [Txns -> Payloads]
    /\ left \in [Txns -> SUBSET Codes]
    /\ code \in [Txns -> Codes \cup {None}]
    /\ base \in [Txns -> 0 .. MaxVersion]
    /\ draft \in [Txns -> Contents \cup {None}]
    /\ newv \in [Txns -> 0 .. MaxVersion]
    /\ pend \in [Txns -> SUBSET Versions]
    /\ locks \in [Txns -> SUBSET (Codes \X Versions)]
    /\ mine \in [Txns -> [Codes -> [Versions -> Rows \cup {None}]]]

InitialRow(v, n) == [content |-> SeedContent, current |-> v = n,
                     set |-> Fields, base |-> 0]

Init ==
    /\ \E n \in 0 .. InitialCount :
          docs = [c \in Codes |-> [v \in Versions |->
                     IF v <= n THEN InitialRow(v, n) ELSE None]]
    /\ pc = [t \in Txns |-> "idle"]
    /\ kind = [t \in Txns |-> None]
    /\ payload = [t \in Txns |-> SeedContent]
    /\ left = [t \in Txns |-> {}]
    /\ code = [t \in Txns |-> None]
    /\ base = [t \in Txns |-> 0]
    /\ draft = [t \in Txns |-> None]
    /\ newv = [t \in Txns |-> 0]
    /\ pend = [t \in Txns |-> {}]
    /\ locks = [t \in Txns |-> {}]
    /\ mine = [t \in Txns |-> NoRows]

-----------------------------------------------------------------------------
(* Helpers.                                                                *)

Committed(c) == {v \in Versions : docs[c][v] # None}
CurrentIn(rows) == {v \in Versions : rows[v] # None /\ rows[v].current}
CurrentVersions(c) == CurrentIn(docs[c])

\* m is max(version) of code c, 0 when the code has no row.
IsLatest(c, m) ==
    /\ m = 0 \/ m \in Committed(c)
    /\ \A v \in Committed(c) : v <= m

\* Variant: without exclude_unset the unset fields take their defaults.
MergeDefaults(old, p) ==
    [f \in Fields |-> IF f \in DOMAIN p THEN p[f] ELSE SeedContent[f]]

\* fields of the current version overridden by model_dump(exclude_unset=True)
Merge(old, p) == [f \in Fields |-> IF f \in DOMAIN p THEN p[f] ELSE old[f]]

\* c comes first among the codes of S in SEED_DOCUMENTS.
IsFirst(c, S) == \A d \in S : SeedRank[c] <= SeedRank[d]

LockedByOther(t, c, v) == \E u \in Txns \ {t} : <<c, v>> \in locks[u]
InsertedByOther(t, c, v) == \E u \in Txns \ {t} : mine[u][c][v] # None

\* The sessions t waits for: holders of every row it wants next, or the one
\* that has inserted the key it inserts.
Blockers(t) ==
    IF pc[t] = "lock_rows"
    THEN {u \in Txns \ {t} : \E v \in pend[t] : <<code[t], v>> \in locks[u]}
    ELSE {u \in Txns \ {t} : mine[u][code[t]][newv[t]] # None}

Blocked(t) ==
    \/ /\ pc[t] = "lock_rows" /\ pend[t] # {}
       /\ \A v \in pend[t] : LockedByOther(t, code[t], v)
    \/ /\ pc[t] = "insert" /\ docs[code[t]][newv[t]] = None
       /\ InsertedByOther(t, code[t], newv[t])

\* Variant: the rollback is forgotten and the locks stay.
ReleaseNothing(t) ==
    UNCHANGED <<left, code, base, draft, newv, pend, locks, mine>>

\* The session gives back its locks and drops its uncommitted rows.
Release(t) ==
    /\ left' = [left EXCEPT ![t] = {}]
    /\ code' = [code EXCEPT ![t] = None]
    /\ base' = [base EXCEPT ![t] = 0]
    /\ draft' = [draft EXCEPT ![t] = None]
    /\ newv' = [newv EXCEPT ![t] = 0]
    /\ pend' = [pend EXCEPT ![t] = {}]
    /\ locks' = [locks EXCEPT ![t] = {}]
    /\ mine' = [mine EXCEPT ![t] = NoRows]

\* An exception leaves get_db, or its commit fails: the session rolls back.
Rollback(t, outcome) ==
    /\ pc' = [pc EXCEPT ![t] = outcome]
    /\ Release(t)
    /\ UNCHANGED <<docs, kind, payload>>

\* The loop over codes: on to the first of S, or out of the loop.
NextCode(t, S) ==
    \/ /\ S = {}
       /\ pc' = [pc EXCEPT ![t] = "commit"]
       /\ UNCHANGED <<code, left>>
    \/ \E c \in S :
       /\ IsFirst(c, S)
       /\ pc' = [pc EXCEPT ![t] = "get_current"]
       /\ code' = [code EXCEPT ![t] = c]
       /\ left' = [left EXCEPT ![t] = S \ {c}]

-----------------------------------------------------------------------------
(* Requests arrive.                                                        *)

\* POST /documents: the body gives every field.  PUT /documents/{code}: any.
Receive(t, k, c, p) ==
    /\ pc[t] = "idle" /\ k \in Workload
    /\ k = "create" => DOMAIN p = Fields
    /\ kind' = [kind EXCEPT ![t] = k]
    /\ payload' = [payload EXCEPT ![t] = p]
    /\ NextCode(t, {c})
    /\ UNCHANGED <<docs, base, draft, newv, pend, locks, mine>>

StartSeed(t) ==
    /\ pc[t] = "idle" /\ "seed" \in Workload
    /\ kind' = [kind EXCEPT ![t] = "seed"]
    /\ payload' = [payload EXCEPT ![t] = SeedContent]
    /\ NextCode(t, SeedCodes)
    /\ UNCHANGED <<docs, base, draft, newv, pend, locks, mine>>

-----------------------------------------------------------------------------
(* SELECT ... WHERE code AND is_current, and what the caller does with it. *)

\* How the read ends the request, None when it goes on: scalar_one_or_none
\* raises on several rows; POST answers 409 on one, PUT answers 404 on none.
Refusal(t) ==
    LET found == CurrentVersions(code[t])
    IN  IF \E v, w \in found : v # w THEN "error"
        ELSE IF kind[t] = "create" /\ found # {} THEN "conflict"
        ELSE IF kind[t] = "update" /\ found = {} THEN "not_found"
        ELSE None

Refuse(t) ==
    /\ pc[t] = "get_current" /\ Refusal(t) # None
    /\ Rollback(t, Refusal(t))

\* The seed script passes over a code that has a current version.
SkipExisting(t) ==
    /\ pc[t] = "get_current" /\ Refusal(t) = None
    /\ kind[t] = "seed" /\ CurrentVersions(code[t]) # {}
    /\ NextCode(t, left[t])
    /\ UNCHANGED <<docs, kind, payload, base, draft, newv, pend, locks, mine>>

\* POST and the seed script write what they were given.
PrepareNew(t) ==
    /\ pc[t] = "get_current" /\ Refusal(t) = None
    /\ kind[t] \in {"create", "seed"} /\ CurrentVersions(code[t]) = {}
    /\ pc' = [pc EXCEPT ![t] = "select_max"]
    /\ draft' = [draft EXCEPT ![t] = payload[t]]
    /\ UNCHANGED <<docs, kind, payload, left, code, base, newv, pend, locks,
                   mine>>

\* PUT keeps from the current version what its body leaves out.
PrepareUpdate(t) ==
    /\ pc[t] = "get_current" /\ Refusal(t) = None
    /\ kind[t] = "update"
    /\ \E v \in CurrentVersions(code[t]) :
       /\ base' = [base EXCEPT ![t] = v]
       /\ draft' = [draft EXCEPT
              ![t] = Merge(docs[code[t]][v].content, payload[t])]
    /\ pc' = [pc EXCEPT ![t] = "select_max"]
    /\ UNCHANGED <<docs, kind, payload, left, code, newv, pend, locks, mine>>

-----------------------------------------------------------------------------
(* create_new_version: SELECT max(version), UPDATE, INSERT.                *)

SelectMax(t) ==
    /\ pc[t] = "select_max"
    /\ \E m \in 0 .. MaxVersion :
       /\ m < MaxVersion                  \* bound on versions
       /\ IsLatest(code[t], m)
       /\ newv' = [newv EXCEPT ![t] = m + 1]
    /\ pc' = [pc EXCEPT ![t] = "update"]
    /\ UNCHANGED <<docs, kind, payload, left, code, base, draft, pend, locks,
                   mine>>

\* The UPDATE fixes its row set when it starts: rows committed later are
\* not in it.
UpdateStart(t) ==
    /\ pc[t] = "update"
    /\ pend' = [pend EXCEPT ![t] = Committed(code[t])]
    /\ pc' = [pc EXCEPT ![t] = "lock_rows"]
    /\ UNCHANGED <<docs, kind, payload, left, code, base, draft, newv, locks,
                   mine>>

\* It sets one row after the other, waiting where another session holds one.
LockRow(t, v) ==
    /\ pc[t] = "lock_rows" /\ v \in pend[t]
    /\ ~LockedByOther(t, code[t], v)
    /\ pend' = [pend EXCEPT ![t] = @ \ {v}]
    /\ locks' = [locks EXCEPT ![t] = @ \cup {<<code[t], v>>}]
    /\ UNCHANGED <<docs, pc, kind, payload, left, code, base, draft, newv,
                   mine>>

UpdateEnd(t) ==
    /\ pc[t] = "lock_rows" /\ pend[t] = {}
    /\ pc' = [pc EXCEPT ![t] = "insert"]
    /\ UNCHANGED <<docs, kind, payload, left, code, base, draft, newv, pend,
                   locks, mine>>

NewRow(t) == [content |-> draft[t], current |-> TRUE,
              set |-> DOMAIN payload[t], base |-> base[t]]

\* Variant: the version number is read after the UPDATE, not before it.
InsertNumberedLate(t) ==
    /\ pc[t] = "insert"
    /\ \E m \in 0 .. MaxVersion - 1 :
       /\ IsLatest(code[t], m)
       /\ ~InsertedByOther(t, code[t], m + 1)
       /\ mine' = [mine EXCEPT ![t][code[t]][m + 1] = NewRow(t)]
    /\ NextCode(t, left[t])
    /\ UNCHANGED <<docs, kind, payload, base, draft, newv, pend, locks>>

\* Variant: no unique constraint on (code, version).
InsertUnconstrained(t) ==
    /\ pc[t] = "insert"
    /\ mine' = [mine EXCEPT ![t][code[t]][newv[t]] = NewRow(t)]
    /\ NextCode(t, left[t])
    /\ UNCHANGED <<docs, kind, payload, base, draft, newv, pend, locks>>

\* flush: the key is free; an uncommitted twin makes the INSERT wait.
Insert(t) ==
    /\ pc[t] = "insert"
    /\ docs[code[t]][newv[t]] = None
    /\ ~InsertedByOther(t, code[t], newv[t])
    /\ mine' = [mine EXCEPT ![t][code[t]][newv[t]] = NewRow(t)]
    /\ NextCode(t, left[t])
    /\ base' = [base EXCEPT ![t] = 0]
    /\ draft' = [draft EXCEPT ![t] = None]
    /\ newv' = [newv EXCEPT ![t] = 0]
    /\ UNCHANGED <<docs, kind, payload, pend, locks>>

\* uq_normdoc_code_version: IntegrityError, which no handler turns into 409.
InsertDuplicate(t) ==
    /\ pc[t] = "insert"
    /\ docs[code[t]][newv[t]] # None
    /\ Rollback(t, "error")

-----------------------------------------------------------------------------
(* The end of a session.                                                   *)

\* Variant: the UPDATE of the older versions is missing.
PublishedStillCurrent(t, c) ==
    [v \in Versions |-> IF mine[t][c][v] # None THEN mine[t][c][v] ELSE docs[c][v]]

\* Variant: the older versions are rewritten with the new content.
PublishedInPlace(t, c) ==
    [v \in Versions |->
        IF mine[t][c][v] # None THEN mine[t][c][v]
        ELSE IF <<c, v>> \in locks[t]
             THEN LET w == CHOOSE x \in Versions : mine[t][c][x] # None
                  IN  [mine[t][c][w] EXCEPT !.current = FALSE]
             ELSE docs[c][v]]

\* The rows of code c once the writes of t are published.
Published(t, c) ==
    [v \in Versions |->
        IF mine[t][c][v] # None THEN mine[t][c][v]
        ELSE IF <<c, v>> \in locks[t]
             THEN [docs[c][v] EXCEPT !.current = FALSE]
             ELSE docs[c][v]]

Commit(t) ==
    /\ pc[t] = "commit"
    /\ docs' = [c \in Codes |-> Published(t, c)]
    /\ pc' = [pc EXCEPT ![t] = "done"]
    /\ Release(t)
    /\ UNCHANGED <<kind, payload>>

\* PostgreSQL picks a victim among sessions that wait for each other.
DeadlockVictim(t) ==
    /\ \E D \in SUBSET Txns :
       /\ t \in D
       /\ \A u \in D : Blocked(u) /\ Blockers(u) \subseteq D
    /\ Rollback(t, "error")

\* A statement fails, the connection drops, the task is cancelled, or the
\* process dies: the server rolls the transaction back.
Fail(t) ==
    /\ pc[t] \in Running
    /\ Rollback(t, "error")

-----------------------------------------------------------------------------
Step(t) ==
    \/ Refuse(t)
    \/ SkipExisting(t)
    \/ PrepareNew(t)
    \/ PrepareUpdate(t)
    \/ SelectMax(t)
    \/ UpdateStart(t)
    \/ \E v \in Versions : LockRow(t, v)
    \/ UpdateEnd(t)
    \/ Insert(t)
    \/ InsertDuplicate(t)
    \/ Commit(t)
    \/ DeadlockVictim(t)

Arrive(t) ==
    \/ \E k \in {"create", "update"}, c \in Codes, p \in Bodies :
           Receive(t, k, c, p)
    \/ StartSeed(t)

\* Every request has been answered.
AllAnswered == (\A t \in Txns : pc[t] \in Outcomes) /\ UNCHANGED vars

Next == (\E t \in Txns : Arrive(t) \/ Step(t) \/ Fail(t)) \/ AllAnswered

Spec == Init /\ [][Next]_vars

\* The event loop and the server keep executing the statements of a session.
FairSpec == Spec /\ \A t \in Txns : WF_vars(Step(t))

-----------------------------------------------------------------------------
(* Properties.                                                             *)

\* Of the committed versions of a code exactly the highest is current, so
\* get_current_by_code finds at most one row and a code that exists can be
\* read, although no constraint of the table says so and the UPDATE of a
\* writer does not see the rows committed after it started.
CurrentIsLatest ==
    \A c \in Codes : \A v \in Committed(c) :
        docs[c][v].current <=> \A w \in Committed(c) : w <= v

\* get_history shows versions 1, 2, ..., n without a gap, whatever writers
\* failed or lost a race in between.
VersionsContiguous ==
    \A c \in Codes : \A v, w \in Versions :
        v < w /\ w \in Committed(c) => v \in Committed(c)

\* An update never rewrites or deletes a committed version, and a version
\* that has been superseded never becomes current again.
HistoryImmutable ==
    [][\A c \in Codes, v \in Versions : docs[c][v] # None =>
           /\ docs'[c][v] # None
           /\ docs'[c][v] = docs[c][v]
              \/ docs'[c][v] = [docs[c][v] EXCEPT !.current = FALSE]]_vars

\* Row r of version v of code c has what its writer did not set from one earlier
\* committed version of the code.
Descends(r, c, v) ==
    r.set # Fields =>
        /\ r.base \in Committed(c) /\ r.base < v
        /\ \A f \in Fields \ r.set : r.content[f] = docs[c][r.base].content[f]

\* What PUT leaves out of its body comes, every field of it, from one earlier
\* version of the same code: a new version never mixes two older ones.
UnsetFieldsFromOneAncestor ==
    \A c \in Codes : \A v \in Committed(c) : Descends(docs[c][v], c, v)

\* Every request that has arrived gets its answer, even when writers of the
\* same code wait for each other's rows.
EveryRequestAnswered ==
    \A t \in Txns : pc[t] \in Running ~> pc[t] \in Outcomes

\* The refinement: what readers see of the rows of a code is a VersionedStore.
ShownIn(rows) ==
    IF CurrentIn(rows) = {} THEN None
    ELSE rows[CHOOSE v \in CurrentIn(rows) : TRUE].content

ContentsIn(rows) ==
    [v \in Versions |-> IF rows[v] = None THEN None ELSE rows[v].content]

Store == INSTANCE VersionedStore WITH
    history <- [c \in Codes |-> ContentsIn(docs[c])],
    shown <- [c \in Codes |-> ShownIn(docs[c])]

\* Concurrent writers, lost races, failures and the seed script look to the
\* readers like publications taken one after the other.
ImplementsStore == Store!StoreSpec

-----------------------------------------------------------------------------
(* The inductive invariant behind CurrentIsLatest and VersionsContiguous.  *)

\* Two sessions never hold the same row.
LocksExclusive ==
    \A t, u \in Txns : t # u => locks[t] \cap locks[u] = {}

\* What a session has computed by the point where it stands.
SessionShape ==
    \A t \in Txns :
        /\ kind[t] \in {"create", "seed"} => payload[t] \in Contents
        /\ pc[t] \in Running \ {"commit"} => code[t] \in Codes
        /\ pc[t] \in {"select_max", "update", "lock_rows", "insert"} => draft[t] # None
        /\ pc[t] \in {"update", "lock_rows", "insert"} => newv[t] \in Versions
        /\ pend[t] # {} => pc[t] = "lock_rows"

\* A row to lock or locked is committed; a lock belongs to the code being
\* written or to one whose new version is already inserted.
LocksCommitted ==
    \A t \in Txns :
        /\ \A v \in pend[t] : docs[code[t]][v] # None
        /\ \A c \in Codes, v \in Versions : <<c, v>> \in locks[t] =>
              /\ docs[c][v] # None
              /\ \/ \E w \in Versions : mine[t][c][w] # None
                 \/ pc[t] \in {"lock_rows", "insert"} /\ c = code[t]

\* new_version counts on from versions that exist, and the UPDATE covers
\* every one of them.
NextVersionCovered ==
    \A t \in Txns, v \in Versions :
        pc[t] \in {"update", "lock_rows", "insert"} /\ v < newv[t] =>
              /\ docs[code[t]][v] # None
              /\ pc[t] = "lock_rows" => v \in pend[t] \/ <<code[t], v>> \in locks[t]
              /\ pc[t] = "insert" => <<code[t], v>> \in locks[t]

\* An inserted row has a free key, is current, and its session has set every
\* older version of the code.
InsertsCovered ==
    \A t \in Txns, c \in Codes, w \in Versions : mine[t][c][w] # None =>
        /\ mine[t][c][w].current
        /\ docs[c][w] = None
        /\ \A v \in Versions : v < w => docs[c][v] # None /\ <<c, v>> \in locks[t]
        /\ \A u \in Txns \ {t} : mine[u][c][w] = None

IInv ==
    /\ TypeOK
    /\ CurrentIsLatest
    /\ VersionsContiguous
    /\ SessionShape
    /\ LocksExclusive
    /\ LocksCommitted
    /\ NextVersionCovered
    /\ InsertsCovered

-----------------------------------------------------------------------------
(* What UnsetFieldsFromOneAncestor needs besides: the same of the rows that  *)
(* are not committed yet.                                                    *)

\* A partial body has been merged with a version that is still there and whose
\* content has not changed since; it lies below new_version.
DraftDescends(t) ==
    /\ pc[t] \in {"select_max", "update", "lock_rows", "insert"}
    /\ DOMAIN payload[t] # Fields
    => /\ base[t] \in Committed(code[t])
       /\ pc[t] # "select_max" => base[t] < newv[t]
       /\ \A f \in Fields \ DOMAIN payload[t] :
              draft[t][f] = docs[code[t]][base[t]].content[f]

InsertsDescend(t) ==
    \A c \in Codes, v \in Versions :
        mine[t][c][v] # None => Descends(mine[t][c][v], c, v)

\* The inductive invariant of the proofs.
KBInv ==
    /\ IInv
    /\ UnsetFieldsFromOneAncestor
    /\ \A t \in Txns : DraftDescends(t) /\ InsertsDescend(t)
=============================================================================
