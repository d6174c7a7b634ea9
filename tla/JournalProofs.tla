--------------------------- MODULE JournalProofs ----------------------------
(***************************************************************************)
(* What TLAPS proves of Journal, for any number of requests, any scenario, *)
(* any retention and any size of a page.  JournalInv is inductive: each of *)
(* its parts is kept by each of five kinds of steps (below), and the three *)
(* other properties follow from it.                                        *)
(***************************************************************************)
EXTENDS Journal, FiniteSetTheorems, TLAPS

-----------------------------------------------------------------------------
(* The steps, by what they change.                                         *)

\* A request begins.
Beginning(t) ==
    /\ pc[t] = "new" /\ clock' = clock + 1
    /\ at' = [at EXCEPT ![t] = clock + 1]
    /\ pc' = [pc EXCEPT ![t] = "begun"]
    /\ UNCHANGED <<ask, end, rows, entries, horizon, listed, seen, page>>

\* A request moves on and nothing else changes.
Moving(t, s) ==
    /\ pc[t] \in Waiting
    /\ pc' = [pc EXCEPT ![t] = s]
    /\ Stays
    /\ \/ s \in {"refused", "failed"}
       \/ s = "checked" /\ (Kind(t) \in {"generate", "report"} => ReadableCheck(t))
          /\ (Kind(t) = "event" /\ ask[t].of # None => ask[t].of \in OfKind("generate"))
          /\ pc[t] = "begun"
       \/ s = "row" /\ pc[t] = "checked" /\ Kind(t) \in Inserting
          /\ (Kind(t) \in Accounts =>
                 \A u \in Requests \ {t} : SameEmail(t, u) =>
                     pc[u] \notin {"row", "entry"} /\ u \notin rows)
       \/ s = "entry" /\ Kind(t) \in Writing \ {"create_admin"}
          /\ pc[t] = IF Kind(t) = "event" THEN "checked" ELSE "row"

\* A reader reads.
Reading(t) ==
    \/ ReadDocuments(t) \/ ReadEntries(t) \/ ReadPage(t) \/ CountRows(t)
    \/ DeleteOld(t)

\* Every step is one of the five kinds.
LEMMA Steps ==
    ASSUME JournalInv, [Next]_vars
    PROVE  \/ UNCHANGED vars
           \/ \E t \in Requests :
                 \/ Beginning(t) \/ Commit(t) \/ Reading(t) \/ CommitPurge(t)
                 \/ \E s \in Stages : Moving(t, s)
<1> SUFFICES ASSUME NEW t \in Requests,
                    Begin(t) \/ Fail(t) \/ Writer(t) \/ Reader(t)
                    \/ DeleteOld(t) \/ CommitPurge(t)
             PROVE  \/ Beginning(t) \/ Commit(t) \/ Reading(t) \/ CommitPurge(t)
                    \/ \E s \in Stages : Moving(t, s)
  BY DEF Next, Rest
<1>1. CASE Begin(t)
  BY <1>1 DEF Begin, Step, Beginning
<1>2. CASE Fail(t)
  BY <1>2 DEF Fail, Step, Moving, Stages, Waiting
<1>3. CASE LookUpEmail(t)
  BY <1>3 DEF LookUpEmail, Verdict, Step, Moving, Stages, Waiting, Accounts
<1>4. CASE LookUpNothing(t)
  BY <1>4 DEF LookUpNothing, Verdict, Step, Moving, Stages, Waiting
<1>5. CASE LookUpCheck(t)
  BY <1>5 DEF LookUpCheck, Verdict, Step, Moving, Stages, Waiting
<1>6. CASE LookUpDocument(t)
  BY <1>6 DEF LookUpDocument, Verdict, Step, Moving, Stages, Waiting
<1>7. CASE InsertAccount(t)
  BY <1>7 DEF InsertAccount, Step, Moving, Stages, Waiting, Inserting
<1>8. CASE InsertRow(t)
  BY <1>8 DEF InsertRow, Step, Moving, Stages, Waiting, Inserting, Accounts
<1>9. CASE WriteEntry(t)
  BY <1>9 DEF WriteEntry, Step, Moving, Stages, Waiting
<1>10. CASE OpenList(t)
  BY <1>10 DEF OpenList, Verdict, Step, Moving, Stages, Waiting
<1> QED
  BY <1>1, <1>2, <1>3, <1>4, <1>5, <1>6, <1>7, <1>8, <1>9, <1>10
     DEF Writer, Reader, Reading

\* What no step takes back.
Grows ==
    /\ ask' = ask
    /\ rows \subseteq rows'
    /\ clock =< clock' /\ horizon =< horizon'
    /\ \A r \in Requests : pc[r] # "new" => at'[r] = at[r]
    /\ \A r \in Requests : pc[r] = "done" => pc'[r] = "done" /\ end'[r] = end[r]

\* No step changes what is asked, and time only grows.
LEMMA Growing ==
    ASSUME JournalInv, [Next]_vars
    PROVE  Grows
<1> USE DEF JournalInv, TypeOK, Grows
<1>1. CASE UNCHANGED vars
  BY <1>1 DEF vars
<1>2. ASSUME NEW t \in Requests, Beginning(t)
      PROVE  Grows
  BY <1>2 DEF Beginning
<1>3. ASSUME NEW t \in Requests, Commit(t)
      PROVE  Grows
  BY <1>3 DEF Commit, Step
<1>4. ASSUME NEW t \in Requests, Reading(t)
      PROVE  Grows
  BY <1>4 DEF Reading, ReadDocuments, ReadEntries, ReadPage, CountRows,
     DeleteOld, Step
<1>5. ASSUME NEW t \in Requests, CommitPurge(t)
      PROVE  Grows
  BY <1>5 DEF CommitPurge, Step
<1>6. ASSUME NEW t \in Requests, NEW s \in Stages, Moving(t, s)
      PROVE  Grows
  BY <1>6 DEF Moving, Stays, Waiting
<1> QED
  <2> HIDE DEF JournalInv, Grows
  <2> QED
    BY <1>1, <1>2, <1>3, <1>4, <1>5, <1>6, Steps

-----------------------------------------------------------------------------
(* The parts of JournalInv that speak of the tables.                       *)

\* The types, at the start and after a step.
LEMMA Types == ASSUME JournalInv, [Next]_vars PROVE TypeOK'
<1> USE DEF TypeOK
<1>0. TypeOK
  BY DEF JournalInv
<1>1. CASE UNCHANGED vars
  BY <1>0, <1>1 DEF vars
<1>2. ASSUME NEW t \in Requests, Beginning(t)
      PROVE  TypeOK'
  BY <1>0, <1>2 DEF Beginning, Stages, Waiting
<1>3. ASSUME NEW t \in Requests, Commit(t)
      PROVE  TypeOK'
  BY <1>0, <1>3 DEF Commit, Step, Stages, Waiting
<1>4. ASSUME NEW t \in Requests, Reading(t)
      PROVE  TypeOK'
  <2>1. CASE ReadDocuments(t)
    BY <1>0, <2>1 DEF ReadDocuments, Page, DocumentsOf, OfKind, Step, Stages, Waiting
  <2>2. CASE ReadEntries(t)
    BY <1>0, <2>2 DEF ReadEntries, Step, Stages, Waiting
  <2>3. CASE ReadPage(t)
    <3>1. Page(Selected(t), ask[t].sort, page[t], PerPage) \subseteq Requests
      BY <1>0 DEF Page, Selected, DocumentsOf, OfKind
    <3> QED
      BY <1>0, <2>3, <3>1 DEF ReadPage, Step, Stages, Waiting
  <2>4. CASE CountRows(t)
    BY <1>0, <2>4 DEF CountRows, Step, Stages, Waiting
  <2>5. CASE DeleteOld(t)
    BY <1>0, <2>5 DEF DeleteOld, Step, Stages, Waiting
  <2> QED
    BY <1>4, <2>1, <2>2, <2>3, <2>4, <2>5 DEF Reading
<1>5. ASSUME NEW t \in Requests, CommitPurge(t)
      PROVE  TypeOK'
  BY <1>0, <1>5 DEF CommitPurge, Step, Stages, Waiting
<1>6. ASSUME NEW t \in Requests, NEW s \in Stages, Moving(t, s)
      PROVE  TypeOK'
  BY <1>0, <1>6 DEF Moving, Stays
<1> HIDE DEF TypeOK
<1> QED
  BY <1>1, <1>2, <1>3, <1>4, <1>5, <1>6, Steps

\* A reader, and what its step leaves alone.
LEMMA ReadingLeaves ==
    ASSUME NEW t \in Requests, Reading(t)
    PROVE  /\ UNCHANGED <<ask, clock, at, end, rows, entries, horizon>>
           /\ \E s \in {"listed", "done", "read", "checked", "deleted"} :
                 pc' = [pc EXCEPT ![t] = s]
           /\ pc[t] \in Waiting
           /\ pc[t] \in {"listed", "read"} \/ Kind(t) \in {"report", "list", "purge"}
  BY DEF Reading, ReadDocuments, ReadEntries, ReadPage, CountRows, DeleteOld,
     Step, Waiting

\* Each request stands where its kind may.
LEMMA Fitting == ASSUME JournalInv, [Next]_vars PROVE StageFits'
<1>0. TypeOK /\ StageFits
  BY DEF JournalInv
<1> USE DEF StageFits, TypeOK, Kind
<1>1. CASE UNCHANGED vars
  BY <1>0, <1>1 DEF vars
<1>2. ASSUME NEW t \in Requests, Beginning(t)
      PROVE  StageFits'
  BY <1>0, <1>2 DEF Beginning
<1>3. ASSUME NEW t \in Requests, Commit(t)
      PROVE  StageFits'
  BY <1>0, <1>3 DEF Commit, Step
<1>4. ASSUME NEW t \in Requests, Reading(t)
      PROVE  StageFits'
  BY <1>0, <1>4 DEF Reading, ReadDocuments, ReadEntries, ReadPage, CountRows,
     DeleteOld, Step
<1>5. ASSUME NEW t \in Requests, CommitPurge(t)
      PROVE  StageFits'
  BY <1>0, <1>5 DEF CommitPurge, Step
<1>6. ASSUME NEW t \in Requests, NEW s \in Stages, Moving(t, s)
      PROVE  StageFits'
  BY <1>0, <1>6 DEF Moving, Stays
<1> HIDE DEF StageFits, TypeOK
<1> QED
  BY <1>1, <1>2, <1>3, <1>4, <1>5, <1>6, Steps

\* Stamps stay in order.
LEMMA Stamping == ASSUME JournalInv, [Next]_vars PROVE StampsInOrder'
<1>0. TypeOK /\ StampsInOrder /\ StageFits
  BY DEF JournalInv
<1> USE DEF StampsInOrder, TypeOK
<1>1. CASE UNCHANGED vars
  BY <1>0, <1>1 DEF vars
<1>2. ASSUME NEW t \in Requests, Beginning(t)
      PROVE  StampsInOrder'
  <2>1. /\ \A r \in Requests : at'[r] = IF r = t THEN clock + 1 ELSE at[r]
        /\ \A r \in Requests : pc'[r] = IF r = t THEN "begun" ELSE pc[r]
    BY <1>0, <1>2 DEF Beginning
  <2>2. /\ end' = end /\ horizon' = horizon /\ clock' = clock + 1
        /\ \A r \in Requests : at[r] \in Nat /\ end[r] \in Nat
        /\ clock \in Nat /\ horizon \in Nat
    BY <1>0, <1>2 DEF Beginning
  <2>3. \A r \in Requests : at[r] =< clock /\ end[r] =< clock /\ horizon =< clock
    BY <1>0
  <2>4. \A r \in Requests : at'[r] =< clock' /\ end'[r] =< clock'
    BY <2>1, <2>2, <2>3
  <2>5. \A r \in Requests : at'[r] = 0 <=> pc'[r] = "new"
    BY <1>0, <2>1, <2>2
  <2>6. end[t] = 0
    BY <1>0, <1>2 DEF Beginning
  <2>7. \A r \in Requests : end'[r] # 0 => pc'[r] = "done" /\ at'[r] =< end'[r]
    BY <1>0, <2>1, <2>2, <2>6
  <2>8. \A r, u \in Requests : at'[r] = at'[u] => at'[r] = 0 \/ r = u
    BY <1>0, <2>1, <2>2, <2>3
  <2> QED
    BY <2>2, <2>3, <2>4, <2>5, <2>7, <2>8
<1>3. ASSUME NEW t \in Requests, Commit(t)
      PROVE  StampsInOrder'
  BY <1>0, <1>3 DEF Commit, Step
<1>4. ASSUME NEW t \in Requests, Reading(t)
      PROVE  StampsInOrder'
  BY <1>0, <1>4, ReadingLeaves DEF Waiting
<1>5. ASSUME NEW t \in Requests, CommitPurge(t)
      PROVE  StampsInOrder'
  BY <1>0, <1>5 DEF CommitPurge, Step
<1>6. ASSUME NEW t \in Requests, NEW s \in Stages, Moving(t, s)
      PROVE  StampsInOrder'
  BY <1>0, <1>6 DEF Moving, Stays, Waiting
<1> HIDE DEF StampsInOrder, TypeOK
<1> QED
  BY <1>1, <1>2, <1>3, <1>4, <1>5, <1>6, Steps

\* The tables hold what has been committed, no more and no less.
LEMMA Committing == ASSUME JournalInv, [Next]_vars PROVE OnlyCommitted'
<1>0. TypeOK /\ OnlyCommitted /\ StampsInOrder /\ StageFits
  BY DEF JournalInv
<1> USE DEF OnlyCommitted, TypeOK, Kind
<1>1. CASE UNCHANGED vars
  BY <1>0, <1>1 DEF vars
<1>2. ASSUME NEW t \in Requests, Beginning(t)
      PROVE  OnlyCommitted'
  BY <1>0, <1>2 DEF Beginning
<1>3. ASSUME NEW t \in Requests, Commit(t)
      PROVE  OnlyCommitted'
  <2>1. clock # 0
    BY <1>0, <1>3 DEF Commit, StampsInOrder
  <2>2. Kind(t) # "create_admin" => Kind(t) \in Writing \ {"create_admin"}
    BY <1>0, <1>3 DEF Commit, StageFits
  <2> QED
    BY <1>0, <1>3, <2>1, <2>2 DEF Commit, Step
<1>4. ASSUME NEW t \in Requests, Reading(t)
      PROVE  OnlyCommitted'
  BY <1>0, <1>4, ReadingLeaves DEF Waiting, StageFits, Inserting, Accounts
<1>5. ASSUME NEW t \in Requests, CommitPurge(t)
      PROVE  OnlyCommitted'
  BY <1>0, <1>5 DEF CommitPurge, Step, StageFits, Inserting, Accounts
<1>6. ASSUME NEW t \in Requests, NEW s \in Stages, Moving(t, s)
      PROVE  OnlyCommitted'
  BY <1>0, <1>6 DEF Moving, Stays, Waiting
<1> HIDE DEF OnlyCommitted, TypeOK
<1> QED
  BY <1>1, <1>2, <1>3, <1>4, <1>5, <1>6, Steps

\* The unique index: an account is inserted only where none is or may come.
LEMMA Registering == ASSUME JournalInv, [Next]_vars PROVE OneAccountPerEmail'
<1>0. TypeOK /\ OneAccountPerEmail /\ OnlyCommitted
  BY DEF JournalInv
<1> USE DEF OneAccountPerEmail, TypeOK, Kind
<1>1. CASE UNCHANGED vars
  BY <1>0, <1>1 DEF vars
<1>2. ASSUME NEW t \in Requests, Beginning(t)
      PROVE  OneAccountPerEmail'
  BY <1>0, <1>2 DEF Beginning
<1>3. ASSUME NEW t \in Requests, Commit(t)
      PROVE  OneAccountPerEmail'
  BY <1>0, <1>3 DEF Commit, Step
<1>4. ASSUME NEW t \in Requests, Reading(t)
      PROVE  OneAccountPerEmail'
  BY <1>0, <1>4, ReadingLeaves
<1>5. ASSUME NEW t \in Requests, CommitPurge(t)
      PROVE  OneAccountPerEmail'
  BY <1>0, <1>5 DEF CommitPurge, Step
<1>6. ASSUME NEW t \in Requests, NEW s \in Stages, Moving(t, s)
      PROVE  OneAccountPerEmail'
  BY <1>0, <1>6 DEF Moving, Stays, Waiting, SameEmail, Accounts
<1> HIDE DEF OneAccountPerEmail, TypeOK
<1> QED
  BY <1>1, <1>2, <1>3, <1>4, <1>5, <1>6, Steps

\* What a purge holds has expired.
LEMMA Purging == ASSUME JournalInv, [Next]_vars PROVE PurgeKnows'
<1>0. TypeOK /\ PurgeKnows /\ OnlyCommitted /\ StampsInOrder /\ Grows
  BY Growing DEF JournalInv
<1> USE DEF PurgeKnows, TypeOK, Expired
<1>1. CASE UNCHANGED vars
  BY <1>0, <1>1 DEF vars
<1>2. ASSUME NEW t \in Requests, Beginning(t)
      PROVE  PurgeKnows'
  BY <1>0, <1>2 DEF Beginning
<1>3. ASSUME NEW t \in Requests, Commit(t)
      PROVE  PurgeKnows'
  BY <1>0, <1>3 DEF Commit, Step
<1>4. ASSUME NEW t \in Requests, Reading(t)
      PROVE  PurgeKnows'
  <2>1. CASE DeleteOld(t)
    BY <1>0, <2>1 DEF DeleteOld, Step, OnlyCommitted
  <2>2. CASE ~DeleteOld(t)
    BY <1>0, <1>4, <2>2 DEF Reading, ReadDocuments, ReadEntries, ReadPage, CountRows, Step
  <2> QED
    BY <2>1, <2>2
<1>5. ASSUME NEW t \in Requests, CommitPurge(t)
      PROVE  PurgeKnows'
  BY <1>0, <1>5 DEF CommitPurge, Step
<1>6. ASSUME NEW t \in Requests, NEW s \in Stages, Moving(t, s)
      PROVE  PurgeKnows'
  BY <1>0, <1>6 DEF Moving, Stays, Waiting
<1> HIDE DEF PurgeKnows, TypeOK
<1> QED
  BY <1>1, <1>2, <1>3, <1>4, <1>5, <1>6, Steps

\* An entry goes only when it has expired.
LEMMA Telling == ASSUME JournalInv, [Next]_vars PROVE RowsAreTold'
<1>0. TypeOK /\ RowsAreTold /\ PurgeKnows /\ StampsInOrder /\ StageFits
  BY DEF JournalInv
<1> USE DEF RowsAreTold, TypeOK, Kind, Expired
<1>a. Retention \in Nat
  BY JournalAssumption
<1>1. CASE UNCHANGED vars
  BY <1>0, <1>1 DEF vars
<1>2. ASSUME NEW t \in Requests, Beginning(t)
      PROVE  RowsAreTold'
  BY <1>0, <1>2 DEF Beginning
<1>3. ASSUME NEW t \in Requests, Commit(t)
      PROVE  RowsAreTold'
  BY <1>0, <1>3 DEF Commit, Step
<1>4. ASSUME NEW t \in Requests, Reading(t)
      PROVE  RowsAreTold'
  BY <1>0, <1>4, ReadingLeaves DEF StageFits, Writing, Inserting, Accounts
<1>5. ASSUME NEW t \in Requests, CommitPurge(t)
      PROVE  RowsAreTold'
  BY <1>0, <1>5, <1>a DEF CommitPurge, Step, PurgeKnows, StageFits, Writing,
     Inserting, Accounts
<1>6. ASSUME NEW t \in Requests, NEW s \in Stages, Moving(t, s)
      PROVE  RowsAreTold'
  BY <1>0, <1>6 DEF Moving, Stays, Waiting
<1> HIDE DEF RowsAreTold, TypeOK
<1> QED
  BY <1>1, <1>2, <1>3, <1>4, <1>5, <1>6, Steps

\* What a request belongs to is committed before it.
LEMMA Belonging == ASSUME JournalInv, [Next]_vars PROVE SubjectsCommitted'
<1>0. TypeOK /\ SubjectsCommitted /\ OnlyCommitted /\ StampsInOrder /\ StageFits
      /\ Grows
  BY Growing DEF JournalInv
<1> USE DEF SubjectsCommitted, TypeOK, Kind, OfKind
<1>1. CASE UNCHANGED vars
  BY <1>0, <1>1 DEF vars
<1>2. ASSUME NEW t \in Requests, Beginning(t)
      PROVE  SubjectsCommitted'
  BY <1>0, <1>2 DEF Beginning
<1>3. ASSUME NEW t \in Requests, Commit(t)
      PROVE  SubjectsCommitted'
  BY <1>0, <1>3 DEF Commit, Step, OnlyCommitted, StampsInOrder
<1>4. ASSUME NEW t \in Requests, Reading(t)
      PROVE  SubjectsCommitted'
  BY <1>0, <1>4, ReadingLeaves DEF StageFits
<1>5. ASSUME NEW t \in Requests, CommitPurge(t)
      PROVE  SubjectsCommitted'
  BY <1>0, <1>5 DEF CommitPurge, Step, StageFits
<1>6. ASSUME NEW t \in Requests, NEW s \in Stages, Moving(t, s)
      PROVE  SubjectsCommitted'
  <2>1. UNCHANGED <<ask, end, rows, at>> /\ t \notin rows /\ s # "done"
    BY <1>0, <1>6 DEF Moving, Stays, Waiting, OnlyCommitted
  <2>2. \A r \in Requests : pc'[r] = IF r = t THEN s ELSE pc[r]
    BY <1>0, <1>6 DEF Moving
  <2>3. CASE s = "checked"
    <3>1. Kind(t) = "generate" => ask[t].of \in OfKind("create_check")
      BY <1>6, <2>3 DEF Moving, ReadableCheck
    <3>2. Kind(t) = "event" /\ ask[t].of # None => ask[t].of \in OfKind("generate")
      BY <1>6, <2>3 DEF Moving
    <3>3. end[t] = 0
      BY <1>0, <1>6, <2>3 DEF Moving, StampsInOrder
    <3> QED
      BY <1>0, <2>1, <2>2, <2>3, <3>1, <3>2, <3>3
  <2>4. CASE s \in {"row", "entry"}
    <3>1. pc[t] \in {"checked", "row"}
      BY <1>6, <2>4 DEF Moving
    <3> QED
      BY <1>0, <2>1, <2>2, <2>4, <3>1
  <2>5. CASE s \in {"refused", "failed"}
    BY <1>0, <2>1, <2>2, <2>5
  <2> QED
    BY <1>6, <2>3, <2>4, <2>5 DEF Moving
<1> HIDE DEF SubjectsCommitted, TypeOK
<1> QED
  BY <1>1, <1>2, <1>3, <1>4, <1>5, <1>6, Steps

-----------------------------------------------------------------------------
(* Places in a list.                                                       *)

\* The rows that come before r.
Ahead(S, r, sort) ==
    {u \in S : IF sort = Oldest THEN at[u] < at[r] ELSE at[u] > at[r]}

\* A place is a number, below the size of the list.
LEMMA PlaceBelow ==
    ASSUME TypeOK, NEW S \in SUBSET Requests, NEW r \in S, NEW sort
    PROVE  /\ Place(S, r, sort) \in Nat
           /\ Cardinality(S) \in Nat
           /\ Place(S, r, sort) < Cardinality(S)
<1>1. IsFiniteSet(S)
  BY JournalAssumption, FS_Subset
<1>2. Ahead(S, r, sort) \in SUBSET S /\ r \notin Ahead(S, r, sort)
  BY DEF Ahead, TypeOK
<1>3. /\ IsFiniteSet(Ahead(S, r, sort))
      /\ Cardinality(Ahead(S, r, sort)) =< Cardinality(S)
      /\ Cardinality(S) = Cardinality(Ahead(S, r, sort)) => S = Ahead(S, r, sort)
  BY <1>1, <1>2, FS_Subset
<1>4. Cardinality(S) \in Nat /\ Cardinality(Ahead(S, r, sort)) \in Nat
  BY <1>1, <1>3, FS_CardinalityType
<1> QED
  BY <1>2, <1>3, <1>4 DEF Place, Ahead

\* All the rows of a list that fits on a page are on it.
LEMMA OnePage ==
    ASSUME TypeOK, NEW S \in SUBSET Requests, NEW sort, NEW r \in S,
           Cardinality(S) =< MaxReportDocs
    PROVE  r \in Page(S, sort, 1, MaxReportDocs)
<1>1. MaxReportDocs \in Nat
  BY JournalAssumption
<1> QED
  BY <1>1, PlaceBelow DEF Page

-----------------------------------------------------------------------------
(* The report.                                                             *)

\* The documents of a check only grow.
LEMMA DocumentsGrow ==
    ASSUME Grows, NEW c
    PROVE  DocumentsOf(c) \subseteq DocumentsOf(c)'
  BY DEF Grows, DocumentsOf, OfKind, Kind

\* So the limit, once kept, was kept before.
LEMMA FitsBefore ==
    ASSUME TypeOK, TypeOK', Grows, NEW c, Fits(c)'
    PROVE  Fits(c)
<1>1. DocumentsOf(c) \in SUBSET DocumentsOf(c)' /\ DocumentsOf(c)' \in SUBSET Requests
  BY DocumentsGrow DEF DocumentsOf, OfKind, TypeOK
<1>2. IsFiniteSet(DocumentsOf(c)')
  BY <1>1, JournalAssumption, FS_Subset
<1>3. Cardinality(DocumentsOf(c)) =< Cardinality(DocumentsOf(c)')
  BY <1>1, <1>2, FS_Subset
<1>4. /\ Cardinality(DocumentsOf(c)) \in Nat /\ Cardinality(DocumentsOf(c)') \in Nat
      /\ MaxReportDocs \in Nat
  BY <1>1, <1>2, JournalAssumption, FS_Subset, FS_CardinalityType
<1> QED
  BY <1>3, <1>4 DEF Fits

\* What was committed before a request that has begun was there already.
LEMMA BeforeStays ==
    ASSUME JournalInv, [Next]_vars, NEW t \in Requests, pc[t] # "new",
           NEW r \in Requests, Before(r, t)'
    PROVE  Before(r, t) /\ pc[r] = "done" /\ at'[r] = at[r]
<1>0. TypeOK /\ StampsInOrder /\ Grows
  BY Growing DEF JournalInv
<1>1. at'[t] = at[t] /\ at[t] =< clock /\ clock \in Nat /\ at[t] \in Nat
  BY <1>0 DEF Grows, StampsInOrder, TypeOK
<1>2. end'[r] = end[r] \/ end'[r] = clock
  <2>1. CASE UNCHANGED vars
    BY <2>1 DEF vars
  <2>2. ASSUME NEW u \in Requests, Beginning(u)
        PROVE  end'[r] = end[r]
    BY <2>2 DEF Beginning
  <2>3. ASSUME NEW u \in Requests, Commit(u)
        PROVE  end'[r] = end[r] \/ end'[r] = clock
    BY <1>0, <2>3 DEF Commit, TypeOK
  <2>4. ASSUME NEW u \in Requests, Reading(u)
        PROVE  end'[r] = end[r]
    BY <2>4, ReadingLeaves
  <2>5. ASSUME NEW u \in Requests, CommitPurge(u)
        PROVE  end'[r] = end[r]
    BY <2>5 DEF CommitPurge
  <2>6. ASSUME NEW u \in Requests, NEW s \in Stages, Moving(u, s)
        PROVE  end'[r] = end[r]
    BY <2>6 DEF Moving, Stays
  <2> QED
    BY <2>1, <2>2, <2>3, <2>4, <2>5, <2>6, Steps
<1>3. Before(r, t)
  BY <1>1, <1>2 DEF Before
<1>4. pc[r] = "done"
  BY <1>0, <1>3 DEF Before, StampsInOrder
<1> QED
  BY <1>0, <1>3, <1>4 DEF Grows

\* A row, or an entry, was there before the step if it was before t began.
LEMMA CommittedBefore ==
    ASSUME JournalInv, [Next]_vars, NEW t \in Requests, pc[t] # "new",
           NEW r \in Requests, Before(r, t)'
    PROVE  (r \in rows' => r \in rows) /\ (r \in entries' => r \in entries)
<1>1. pc[r] = "done"
  BY BeforeStays
<1>2. CASE UNCHANGED vars
  BY <1>2 DEF vars
<1>3. ASSUME NEW u \in Requests, Beginning(u)
      PROVE  UNCHANGED <<rows, entries>>
  BY <1>3 DEF Beginning
<1>4. ASSUME NEW u \in Requests, Commit(u)
      PROVE  (r \in rows' => r \in rows) /\ (r \in entries' => r \in entries)
  BY <1>1, <1>4 DEF Commit
<1>5. ASSUME NEW u \in Requests, Reading(u)
      PROVE  UNCHANGED <<rows, entries>>
  BY <1>5, ReadingLeaves
<1>6. ASSUME NEW u \in Requests, CommitPurge(u)
      PROVE  rows' = rows /\ entries' \subseteq entries
  BY <1>6 DEF CommitPurge
<1>7. ASSUME NEW u \in Requests, NEW s \in Stages, Moving(u, s)
      PROVE  UNCHANGED <<rows, entries>>
  BY <1>7 DEF Moving, Stays
<1> QED
  BY <1>2, <1>3, <1>4, <1>5, <1>6, <1>7, Steps

\* The same of what an entry is about.
LEMMA AboutBefore ==
    ASSUME JournalInv, [Next]_vars, NEW t \in Requests, pc[t] # "new",
           NEW e \in entries', Before(e, t)', NEW c, About(e, c)'
    PROVE  e \in entries /\ About(e, c)
<1>0. TypeOK /\ TypeOK' /\ Grows /\ SubjectsCommitted /\ OnlyCommitted
  BY Growing, Types DEF JournalInv
<1>1. e \in Requests /\ ask' = ask
  BY <1>0 DEF TypeOK, Grows
<1>2. e \in entries /\ (e \in rows' => e \in rows)
  BY <1>1, CommittedBefore
<1>3. CASE e = c
  BY <1>2, <1>3 DEF About
<1>4. CASE e \in DocumentsOf(c)'
  BY <1>1, <1>2, <1>4 DEF About, DocumentsOf, OfKind, Kind
<1>5. CASE Kind(e) = "event" /\ ask[e].of \in DocumentsOf(c)'
  <2>1. ask[e].of # None
    BY <1>0, <1>5, JournalAssumption DEF DocumentsOf, OfKind, TypeOK
  <2>2. ask[e].of \in OfKind("generate")
    BY <1>0, <1>1, <1>2, <1>5, <2>1 DEF SubjectsCommitted, OnlyCommitted
  <2> QED
    BY <1>1, <1>2, <1>5, <2>2 DEF About, DocumentsOf, OfKind, Kind
<1> QED
  BY <1>1, <1>3, <1>4, <1>5 DEF About, Kind

\* A step leaves a request where it was.
Left(t) == /\ pc'[t] = pc[t] /\ page'[t] = page[t]
           /\ listed'[t] = listed[t] /\ seen'[t] = seen[t]

\* What a request has read changes by its own steps only.
LEMMA OthersLeave ==
    ASSUME JournalInv, [Next]_vars, NEW t \in Requests
    PROVE  \/ Left(t)
           \/ Beginning(t) \/ Commit(t) \/ Reading(t) \/ CommitPurge(t)
           \/ \E s \in Stages : Moving(t, s)
<1>0. TypeOK
  BY DEF JournalInv
<1>2. ASSUME NEW u \in Requests \ {t}, Beginning(u)
      PROVE  Left(t)
  BY <1>0, <1>2 DEF Beginning, Left, TypeOK
<1>3. ASSUME NEW u \in Requests \ {t}, Commit(u)
      PROVE  Left(t)
  BY <1>0, <1>3 DEF Commit, Step, Left, TypeOK
<1>4. ASSUME NEW u \in Requests \ {t}, Reading(u)
      PROVE  Left(t)
  BY <1>0, <1>4 DEF Reading, ReadDocuments, ReadEntries, ReadPage, CountRows,
     DeleteOld, Step, Left, TypeOK
<1>5. ASSUME NEW u \in Requests \ {t}, CommitPurge(u)
      PROVE  Left(t)
  BY <1>0, <1>5 DEF CommitPurge, Step, Left, TypeOK
<1>6. ASSUME NEW u \in Requests \ {t}, NEW s \in Stages, Moving(u, s)
      PROVE  Left(t)
  BY <1>0, <1>6 DEF Moving, Stays, Left, TypeOK
<1>7. UNCHANGED vars => Left(t)
  BY DEF vars, Left
<1> QED
  BY <1>2, <1>3, <1>4, <1>5, <1>6, <1>7, Steps

\* What a report has read, after one of its own steps.
LEMMA ReportReads ==
    ASSUME JournalInv, [Next]_vars, NEW t \in Requests,
           ReadDocuments(t) \/ ReadEntries(t)
    PROVE  LET check == ask[t].of IN
           /\ pc'[t] \in {"listed", "done"}
           /\ listed'[t] \subseteq DocumentsOf(check)
           /\ (Fits(check) => \A d \in DocumentsOf(check) :
                                 Before(d, t) => d \in listed'[t])
           /\ pc'[t] = "done" =>
                /\ (Fits(check) => \A e \in entries :
                       About(e, check) /\ Before(e, t) => e \in seen'[t])
                /\ \A r \in {check} \cup listed'[t] :
                       ~Expired(r, horizon) => r \in seen'[t]
                /\ \A e \in seen'[t] : About(e, check)
<1>0. TypeOK /\ ReportKnows /\ SubjectsCommitted /\ OnlyCommitted /\ RowsAreTold
      /\ StageFits
  BY DEF JournalInv
<1> DEFINE check == ask[t].of
<1>1. CASE ReadDocuments(t)
  <2>1. listed'[t] = Page(DocumentsOf(check), Newest, 1, MaxReportDocs)
        /\ pc'[t] = "listed"
    BY <1>0, <1>1 DEF ReadDocuments, Step, TypeOK
  <2>2. DocumentsOf(check) \in SUBSET Requests
    BY <1>0 DEF DocumentsOf, OfKind, TypeOK
  <2>3. Fits(check) => \A d \in DocumentsOf(check) : d \in listed'[t]
    BY <1>0, <2>1, <2>2, OnePage DEF Fits
  <2> QED
    BY <2>1, <2>3 DEF Page
<1>2. CASE ReadEntries(t)
  <2>1. /\ pc[t] = "listed" /\ pc'[t] = "done" /\ listed'[t] = listed[t]
        /\ seen'[t] = {e \in entries : Concerns(e, check, listed[t])}
        /\ Kind(t) = "report"
    BY <1>0, <1>2 DEF ReadEntries, Step, TypeOK, StageFits
  <2>2. /\ check \in OfKind("create_check") /\ listed[t] \subseteq DocumentsOf(check)
        /\ (Fits(check) => \A d \in DocumentsOf(check) : Before(d, t) => d \in listed[t])
    BY <1>0, <2>1 DEF ReportKnows
  <2>3. ASSUME Fits(check), NEW e \in entries, About(e, check), Before(e, t)
        PROVE  Concerns(e, check, listed[t])
    <3>1. CASE e = check
      BY <2>2, <3>1 DEF Concerns, OfKind
    <3>2. CASE e \in DocumentsOf(check)
      BY <3>2 DEF Concerns, DocumentsOf, OfKind
    <3>3. CASE Kind(e) = "event" /\ ask[e].of \in DocumentsOf(check)
      <4> DEFINE d == ask[e].of
      <4>1. e \in Requests /\ d \in Requests /\ pc[e] = "done" /\ end[e] # 0
        BY <1>0, <3>3 DEF TypeOK, OnlyCommitted, DocumentsOf, OfKind
      <4>2. end[d] # 0 /\ end[d] \in Nat /\ end[e] \in Nat /\ at[t] \in Nat
        BY <1>0, <3>3, <4>1 DEF TypeOK, OnlyCommitted, DocumentsOf, OfKind
      <4>3. d # None
        BY <4>1, JournalAssumption
      <4>4. end[d] =< end[e]
        BY <1>0, <3>3, <4>1, <4>3 DEF SubjectsCommitted
      <4>5. Before(d, t)
        BY <2>3, <4>2, <4>4 DEF Before
      <4> QED
        BY <2>2, <2>3, <3>3, <4>5 DEF Concerns
    <3> QED
      BY <2>3, <3>1, <3>2, <3>3 DEF About
  <2>4. ASSUME NEW r \in {check} \cup listed[t], ~Expired(r, horizon)
        PROVE  r \in entries /\ Concerns(r, check, listed[t])
    <3>1. r \in OfKind("create_check") \cup OfKind("generate") /\ r \in Requests
      BY <1>0, <2>2, <2>4 DEF DocumentsOf, OfKind, TypeOK
    <3>2. r \in entries
      BY <1>0, <2>4, <3>1 DEF RowsAreTold, OnlyCommitted, OfKind, Writing,
         Inserting, Accounts
    <3> QED
      BY <2>2, <2>4, <3>2 DEF Concerns, OfKind, DocumentsOf
  <2>5. ASSUME NEW e \in entries, Concerns(e, check, listed[t])
        PROVE  About(e, check)
    <3>1. Kind(e) = "generate" /\ ask[e].of = check => e \in DocumentsOf(check)
      BY <1>0 DEF DocumentsOf, OfKind, OnlyCommitted, Inserting, TypeOK
    <3> QED
      BY <2>2, <2>5, <3>1 DEF Concerns, About
  <2> QED
    BY <2>1, <2>2, <2>3, <2>4, <2>5
<1> QED
  BY <1>1, <1>2

\* ReportKnows of one report.
ReportKnowsOf(t) ==
    LET check == ask[t].of IN
    /\ pc[t] \in {"checked", "listed", "done"} => check \in OfKind("create_check")
    /\ pc[t] \in {"listed", "done"}
       => /\ listed[t] \subseteq DocumentsOf(check)
          /\ (Fits(check) => \A d \in DocumentsOf(check) :
                                Before(d, t) => d \in listed[t])
    /\ pc[t] = "done"
       => /\ (Fits(check) => \A e \in entries :
                 About(e, check) /\ Before(e, t) => e \in seen[t])
          /\ \A r \in {check} \cup listed[t] : ~Expired(r, horizon) => r \in seen[t]
          /\ \A e \in seen[t] : About(e, check)

\* What a report knows it keeps knowing.
LEMMA Reporting == ASSUME JournalInv, [Next]_vars PROVE ReportKnows'
<1>0. /\ TypeOK /\ TypeOK' /\ ReportKnows /\ OnlyCommitted /\ StampsInOrder
      /\ StageFits /\ Grows
  BY Growing, Types DEF JournalInv
<1>a. ask' = ask /\ horizon \in Nat /\ horizon' \in Nat /\ Retention \in Nat
  BY <1>0, JournalAssumption DEF Grows, TypeOK
<1> SUFFICES ASSUME NEW t \in Requests, Kind(t) = "report"
             PROVE  ReportKnowsOf(t)'
  BY <1>a DEF ReportKnows, ReportKnowsOf, Kind
<1> DEFINE check == ask[t].of
<1>b. ReportKnowsOf(t)
  BY <1>0 DEF ReportKnows, ReportKnowsOf
<1>c. DocumentsOf(check) \subseteq DocumentsOf(check)' /\ (Fits(check)' => Fits(check))
      /\ OfKind("create_check") \subseteq OfKind("create_check")'
  BY <1>0, DocumentsGrow, FitsBefore DEF Grows, OfKind, Kind
<1>1. ASSUME Left(t), pc[t] \in {"checked", "listed", "done"}
      PROVE  ReportKnowsOf(t)'
  <2>1. pc[t] # "new" /\ pc'[t] = pc[t] /\ listed'[t] = listed[t] /\ seen'[t] = seen[t]
    BY <1>1 DEF Left
  <2>2. ASSUME pc[t] \in {"listed", "done"}, Fits(check)',
               NEW d \in DocumentsOf(check)', Before(d, t)'
        PROVE  d \in listed[t]
    <3>1. d \in Requests /\ d \in rows'
      BY <1>0, <2>2 DEF DocumentsOf, OfKind, TypeOK
    <3>2. d \in rows /\ Before(d, t)
      BY <2>1, <2>2, <3>1, CommittedBefore, BeforeStays
    <3>3. d \in DocumentsOf(check)
      BY <1>a, <2>2, <3>2 DEF DocumentsOf, OfKind, Kind
    <3> QED
      BY <1>b, <1>c, <2>2, <3>2, <3>3 DEF ReportKnowsOf
  <2>3. ASSUME pc[t] = "done", Fits(check)', NEW e \in entries',
               About(e, check)', Before(e, t)'
        PROVE  e \in seen[t]
    <3>1. e \in entries /\ About(e, check)
      BY <1>a, <2>1, <2>3, AboutBefore
    <3>2. Before(e, t)
      BY <1>0, <2>1, <2>3, BeforeStays DEF TypeOK
    <3> QED
      BY <1>b, <1>c, <2>3, <3>1, <3>2 DEF ReportKnowsOf
  <2>4. ASSUME pc[t] = "done", NEW r \in {check} \cup listed[t],
               ~Expired(r, horizon)'
        PROVE  r \in seen[t]
    <3>1. r \in Requests /\ r \in rows
      BY <1>0, <1>b, <2>4 DEF ReportKnowsOf, DocumentsOf, OfKind, TypeOK
    <3>2. at'[r] = at[r] /\ at[r] \in Nat
      BY <1>0, <3>1 DEF OnlyCommitted, Grows, TypeOK
    <3>3. ~Expired(r, horizon)
      BY <1>0, <1>a, <2>4, <3>2 DEF Expired, Grows
    <3> QED
      BY <1>b, <2>4, <3>3 DEF ReportKnowsOf
  <2>5. ASSUME pc[t] = "done", NEW e \in seen[t]
        PROVE  About(e, check)'
    <3>1. About(e, check)
      BY <1>b, <2>5 DEF ReportKnowsOf
    <3> QED
      BY <1>a, <1>c, <3>1 DEF About, Kind
  <2> QED
    BY <1>a, <1>b, <1>c, <2>1, <2>2, <2>3, <2>4, <2>5 DEF ReportKnowsOf
<1>2. ASSUME Left(t), pc[t] \notin {"checked", "listed", "done"}
      PROVE  ReportKnowsOf(t)'
  BY <1>2 DEF Left, ReportKnowsOf
<1>3. CASE ReadDocuments(t) \/ ReadEntries(t)
  <2>1. UNCHANGED <<ask, end, at, rows, entries, horizon>>
    BY <1>3 DEF ReadDocuments, ReadEntries
  <2>2. check \in OfKind("create_check")
    BY <1>0, <1>3, <1>b DEF ReadDocuments, ReadEntries, ReportKnowsOf
  <2>3. /\ DocumentsOf(check)' = DocumentsOf(check) /\ (Fits(check)' <=> Fits(check))
        /\ OfKind("create_check")' = OfKind("create_check")
    BY <2>1 DEF DocumentsOf, OfKind, Fits, Kind
  <2>4. \A e : /\ (About(e, check)' <=> About(e, check))
              /\ (Before(e, t)' <=> Before(e, t))
              /\ (Expired(e, horizon)' <=> Expired(e, horizon))
    BY <2>1, <2>3 DEF About, Before, Expired, Kind
  <2> QED
    BY <1>3, <2>1, <2>2, <2>3, <2>4, ReportReads DEF ReportKnowsOf
<1>4. CASE ReadPage(t) \/ CountRows(t) \/ DeleteOld(t) \/ Commit(t) \/ CommitPurge(t)
  BY <1>0, <1>4 DEF ReadPage, CountRows, DeleteOld, Commit, CommitPurge, StageFits,
     Writing, Inserting, Accounts
<1>5. CASE Beginning(t)
  BY <1>0, <1>5 DEF Beginning, ReportKnowsOf, TypeOK
<1>6. ASSUME NEW s \in Stages, Moving(t, s)
      PROVE  ReportKnowsOf(t)'
  <2>1. pc'[t] = s /\ rows' = rows
    BY <1>0, <1>6 DEF Moving, Stays, TypeOK
  <2>2. s \in {"refused", "failed", "row", "entry", "checked"}
    BY <1>6 DEF Moving
  <2>3. s = "checked" => check \in OfKind("create_check")
    BY <1>6 DEF Moving, ReadableCheck
  <2> QED
    BY <1>a, <1>c, <2>1, <2>2, <2>3 DEF ReportKnowsOf
<1> QED
  BY <1>1, <1>2, <1>3, <1>4, <1>5, <1>6, OthersLeave DEF Reading

-----------------------------------------------------------------------------
(* Lists.                                                                  *)

\* WalkKnows of one client.
WalkKnowsOf(t) ==
    pc[t] \in {"checked", "read", "done"}
    => \A r \in Selected(t) : Owed(r, t) =>
         \/ r \in seen[t]
         \/ /\ pc[t] = "checked"
            /\ (page[t] - 1) * PerPage =< Place(Selected(t), r, ask[t].sort)
         \/ /\ pc[t] = "read"
            /\ page[t] * PerPage =< Place(Selected(t), r, ask[t].sort)

\* A list selects rows, or entries, that have been committed.
LEMMA SelectedCommitted ==
    ASSUME JournalInv, NEW t \in Requests, NEW r \in Selected(t)
    PROVE  r \in Requests /\ pc[r] = "done"
           /\ r \in IF ask[t].over = "logs" THEN entries ELSE rows
<1>1. TypeOK /\ OnlyCommitted
  BY DEF JournalInv
<1>2. r \in IF ask[t].over = "logs" THEN entries ELSE rows
  BY DEF Selected, OfKind, DocumentsOf
<1> QED
  BY <1>1, <1>2 DEF TypeOK, OnlyCommitted

\* Whether a list selects a row depends on nothing that changes.
LEMMA SelectedStable ==
    ASSUME ask' = ask, NEW t \in Requests, NEW r
    PROVE  /\ r \in Selected(t) /\ (r \in rows => r \in rows')
                                /\ (ask[t].over = "logs" => r \in entries')
              => r \in Selected(t)'
           /\ r \in Selected(t)' /\ (r \in rows' => r \in rows)
                                 /\ (r \in entries' => r \in entries)
              => r \in Selected(t)
  BY DEF Selected, OfKind, DocumentsOf, MayRead, Kind

\* An entry that comes before one that is owed is not removed.
LEMMA AheadStays ==
    ASSUME JournalInv, [Next]_vars, NEW t \in Requests, ask[t].over = "logs",
           NEW r \in Requests, pc[r] = "done", Owed(r, t)', NEW sort,
           sort = ask[t].sort, NEW u \in Ahead(entries, r, sort)
    PROVE  u \in entries'
<1>0. TypeOK /\ TypeOK' /\ PurgeKnows /\ StampsInOrder /\ Grows
  BY Growing, Types DEF JournalInv
<1>1. CASE UNCHANGED vars
  BY <1>1 DEF vars, Ahead
<1>2. ASSUME NEW p \in Requests, Beginning(p)
      PROVE  entries' = entries
  BY <1>2 DEF Beginning
<1>3. ASSUME NEW p \in Requests, Commit(p)
      PROVE  entries \subseteq entries'
  BY <1>3 DEF Commit
<1>4. ASSUME NEW p \in Requests, Reading(p)
      PROVE  entries' = entries
  BY <1>4, ReadingLeaves
<1>5. ASSUME NEW p \in Requests, CommitPurge(p)
      PROVE  u \in entries'
  <2>1. SUFFICES ASSUME u \in seen[p]
                 PROVE  FALSE
    BY <1>5 DEF CommitPurge, Ahead
  <2>2. Expired(u, at[p]) /\ at[p] =< horizon' /\ at[p] # 0
    BY <1>0, <1>5, <2>1 DEF CommitPurge, PurgeKnows, StampsInOrder, TypeOK
  <2>3. /\ at[u] \in Nat /\ at[r] \in Nat /\ at[p] \in Nat /\ horizon' \in Nat
        /\ Retention \in Nat
    BY <1>0, JournalAssumption DEF TypeOK, Ahead
  <2>4. ask' = ask /\ at'[r] = at[r]
    BY <1>5 DEF CommitPurge
  <2>5. sort # Oldest /\ ~(at[r] + Retention < horizon')
    BY <2>2, <2>3, <2>4 DEF Owed, Expired
  <2>6. at[u] > at[r] /\ at[u] + Retention < at[p]
    BY <2>2, <2>5 DEF Ahead, Expired
  <2> QED
    BY <2>2, <2>3, <2>5, <2>6
<1>6. ASSUME NEW p \in Requests, NEW s \in Stages, Moving(p, s)
      PROVE  entries' = entries
  BY <1>6 DEF Moving, Stays
<1> QED
  BY <1>1, <1>2, <1>3, <1>4, <1>5, <1>6, Steps DEF Ahead

\* A row that is owed was owed, and is not nearer than it was.
LEMMA OwedStays ==
    ASSUME JournalInv, [Next]_vars, NEW t \in Requests, pc[t] # "new",
           NEW r \in Selected(t)', Owed(r, t)'
    PROVE  /\ r \in Selected(t) /\ Owed(r, t)
           /\ Place(Selected(t), r, ask[t].sort)
              =< Place(Selected(t), r, ask[t].sort)'
<1>0. TypeOK /\ TypeOK' /\ OnlyCommitted /\ Grows
  BY Growing, Types DEF JournalInv
<1>1. ask' = ask /\ Selected(t)' \in SUBSET Requests /\ Selected(t) \in SUBSET Requests
  BY <1>0 DEF Grows, TypeOK, Selected, OfKind, DocumentsOf
<1>2. Before(r, t) /\ pc[r] = "done" /\ at'[r] = at[r]
  BY <1>1, BeforeStays DEF Owed
<1>3. r \in Selected(t)
  BY <1>1, CommittedBefore, SelectedStable DEF Owed
<1>4. Owed(r, t)
  <2>1. /\ at[r] \in Nat /\ horizon \in Nat /\ horizon' \in Nat
        /\ Retention \in Nat /\ horizon =< horizon'
    BY <1>0, <1>1, JournalAssumption DEF TypeOK, Grows
  <2> QED
    BY <1>1, <1>2, <2>1 DEF Owed, Expired
<1>5. ASSUME NEW u \in Ahead(Selected(t), r, ask[t].sort)
      PROVE  u \in Selected(t)' /\ at'[u] = at[u]
  <2>1. u \in Selected(t)
    BY <1>5 DEF Ahead
  <2>2. u \in Requests /\ pc[u] = "done"
        /\ u \in IF ask[t].over = "logs" THEN entries ELSE rows
    BY <2>1, SelectedCommitted
  <2>3. at'[u] = at[u] /\ (u \in rows => u \in rows')
    BY <1>0, <2>2 DEF Grows
  <2>4. ask[t].over = "logs" => u \in entries'
    BY <1>1, <1>2, <1>5, <2>2, AheadStays DEF Ahead
  <2> QED
    BY <1>1, <2>1, <2>3, <2>4, SelectedStable
<1> DEFINE S == Selected(t)
           T == Selected(t)'
<1>6. ask'[t].sort = ask[t].sort
  BY <1>1
<1>7. Place(S, r, ask[t].sort) =< Cardinality({u \in T :
          IF ask[t].sort = Oldest THEN at'[u] < at'[r] ELSE at'[u] > at'[r]})
  <2>1. IsFiniteSet(T)
    BY <1>1, JournalAssumption, FS_Subset
  <2> DEFINE B == {u \in T : IF ask[t].sort = Oldest THEN at'[u] < at'[r]
                                                    ELSE at'[u] > at'[r]}
  <2>2. B \in SUBSET T /\ Ahead(S, r, ask[t].sort) \in SUBSET B
    BY <1>2, <1>5 DEF Ahead
  <2>3. IsFiniteSet(B)
    BY <2>1, <2>2, FS_Subset
  <2>4. Cardinality(Ahead(S, r, ask[t].sort)) =< Cardinality(B)
    BY <2>2, <2>3, FS_Subset
  <2> QED
    BY <2>4 DEF Place, Ahead
<1> QED
  BY <1>3, <1>4, <1>6, <1>7 DEF Place

\* A client's own reading.
LEMMA Paging ==
    ASSUME JournalInv, [Next]_vars, NEW t \in Requests, Kind(t) = "list",
           ReadPage(t) \/ CountRows(t)
    PROVE  WalkKnowsOf(t)'
<1>0. TypeOK /\ WalkKnows /\ StageFits
  BY DEF JournalInv
<1>a. UNCHANGED <<ask, clock, at, end, rows, entries, horizon, listed>>
  BY DEF ReadPage, CountRows
<1>b. pc[t] \in {"checked", "read"}
  BY DEF ReadPage, CountRows
<1> DEFINE n(r) == Place(Selected(t), r, ask[t].sort)
<1>1. /\ Selected(t)' = Selected(t) /\ ask' = ask
      /\ \A r : Owed(r, t)' <=> Owed(r, t)
      /\ \A r : Place(Selected(t), r, ask[t].sort)' = n(r)
  BY <1>a DEF Selected, OfKind, DocumentsOf, MayRead, Kind, Owed, Before, Expired, Place
<1>2. Selected(t) \in SUBSET Requests
  BY <1>0 DEF TypeOK, Selected, OfKind, DocumentsOf
<1>3. \A r \in Selected(t) : /\ n(r) \in Nat /\ Cardinality(Selected(t)) \in Nat
                             /\ n(r) < Cardinality(Selected(t))
  BY <1>0, <1>2, PlaceBelow
<1>4. page[t] \in Nat /\ PerPage \in Nat /\ page[t] * PerPage \in Nat
  BY <1>0, JournalAssumption DEF TypeOK
<1>5. \A r \in Selected(t) : Owed(r, t) =>
         \/ r \in seen[t]
         \/ pc[t] = "checked" /\ (page[t] - 1) * PerPage =< n(r)
         \/ pc[t] = "read" /\ page[t] * PerPage =< n(r)
  BY <1>0, <1>b DEF WalkKnows
<1>6. CASE ReadPage(t)
  <2>1. /\ pc[t] = "checked" /\ pc'[t] = "read" /\ page' = page
        /\ seen'[t] = seen[t] \cup Page(Selected(t), ask[t].sort, page[t], PerPage)
    BY <1>0, <1>6 DEF ReadPage, Step, TypeOK
  <2>2. ASSUME NEW r \in Selected(t), Owed(r, t)
        PROVE  r \in seen'[t] \/ page[t] * PerPage =< n(r)
    <3>1. CASE r \in seen[t]
      BY <2>1, <3>1
    <3>2. CASE (page[t] - 1) * PerPage =< n(r) /\ ~(page[t] * PerPage =< n(r))
      <4>1. n(r) < page[t] * PerPage
        BY <1>3, <1>4, <3>2
      <4> QED
        BY <2>1, <3>2, <4>1 DEF Page
    <3> QED
      BY <1>5, <2>1, <2>2, <3>1, <3>2
  <2> QED
    BY <1>1, <2>1, <2>2 DEF WalkKnowsOf
<1>7. CASE CountRows(t)
  <2>1. pc[t] = "read" /\ seen' = seen
    BY <1>7 DEF CountRows
  <2>2. CASE page[t] * PerPage < Cardinality(Selected(t))
    <3>1. pc'[t] = "checked" /\ page'[t] = page[t] + 1
      BY <1>0, <1>7, <2>2 DEF CountRows, Step, TypeOK
    <3>2. (page'[t] - 1) * PerPage = page[t] * PerPage
      <4>1. page'[t] - 1 = page[t]
        BY <1>4, <3>1
      <4> QED
        BY <4>1
    <3> QED
      BY <1>1, <1>5, <2>1, <3>1, <3>2 DEF WalkKnowsOf
  <2>3. CASE ~(page[t] * PerPage < Cardinality(Selected(t)))
    <3>1. pc'[t] = "done"
      BY <1>0, <1>7, <2>3 DEF CountRows, Step, TypeOK
    <3>2. \A r \in Selected(t) : ~(page[t] * PerPage =< n(r))
      BY <1>3, <1>4, <2>3
    <3> QED
      BY <1>1, <1>5, <2>1, <3>1, <3>2 DEF WalkKnowsOf
  <2> QED
    BY <2>2, <2>3
<1> QED
  BY <1>6, <1>7

\* What is owed to a client stays ahead of it.
LEMMA Walking == ASSUME JournalInv, [Next]_vars PROVE WalkKnows'
<1>0. TypeOK /\ TypeOK' /\ WalkKnows /\ StageFits /\ StampsInOrder /\ Grows
  BY Growing, Types DEF JournalInv
<1>a. ask' = ask
  BY <1>0 DEF Grows
<1> SUFFICES ASSUME NEW t \in Requests, Kind(t) = "list"
             PROVE  WalkKnowsOf(t)'
  BY <1>a DEF WalkKnows, WalkKnowsOf, Kind
<1>b. WalkKnowsOf(t)
  BY <1>0 DEF WalkKnows, WalkKnowsOf
<1>c. /\ page[t] \in Nat \ {0} /\ PerPage \in Nat \ {0}
      /\ page[t] * PerPage \in Int /\ (page[t] - 1) * PerPage \in Int
  BY <1>0, JournalAssumption DEF TypeOK
<1>d. ASSUME NEW r \in Selected(t)'
      PROVE  Place(Selected(t), r, ask[t].sort)' \in Nat
  <2>1. Selected(t)' \in SUBSET Requests
    BY <1>0 DEF TypeOK, Selected, OfKind, DocumentsOf
  <2> DEFINE B == {u \in Selected(t)' : IF ask'[t].sort = Oldest
                                         THEN at'[u] < at'[r] ELSE at'[u] > at'[r]}
  <2>2. IsFiniteSet(B)
    BY <2>1, JournalAssumption, FS_Subset
  <2>3. Cardinality(B) \in Nat
    BY <2>2, FS_CardinalityType
  <2> QED
    BY <2>3 DEF Place
<1>1. ASSUME Left(t), pc[t] \in {"checked", "read", "done"}
      PROVE  WalkKnowsOf(t)'
  <2>1. /\ pc[t] # "new" /\ pc'[t] = pc[t] /\ seen'[t] = seen[t] /\ page'[t] = page[t]
    BY <1>1 DEF Left
  <2>2. ASSUME NEW r \in Selected(t)', Owed(r, t)'
        PROVE  \/ r \in seen[t]
               \/ /\ pc[t] = "checked"
                  /\ (page[t] - 1) * PerPage =< Place(Selected(t), r, ask[t].sort)'
               \/ /\ pc[t] = "read"
                  /\ page[t] * PerPage =< Place(Selected(t), r, ask[t].sort)'
    <3>1. /\ r \in Selected(t) /\ Owed(r, t)
          /\ Place(Selected(t), r, ask[t].sort)
             =< Place(Selected(t), r, ask[t].sort)'
      BY <2>1, <2>2, OwedStays
    <3>2. Place(Selected(t), r, ask[t].sort) \in Nat
      <4>1. Selected(t) \in SUBSET Requests
        BY <1>0 DEF TypeOK, Selected, OfKind, DocumentsOf
      <4> QED
        BY <1>0, <3>1, <4>1, PlaceBelow
    <3>3. Place(Selected(t), r, ask[t].sort)' \in Nat
      BY <1>d, <2>2
    <3>4. \/ r \in seen[t]
          \/ /\ pc[t] = "checked"
             /\ (page[t] - 1) * PerPage =< Place(Selected(t), r, ask[t].sort)
          \/ /\ pc[t] = "read"
             /\ page[t] * PerPage =< Place(Selected(t), r, ask[t].sort)
      BY <1>1, <1>b, <3>1 DEF WalkKnowsOf
    <3> QED
      BY <1>c, <3>1, <3>2, <3>3, <3>4
  <2> QED
    BY <1>a, <2>1, <2>2 DEF WalkKnowsOf
<1>2. ASSUME Left(t), pc[t] \notin {"checked", "read", "done"}
      PROVE  WalkKnowsOf(t)'
  BY <1>2 DEF Left, WalkKnowsOf
<1>3. CASE ReadPage(t) \/ CountRows(t)
  BY <1>3, Paging
<1>4. CASE ReadDocuments(t) \/ ReadEntries(t) \/ DeleteOld(t) \/ Commit(t) \/ CommitPurge(t)
  BY <1>0, <1>4 DEF ReadDocuments, ReadEntries, DeleteOld, Commit, CommitPurge,
     StageFits, Writing, Inserting, Accounts
<1>5. CASE Beginning(t)
  BY <1>0, <1>5 DEF Beginning, WalkKnowsOf, TypeOK
<1>6. ASSUME NEW s \in Stages, Moving(t, s)
      PROVE  WalkKnowsOf(t)'
  <2>1. pc'[t] = s /\ page' = page
    BY <1>0, <1>6 DEF Moving, Stays, TypeOK
  <2>2. CASE s = "checked"
    <3>1. page[t] = 1
      BY <1>0, <1>6, <2>2 DEF Moving, StageFits
    <3>2. (page'[t] - 1) * PerPage = 0
      BY <1>c, <2>1, <3>1
    <3> QED
      BY <1>d, <2>1, <2>2, <3>2 DEF WalkKnowsOf
  <2>3. CASE s # "checked"
    BY <1>6, <2>1, <2>3 DEF Moving, WalkKnowsOf
  <2> QED
    BY <2>2, <2>3
<1> QED
  BY <1>1, <1>2, <1>3, <1>4, <1>5, <1>6, OthersLeave DEF Reading

-----------------------------------------------------------------------------
(* The theorems.                                                           *)

\* JournalInv holds at the start.
LEMMA Starting == Init => JournalInv
<1> SUFFICES ASSUME Init PROVE JournalInv
  OBVIOUS
<1>1. TypeOK
  BY DEF Init, TypeOK, Stages, Waiting
<1>2. StampsInOrder /\ StageFits /\ OnlyCommitted /\ OneAccountPerEmail
  BY DEF Init, StampsInOrder, StageFits, OnlyCommitted, OneAccountPerEmail
<1>3. RowsAreTold /\ SubjectsCommitted /\ PurgeKnows /\ ReportKnows /\ WalkKnows
  BY DEF Init, RowsAreTold, SubjectsCommitted, PurgeKnows, ReportKnows, WalkKnows
<1> QED
  BY <1>1, <1>2, <1>3 DEF JournalInv

\* Accounts stay unique, every row is told of until its entry expires, and the
\* readers and the purge hold what they should.
THEOREM JournalAgrees == Spec => []JournalInv
<1>1. JournalInv /\ [Next]_vars => JournalInv'
  BY Types, Stamping, Fitting, Committing, Registering, Telling, Belonging,
     Purging, Reporting, Walking DEF JournalInv
<1> QED
  BY Starting, <1>1, PTL DEF Spec

\* A report tells all that was committed before it began.
THEOREM ReportsComplete == Spec => []ReportTellsAll
<1>1. JournalInv => ReportTellsAll
  BY DEF JournalInv, ReportKnows, ReportTellsAll, About
<1> QED
  BY JournalAgrees, <1>1, PTL

\* A client that reads a list to its end misses nothing it is owed.
THEOREM WalksComplete == Spec => []WalkMissesNothing
<1>1. JournalInv => WalkMissesNothing
  BY DEF JournalInv, WalkKnows, WalkMissesNothing
<1> QED
  BY JournalAgrees, <1>1, PTL

\* Every step of the journal is a step of the ledger, or none.
LEMMA LedgerStep ==
    ASSUME JournalInv, [Next]_vars
    PROVE  [L!Next]_(L!vars)
<1>0. /\ TypeOK /\ OnlyCommitted /\ StampsInOrder /\ PurgeKnows /\ StageFits /\ Grows
  BY Growing DEF JournalInv
<1>a. LeavesOf' = LeavesOf /\ Retention \in Nat
  BY <1>0, JournalAssumption DEF Grows, LeavesOf, Kind
<1> DEFINE Ended == {t \in Requests : end[t] # 0}
<1>1. CASE UNCHANGED vars
  BY <1>1, <1>a DEF vars, L!vars
<1>2. ASSUME NEW t \in Requests, Beginning(t)
      PROVE  L!Begin(t)
  BY <1>2, <1>a DEF Beginning, L!Begin
<1>3. ASSUME NEW t \in Requests, Commit(t)
      PROVE  L!Happen(t)
  <2>1. end[t] = 0 /\ clock # 0 /\ end' = [end EXCEPT ![t] = clock]
    <3>1. pc[t] \in {"row", "entry"} /\ end' = [end EXCEPT ![t] = clock]
      BY <1>3 DEF Commit
    <3>2. end[t] = 0
      BY <1>0, <3>1 DEF StampsInOrder
    <3>3. at[t] # 0 /\ at[t] =< clock /\ at[t] \in Nat /\ clock \in Nat
      BY <1>0, <3>1 DEF StampsInOrder, TypeOK
    <3> QED
      BY <3>1, <3>2, <3>3
  <2>2. Ended' = Ended \cup {t} /\ t \notin Ended
    BY <1>0, <2>1 DEF TypeOK
  <2>3. Kind(t) # "create_admin" => Kind(t) \in Writing \ {"create_admin"}
    BY <1>0, <1>3 DEF Commit, StageFits
  <2>4. "row" \in LeavesOf[t] <=> Kind(t) \in Inserting
    BY DEF LeavesOf
  <2>5. "entry" \in LeavesOf[t] <=> Kind(t) # "create_admin"
    BY <2>3 DEF LeavesOf
  <2>6. /\ rows' = rows \cup {u \in {t} : "row" \in LeavesOf[t]}
        /\ entries' = entries \cup {u \in {t} : "entry" \in LeavesOf[t]}
        /\ UNCHANGED <<clock, at>>
    BY <1>3, <2>4, <2>5 DEF Commit
  <2> QED
    BY <1>a, <2>2, <2>6 DEF L!Happen
<1>4. ASSUME NEW t \in Requests, Reading(t)
      PROVE  UNCHANGED L!vars
  BY <1>4, <1>a, ReadingLeaves DEF L!vars
<1>5. ASSUME NEW t \in Requests, CommitPurge(t)
      PROVE  L!Forget(entries \cap seen[t])
  <2>1. ASSUME NEW e \in entries \cap seen[t]
        PROVE  at[e] + Retention < clock
    <3>1. Expired(e, at[t]) /\ at[t] =< clock
      BY <1>0, <1>5, <2>1 DEF CommitPurge, PurgeKnows, StampsInOrder
    <3>2. at[e] \in Nat /\ at[t] \in Nat /\ clock \in Nat
      BY <1>0, <2>1 DEF TypeOK
    <3> QED
      BY <1>a, <3>1, <3>2 DEF Expired
  <2> QED
    BY <1>5, <1>a, <2>1 DEF CommitPurge, L!Forget
<1>6. ASSUME NEW t \in Requests, NEW s \in Stages, Moving(t, s)
      PROVE  UNCHANGED L!vars
  BY <1>6, <1>a DEF Moving, Stays, L!vars
<1> QED
  <2>1. ASSUME NEW t \in Requests, CommitPurge(t)
        PROVE  L!Next
    BY <1>5, <2>1 DEF L!Next
  <2>2. ASSUME NEW t \in Requests, Beginning(t) \/ Commit(t)
        PROVE  L!Next
    BY <1>2, <1>3, <2>2 DEF L!Next
  <2> QED
    BY <1>1, <1>4, <1>6, <2>1, <2>2, Steps DEF L!vars

\* The journal keeps the promise of its module.
THEOREM JournalImplementsLedger == Spec => ImplementsLedger
<1>1. Init => L!Init
  BY DEF Init, L!Init, LeavesOf
<1>2. JournalInv /\ [Next]_vars => [L!Next]_(L!vars)
  BY LedgerStep
<1> QED
  BY JournalAgrees, <1>1, <1>2, PTL DEF Spec, ImplementsLedger, L!Spec
=============================================================================
