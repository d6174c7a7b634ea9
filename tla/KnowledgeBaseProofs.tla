------------------------ MODULE KnowledgeBaseProofs ------------------------
(***************************************************************************)
(* The inductive invariant of KnowledgeBase, for every set of sessions,    *)
(* codes, fields and values and every bound on versions.                   *)
(***************************************************************************)
EXTENDS KnowledgeBase, TLAPS

\* The table, the locks and the inserted rows are all the invariants about
\* committed and inserted rows look at.
LEMMA TableUntouched ==
    ASSUME IInv, UNCHANGED <<docs, locks, mine>>
    PROVE  CurrentIsLatest' /\ VersionsContiguous' /\ LocksExclusive' /\ InsertsCovered'
BY DEF IInv, CurrentIsLatest, VersionsContiguous, LocksExclusive, InsertsCovered,
       Committed

LEMMA InitialRowType ==
    ASSUME NEW n \in 0 .. InitialCount, NEW v \in Versions
    PROVE  InitialRow(v, n) \in Rows /\ InitialRow(v, n) # None
<1>1. InitialRow(v, n) \in Rows
  BY KBAssumption DEF InitialRow, Rows, Versions, Contents
<1>2. QED
  BY <1>1, KBAssumption

\* The initial table holds versions 1 .. n of every code, the last current.
LEMMA InitIInv == Init => IInv
<1> SUFFICES ASSUME Init PROVE IInv
  OBVIOUS
<1> USE KBAssumption
<1>0. PICK n \in 0 .. InitialCount :
        docs = [c \in Codes |-> [v \in Versions |->
                   IF v <= n THEN InitialRow(v, n) ELSE None]]
  BY DEF Init
<1>1. \A v \in Versions : InitialRow(v, n) \in Rows
  BY InitialRowType
<1>2. TypeOK
  <2>1. SeedContent \in Payloads
    BY DEF Payloads, Contents
  <2>2. NoRows \in [Codes -> [Versions -> Rows \cup {None}]]
    BY DEF NoRows
  <2>3. docs \in [Codes -> [Versions -> Rows \cup {None}]]
    BY <1>0, <1>1
  <2>4. QED
    BY <2>1, <2>2, <2>3 DEF Init, TypeOK
<1>3. CurrentIsLatest
  <2> SUFFICES ASSUME NEW c \in Codes, NEW v \in Versions, docs[c][v] # None
               PROVE  docs[c][v].current <=>
                      \A w \in Versions : docs[c][w] # None => w <= v
    BY DEF CurrentIsLatest, Committed
  <2>1. \A w \in Versions : docs[c][w] # None <=> w <= n
    BY <1>0, <1>1
  <2>2. v <= n /\ docs[c][v].current = (v = n)
    BY <1>0, <2>1 DEF InitialRow
  <2>3. n \in Nat /\ v \in Nat /\ n <= MaxVersion
    BY DEF Versions
  <2>4. n \in Versions
    BY <2>2, <2>3 DEF Versions
  <2>5. (\A w \in Versions : docs[c][w] # None => w <= v) <=> v = n
    BY <2>1, <2>2, <2>3, <2>4 DEF Versions
  <2>6. QED
    BY <2>2, <2>5
<1>4. VersionsContiguous
  BY <1>0, <1>1 DEF VersionsContiguous, Committed, Versions
<1>5. SessionShape /\ LocksExclusive /\ LocksCommitted /\ NextVersionCovered
  BY DEF Init, SessionShape, LocksExclusive, LocksCommitted, NextVersionCovered, Running
<1>6. InsertsCovered
  BY DEF Init, InsertsCovered, NoRows
<1>7. QED
  BY <1>2, <1>3, <1>4, <1>5, <1>6 DEF IInv

-----------------------------------------------------------------------------
\* A rollback takes back only what nobody else could see.
LEMMA RollbackIInv ==
    ASSUME IInv, NEW t \in Txns, NEW o \in Outcomes, Rollback(t, o)
    PROVE  IInv'
<1> USE DEF Rollback, Release
<1>0. TypeOK
  BY DEF IInv
<1>1. TypeOK'
  <2>1. NoRows \in [Codes -> [Versions -> Rows \cup {None}]]
    BY DEF NoRows
  <2>2. QED
    BY <1>0, <2>1, KBAssumption DEF TypeOK
<1>2. CurrentIsLatest' /\ VersionsContiguous'
  BY DEF IInv, CurrentIsLatest, VersionsContiguous, Committed
<1>3. SessionShape'
  BY <1>0 DEF IInv, TypeOK, SessionShape, Outcomes, Running
<1>4. LocksExclusive'
  BY <1>0 DEF IInv, TypeOK, LocksExclusive
<1>5. LocksCommitted'
  BY <1>0 DEF IInv, TypeOK, LocksCommitted
<1>6. NextVersionCovered'
  BY <1>0 DEF IInv, TypeOK, NextVersionCovered, Outcomes
<1>7. InsertsCovered'
  BY <1>0 DEF IInv, TypeOK, InsertsCovered, NoRows
<1>8. QED
  BY <1>1, <1>2, <1>3, <1>4, <1>5, <1>6, <1>7 DEF IInv

\* Moving on to the next code, or out of the loop.
LEMMA NextCodeShape ==
    ASSUME TypeOK, NEW t \in Txns, NEW S \in SUBSET Codes, NextCode(t, S)
    PROVE  /\ pc' \in [Txns -> {"idle"} \cup Running \cup Outcomes]
           /\ left' \in [Txns -> SUBSET Codes]
           /\ code' \in [Txns -> Codes \cup {None}]
           /\ pc'[t] \in {"commit", "get_current"}
           /\ pc'[t] = "get_current" => code'[t] \in Codes
           /\ \A u \in Txns \ {t} : pc'[u] = pc[u] /\ code'[u] = code[u]
<1> USE DEF TypeOK, Running
<1>1. CASE S = {} /\ pc' = [pc EXCEPT ![t] = "commit"] /\ UNCHANGED <<code, left>>
  BY <1>1
<1>2. ASSUME NEW c \in S,
             pc' = [pc EXCEPT ![t] = "get_current"],
             code' = [code EXCEPT ![t] = c],
             left' = [left EXCEPT ![t] = S \ {c}]
      PROVE  /\ pc' \in [Txns -> {"idle"} \cup Running \cup Outcomes]
             /\ left' \in [Txns -> SUBSET Codes]
             /\ code' \in [Txns -> Codes \cup {None}]
             /\ pc'[t] \in {"commit", "get_current"}
             /\ pc'[t] = "get_current" => code'[t] \in Codes
             /\ \A u \in Txns \ {t} : pc'[u] = pc[u] /\ code'[u] = code[u]
  <2>1. pc' \in [Txns -> {"idle"} \cup Running \cup Outcomes]
    BY <1>2
  <2>2. left' \in [Txns -> SUBSET Codes]
    BY <1>2
  <2>3. c \in Codes /\ code' \in [Txns -> Codes \cup {None}]
    BY <1>2
  <2>4. QED
    BY <1>2, <2>1, <2>2, <2>3
<1>3. QED
  BY <1>1, <1>2 DEF NextCode

\* A step that leaves the table, the locks and the inserted rows alone and
\* brings its session neither to the rows nor to the INSERT.
LEMMA OutsideTable ==
    ASSUME IInv, TypeOK', SessionShape', NEW t \in Txns,
           UNCHANGED <<docs, locks, mine, pend, newv>>,
           pc[t] \notin {"update", "lock_rows", "insert"},
           pc'[t] \notin {"update", "lock_rows", "insert"},
           \A u \in Txns \ {t} : pc'[u] = pc[u] /\ code'[u] = code[u]
    PROVE  IInv'
<1>1. CurrentIsLatest' /\ VersionsContiguous' /\ LocksExclusive' /\ InsertsCovered'
  BY TableUntouched
<1>2. LocksCommitted'
  BY DEF IInv, LocksCommitted, SessionShape
<1>3. NextVersionCovered'
  BY DEF IInv, NextVersionCovered
<1>4. QED
  BY <1>1, <1>2, <1>3 DEF IInv

\* A request arrives.
LEMMA ReceiveIInv ==
    ASSUME IInv, NEW t \in Txns, NEW k \in {"create", "update"}, NEW c \in Codes,
           NEW p \in Bodies, Receive(t, k, c, p)
    PROVE  IInv'
<1> USE DEF Receive
<1>1. p \in Payloads /\ (k = "create" => p \in Contents)
  BY KBAssumption DEF Payloads, Contents
<1>2. TypeOK'
  BY <1>1, NextCodeShape DEF IInv, TypeOK, Kinds
<1>3. SessionShape'
  BY <1>1, NextCodeShape DEF IInv, TypeOK, SessionShape, Running
<1>4. QED
  BY <1>2, <1>3, OutsideTable, NextCodeShape DEF IInv

\* The seed script starts.
LEMMA StartSeedIInv ==
    ASSUME IInv, NEW t \in Txns, StartSeed(t)
    PROVE  IInv'
<1> USE DEF StartSeed
<1>1. SeedContent \in Payloads /\ SeedContent \in Contents
  BY KBAssumption DEF Payloads, Contents
<1>2. SeedCodes \in SUBSET Codes
  BY KBAssumption
<1>3. TypeOK'
  BY <1>1, <1>2, NextCodeShape DEF IInv, TypeOK, Kinds
<1>4. SessionShape'
  BY <1>1, <1>2, NextCodeShape DEF IInv, TypeOK, SessionShape, Running
<1>5. QED
  BY <1>2, <1>3, <1>4, OutsideTable, NextCodeShape DEF IInv

\* The seed script passes over an existing code.
LEMMA SkipExistingIInv ==
    ASSUME IInv, NEW t \in Txns, SkipExisting(t)
    PROVE  IInv'
<1> USE DEF SkipExisting
<1>1. left[t] \in SUBSET Codes
  BY DEF IInv, TypeOK
<1>2. TypeOK'
  BY <1>1, NextCodeShape DEF IInv, TypeOK
<1>3. SessionShape'
  BY <1>1, NextCodeShape DEF IInv, TypeOK, SessionShape, Running
<1>4. QED
  BY <1>1, <1>2, <1>3, OutsideTable, NextCodeShape DEF IInv

\* A session has read the current version and goes on to create_new_version.
LEMMA PrepareNewIInv ==
    ASSUME IInv, NEW t \in Txns, PrepareNew(t)
    PROVE  IInv'
<1> USE DEF PrepareNew
<1>1. payload[t] \in Contents
  BY DEF IInv, SessionShape
<1>2. TypeOK'
  BY <1>1 DEF IInv, TypeOK, Running
<1>3. SessionShape'
  BY <1>1, KBAssumption DEF IInv, TypeOK, SessionShape, Running
<1>4. QED
  BY <1>2, <1>3, OutsideTable DEF IInv, TypeOK

LEMMA MergeContent ==
    ASSUME NEW old \in Contents, NEW p \in Payloads
    PROVE  Merge(old, p) \in Contents
BY DEF Merge, Contents, Payloads

LEMMA PrepareUpdateIInv ==
    ASSUME IInv, NEW t \in Txns, PrepareUpdate(t)
    PROVE  IInv'
<1> USE DEF PrepareUpdate
<1>1. PICK v \in CurrentVersions(code[t]) :
        /\ base' = [base EXCEPT ![t] = v]
        /\ draft' = [draft EXCEPT ![t] = Merge(docs[code[t]][v].content, payload[t])]
  OBVIOUS
<1>2. code[t] \in Codes /\ v \in Versions /\ docs[code[t]][v] \in Rows
  BY DEF IInv, TypeOK, SessionShape, Running, CurrentVersions, CurrentIn
<1>3. Merge(docs[code[t]][v].content, payload[t]) \in Contents
  BY <1>2, MergeContent DEF IInv, TypeOK, Rows
<1>4. v \in 0 .. MaxVersion
  BY <1>2, KBAssumption DEF Versions
<1>5. TypeOK'
  BY <1>1, <1>3, <1>4 DEF IInv, TypeOK, Running
<1>6. SessionShape'
  BY <1>1, <1>3, KBAssumption DEF IInv, TypeOK, SessionShape, Running
<1>7. QED
  BY <1>5, <1>6, OutsideTable DEF IInv, TypeOK

-----------------------------------------------------------------------------
\* new_version is one more than the highest version, so that every version
\* below it exists.
LEMMA SelectMaxIInv ==
    ASSUME IInv, NEW t \in Txns, SelectMax(t)
    PROVE  IInv'
<1> USE DEF SelectMax
<1>1. PICK m \in 0 .. MaxVersion :
        m < MaxVersion /\ IsLatest(code[t], m) /\ newv' = [newv EXCEPT ![t] = m + 1]
  OBVIOUS
<1>2. code[t] \in Codes
  BY DEF IInv, SessionShape, Running
<1>3. m + 1 \in Versions /\ m + 1 \in 0 .. MaxVersion
  BY <1>1, KBAssumption DEF Versions
<1>4. \A v \in Versions : v < m + 1 => docs[code[t]][v] # None
  <2> TAKE v \in Versions
  <2> HAVE v < m + 1
  <2>1. v \in Nat /\ m \in Nat /\ v <= m /\ v >= 1
    BY KBAssumption DEF Versions
  <2>2. m \in Versions /\ docs[code[t]][m] # None
    BY <1>1, <2>1 DEF IsLatest, Committed
  <2>3. QED
    BY <1>2, <2>1, <2>2 DEF IInv, VersionsContiguous, Committed
<1>5. TypeOK'
  BY <1>1, <1>3 DEF IInv, TypeOK, Running
<1>6. SessionShape'
  BY <1>1, <1>3 DEF IInv, TypeOK, SessionShape, Running
<1>7. CurrentIsLatest' /\ VersionsContiguous' /\ LocksExclusive' /\ InsertsCovered'
  BY TableUntouched
<1>8. LocksCommitted'
  BY DEF IInv, TypeOK, LocksCommitted
<1>9. NextVersionCovered'
  BY <1>1, <1>4 DEF IInv, TypeOK, NextVersionCovered
<1>10. QED
  BY <1>5, <1>6, <1>7, <1>8, <1>9 DEF IInv

\* The UPDATE starts: its row set covers the versions below new_version.
LEMMA UpdateStartIInv ==
    ASSUME IInv, NEW t \in Txns, UpdateStart(t)
    PROVE  IInv'
<1> USE DEF UpdateStart
<1>1. code[t] \in Codes
  BY DEF IInv, SessionShape, Running
<1>2. TypeOK'
  BY DEF IInv, TypeOK, Running, Committed
<1>3. SessionShape'
  BY DEF IInv, TypeOK, SessionShape, Running
<1>4. CurrentIsLatest' /\ VersionsContiguous' /\ LocksExclusive' /\ InsertsCovered'
  BY TableUntouched
<1>5. LocksCommitted'
  BY DEF IInv, TypeOK, LocksCommitted, Committed
<1>6. NextVersionCovered'
  BY DEF IInv, TypeOK, NextVersionCovered, Committed
<1>7. QED
  BY <1>2, <1>3, <1>4, <1>5, <1>6 DEF IInv

\* One more row is locked.
LEMMA LockRowIInv ==
    ASSUME IInv, NEW t \in Txns, NEW x \in Versions, LockRow(t, x)
    PROVE  IInv'
<1> USE DEF LockRow
<1>1. code[t] \in Codes
  BY DEF IInv, SessionShape, Running
<1>2. TypeOK'
  BY <1>1 DEF IInv, TypeOK
<1>3. SessionShape'
  BY DEF IInv, TypeOK, SessionShape, Running
<1>4. CurrentIsLatest' /\ VersionsContiguous'
  BY DEF IInv, CurrentIsLatest, VersionsContiguous, Committed
<1>5. LocksExclusive'
  <2> SUFFICES ASSUME NEW u1 \in Txns, NEW u2 \in Txns, u1 # u2, NEW r,
                      r \in locks'[u1], r \in locks'[u2]
               PROVE  FALSE
    BY DEF LocksExclusive
  <2>1. \A u \in Txns : locks'[u] =
            IF u = t THEN locks[t] \cup {<<code[t], x>>} ELSE locks[u]
    BY DEF IInv, TypeOK
  <2>2. \A u \in Txns \ {t} : <<code[t], x>> \notin locks[u]
    BY DEF LockedByOther
  <2>3. ~(r \in locks[u1] /\ r \in locks[u2])
    BY DEF IInv, LocksExclusive
  <2>4. QED
    BY <2>1, <2>2, <2>3
<1>6. LocksCommitted'
  BY <1>1 DEF IInv, TypeOK, LocksCommitted
<1>7. NextVersionCovered'
  BY DEF IInv, TypeOK, NextVersionCovered
<1>8. InsertsCovered'
  BY DEF IInv, TypeOK, InsertsCovered
<1>9. QED
  BY <1>2, <1>3, <1>4, <1>5, <1>6, <1>7, <1>8 DEF IInv

\* The UPDATE is over: every version below new_version is locked.
LEMMA UpdateEndIInv ==
    ASSUME IInv, NEW t \in Txns, UpdateEnd(t)
    PROVE  IInv'
<1> USE DEF UpdateEnd
<1>1. TypeOK'
  BY DEF IInv, TypeOK, Running
<1>2. SessionShape'
  BY DEF IInv, TypeOK, SessionShape, Running
<1>3. CurrentIsLatest' /\ VersionsContiguous' /\ LocksExclusive' /\ InsertsCovered'
  BY TableUntouched
<1>4. LocksCommitted'
  BY DEF IInv, TypeOK, LocksCommitted
<1>5. NextVersionCovered'
  BY DEF IInv, TypeOK, NextVersionCovered
<1>6. QED
  BY <1>1, <1>2, <1>3, <1>4, <1>5 DEF IInv

\* The new row goes in: its key is free and every older version is locked.
LEMMA InsertIInv ==
    ASSUME IInv, NEW t \in Txns, Insert(t)
    PROVE  IInv'
<1> DEFINE c0 == code[t]
           w0 == newv[t]
<1> USE DEF Insert
<1>1. c0 \in Codes /\ w0 \in Versions /\ draft[t] \in Contents
  BY DEF IInv, TypeOK, SessionShape, Running
<1>2. left[t] \in SUBSET Codes
  BY DEF IInv, TypeOK
<1>3. NewRow(t) \in Rows
  <2>1. DOMAIN payload[t] \in SUBSET Fields
    BY DEF IInv, TypeOK, Payloads
  <2>2. base[t] \in 0 .. MaxVersion
    BY DEF IInv, TypeOK
  <2>3. QED
    BY <1>1, <2>1, <2>2 DEF NewRow, Rows
<1>4. NewRow(t).current /\ NewRow(t) # None
  BY <1>3, KBAssumption DEF NewRow
<1>5. \A u \in Txns, c \in Codes, w \in Versions : mine'[u][c][w] =
          IF u = t /\ c = c0 /\ w = w0 THEN NewRow(t) ELSE mine[u][c][w]
  BY <1>1 DEF IInv, TypeOK
<1>6. NextCode(t, left[t]) /\ TypeOK
  BY DEF IInv
<1>7. /\ pc' \in [Txns -> {"idle"} \cup Running \cup Outcomes]
      /\ left' \in [Txns -> SUBSET Codes]
      /\ code' \in [Txns -> Codes \cup {None}]
      /\ pc'[t] \in {"commit", "get_current"}
      /\ pc'[t] = "get_current" => code'[t] \in Codes
      /\ \A u \in Txns \ {t} : pc'[u] = pc[u] /\ code'[u] = code[u]
  BY <1>2, <1>6, NextCodeShape
<1>8. TypeOK'
  <2>1. mine' \in [Txns -> [Codes -> [Versions -> Rows \cup {None}]]]
    BY <1>1, <1>3 DEF IInv, TypeOK
  <2>2. QED
    BY <1>7, <2>1, KBAssumption DEF IInv, TypeOK
<1>9. CurrentIsLatest' /\ VersionsContiguous' /\ LocksExclusive'
  BY DEF IInv, CurrentIsLatest, VersionsContiguous, LocksExclusive, Committed
<1>10. SessionShape'
  BY <1>7 DEF IInv, TypeOK, SessionShape, Running
<1>11. LocksCommitted'
  <2>0. pend[t] = {}
    BY DEF IInv, SessionShape
  <2> SUFFICES ASSUME NEW u \in Txns
               PROVE  /\ \A v \in pend[u] : docs[code'[u]][v] # None
                      /\ \A c \in Codes, v \in Versions : <<c, v>> \in locks[u] =>
                            /\ docs[c][v] # None
                            /\ \/ \E w \in Versions : mine'[u][c][w] # None
                               \/ pc'[u] \in {"lock_rows", "insert"} /\ c = code'[u]
    BY DEF LocksCommitted
  <2>1. CASE u = t
    BY <2>0, <2>1, <1>1, <1>4, <1>5 DEF IInv, LocksCommitted
  <2>2. CASE u # t
    BY <2>2, <1>5, <1>7 DEF IInv, LocksCommitted
  <2>3. QED
    BY <2>1, <2>2
<1>12. NextVersionCovered'
  BY <1>7 DEF IInv, TypeOK, NextVersionCovered
<1>13. InsertsCovered'
  <2>1. docs[c0][w0] = None /\ \A u \in Txns \ {t} : mine[u][c0][w0] = None
    BY DEF InsertedByOther
  <2>2. \A v \in Versions : v < w0 => docs[c0][v] # None /\ <<c0, v>> \in locks[t]
    BY DEF IInv, NextVersionCovered
  <2> SUFFICES ASSUME NEW u \in Txns, NEW c \in Codes, NEW w \in Versions,
                      mine'[u][c][w] # None
               PROVE  /\ mine'[u][c][w].current
                      /\ docs[c][w] = None
                      /\ \A v \in Versions : v < w => docs[c][v] # None /\ <<c, v>> \in locks[u]
                      /\ \A u2 \in Txns \ {u} : mine'[u2][c][w] = None
    BY DEF InsertsCovered
  <2>3. CASE u = t /\ c = c0 /\ w = w0
    BY <2>1, <2>2, <2>3, <1>4, <1>5
  <2>4. CASE ~(u = t /\ c = c0 /\ w = w0)
    BY <2>1, <2>4, <1>5 DEF IInv, InsertsCovered
  <2>5. QED
    BY <2>3, <2>4
<1>14. QED
  BY <1>8, <1>9, <1>10, <1>11, <1>12, <1>13 DEF IInv

-----------------------------------------------------------------------------
LEMMA InsertFacts ==
    ASSUME IInv, NEW t \in Txns, NEW c \in Codes, NEW w \in Versions, mine[t][c][w] # None
    PROVE  /\ docs[c][w] = None
           /\ \A v \in Versions : v < w => docs[c][v] # None
<1>1. docs[c][w] = None
  BY DEF IInv, InsertsCovered
<1>2. \A v \in Versions : v < w => docs[c][v] # None
  BY KBAssumption DEF IInv, InsertsCovered, Versions
<1>3. QED
  BY <1>1, <1>2

\* w is the version of c a commit of t publishes: above every older one, which
\* is no longer current.
IsNextVersion(t, c, w) ==
    /\ docs[c][w] = None /\ mine[t][c][w] # None
    /\ Published(t, c)[w] = mine[t][c][w]
    /\ Published(t, c)[w].current
    /\ \A v \in Versions : v < w =>
          /\ docs[c][v] # None
          /\ Published(t, c)[v] = [docs[c][v] EXCEPT !.current = FALSE]
    /\ \A v \in Versions : v > w => docs[c][v] = None /\ Published(t, c)[v] = None
    /\ \A v \in Versions : v # w => mine[t][c][v] = None

\* What a commit publishes for one code: nothing new, or the next version
\* with every older one no longer current.
LEMMA PublishedShape ==
    ASSUME IInv, NEW t \in Txns, pc[t] = "commit", NEW c \in Codes
    PROVE  \/ \A v \in Versions : mine[t][c][v] = None /\ Published(t, c)[v] = docs[c][v]
           \/ \E w \in Versions : IsNextVersion(t, c, w)
<1>1. CASE \A v \in Versions : mine[t][c][v] = None
  <2>1. \A v \in Versions : <<c, v>> \notin locks[t]
    BY <1>1 DEF IInv, LocksCommitted
  <2>2. QED
    BY <1>1, <2>1 DEF Published
<1>2. ASSUME NEW w \in Versions, mine[t][c][w] # None
      PROVE  IsNextVersion(t, c, w)
  <2>1. /\ docs[c][w] = None
        /\ mine[t][c][w].current
        /\ \A v \in Versions : v < w => docs[c][v] # None /\ <<c, v>> \in locks[t]
    BY <1>2 DEF IInv, InsertsCovered
  <2>2. \A v \in Versions : v > w => docs[c][v] = None
    BY <2>1 DEF IInv, VersionsContiguous, Committed
  <2>3. ASSUME NEW v \in Versions, v # w, mine[t][c][v] # None
        PROVE  FALSE
    <3>1. v < w \/ w < v
      BY <2>3, KBAssumption DEF Versions
    <3>0. docs[c][v] = None /\ \A x \in Versions : x < v => docs[c][x] # None
      BY <2>3, InsertFacts
    <3>2. CASE v < w
      BY <2>1, <3>0, <3>2
    <3>3. CASE w < v
      BY <2>1, <3>0, <3>3
    <3>4. QED
      BY <3>1, <3>2, <3>3
  <2>4. \A v \in Versions : v > w => <<c, v>> \notin locks[t]
    BY <2>2 DEF IInv, LocksCommitted
  <2>5. \A v \in Versions : v < w => v # w /\ ~(v > w)
    BY KBAssumption DEF Versions
  <2>6. \A v \in Versions : v > w => v # w
    BY KBAssumption DEF Versions
  <2>7. QED
    BY <1>2, <2>1, <2>2, <2>3, <2>4, <2>5, <2>6 DEF Published, IsNextVersion
<1>3. QED
  BY <1>1, <1>2

\* What the other sessions rely on survives a commit: committed rows stay.
LEMMA PublishedKeeps ==
    ASSUME IInv, NEW t \in Txns, pc[t] = "commit", NEW c \in Codes, NEW v \in Versions,
           docs[c][v] # None
    PROVE  Published(t, c)[v] # None
<1>1. docs[c][v] \in Rows
  BY DEF IInv, TypeOK
<1>2. [docs[c][v] EXCEPT !.current = FALSE] \in Rows
  BY <1>1 DEF Rows
<1>3. QED
  BY <1>2, KBAssumption DEF Published

LEMMA PublishedType ==
    ASSUME IInv, NEW t \in Txns, NEW c \in Codes
    PROVE  Published(t, c) \in [Versions -> Rows \cup {None}]
<1> SUFFICES ASSUME NEW v \in Versions PROVE Published(t, c)[v] \in Rows \cup {None}
  BY DEF Published
<1>1. mine[t][c][v] \in Rows \cup {None} /\ docs[c][v] \in Rows \cup {None}
  BY DEF IInv, TypeOK
<1>2. <<c, v>> \in locks[t] => docs[c][v] \in Rows
  BY <1>1 DEF IInv, LocksCommitted
<1>3. docs[c][v] \in Rows => [docs[c][v] EXCEPT !.current = FALSE] \in Rows
  BY DEF Rows
<1>4. QED
  BY <1>1, <1>2, <1>3 DEF Published

\* The rows and the locks of a session become visible at once.
LEMMA CommitIInv ==
    ASSUME IInv, NEW t \in Txns, Commit(t)
    PROVE  IInv'
<1> USE DEF Commit, Release
<1>1. /\ pc[t] = "commit"
      /\ \A c \in Codes : docs'[c] = Published(t, c)
      /\ mine' = [mine EXCEPT ![t] = NoRows]
      /\ locks' = [locks EXCEPT ![t] = {}]
  OBVIOUS
<1>2. TypeOK'
  <2>1. NoRows \in [Codes -> [Versions -> Rows \cup {None}]]
    BY DEF NoRows
  <2>2. docs' \in [Codes -> [Versions -> Rows \cup {None}]]
    BY PublishedType
  <2>3. QED
    BY <2>1, <2>2, KBAssumption DEF IInv, TypeOK, Outcomes
<1>3. \A c \in Codes, v \in Versions : docs[c][v] # None => docs'[c][v] # None
  BY <1>1, PublishedKeeps
<1>4. CurrentIsLatest' /\ VersionsContiguous'
  <2> SUFFICES ASSUME NEW c \in Codes
               PROVE  /\ \A v \in Versions : docs'[c][v] # None =>
                            (docs'[c][v].current <=>
                                \A w \in Versions : docs'[c][w] # None => w <= v)
                      /\ \A v, w \in Versions :
                            v < w /\ docs'[c][w] # None => docs'[c][v] # None
    BY DEF CurrentIsLatest, VersionsContiguous, Committed
  <2>1. CASE \A v \in Versions : docs'[c][v] = docs[c][v]
    BY <2>1 DEF IInv, CurrentIsLatest, VersionsContiguous, Committed
  <2>2. ASSUME NEW w \in Versions,
               docs'[c][w] # None, docs'[c][w].current,
               \A v \in Versions : v < w =>
                   docs'[c][v] # None /\ docs'[c][v].current = FALSE,
               \A v \in Versions : v > w => docs'[c][v] = None
        PROVE  /\ \A v \in Versions : docs'[c][v] # None =>
                     (docs'[c][v].current <=>
                         \A x \in Versions : docs'[c][x] # None => x <= v)
               /\ \A v, x \in Versions :
                     v < x /\ docs'[c][x] # None => docs'[c][v] # None
    <3>1. \A v, x \in Versions : v < x \/ v = x \/ x < v
      BY KBAssumption DEF Versions
    <3>2. \A x \in Versions : docs'[c][x] # None <=> x <= w
      BY <2>2, KBAssumption DEF Versions
    <3>3. ASSUME NEW v \in Versions, docs'[c][v] # None
          PROVE  docs'[c][v].current <=> \A x \in Versions : docs'[c][x] # None => x <= v
      <4>1. CASE v = w
        BY <2>2, <3>2, <4>1
      <4>2. CASE v < w
        <5>1. ~(\A x \in Versions : docs'[c][x] # None => x <= v)
          BY <2>2, <4>2, KBAssumption DEF Versions
        <5>2. docs'[c][v].current = FALSE
          BY <2>2, <4>2
        <5>3. QED
          BY <5>1, <5>2
      <4>3. QED
        BY <3>1, <3>2, <3>3, <4>1, <4>2, KBAssumption DEF Versions
    <3>4. ASSUME NEW v \in Versions, NEW x \in Versions, v < x, docs'[c][x] # None
          PROVE  docs'[c][v] # None
      BY <3>2, <3>4, KBAssumption DEF Versions
    <3>5. QED
      BY <3>3, <3>4
  <2>3. CASE \E w \in Versions : IsNextVersion(t, c, w)
    <3>1. PICK w \in Versions : IsNextVersion(t, c, w)
      BY <2>3
    <3>2. ASSUME NEW v \in Versions, v < w
          PROVE  docs'[c][v] # None /\ docs'[c][v].current = FALSE
      <4>0. docs[c][v] # None
        BY <3>1, <3>2 DEF IsNextVersion
      <4>1. docs[c][v] \in Rows
        BY <4>0 DEF IInv, TypeOK
      <4>2. docs'[c][v] = [docs[c][v] EXCEPT !.current = FALSE]
        BY <1>1, <3>1, <3>2 DEF IsNextVersion
      <4>3. docs'[c][v].current = FALSE
        BY <4>1, <4>2 DEF Rows
      <4>4. QED
        BY <1>3, <4>0, <4>3
    <3>3. docs'[c][w] # None /\ docs'[c][w].current
      BY <1>1, <3>1 DEF IsNextVersion
    <3>4. \A v \in Versions : v > w => docs'[c][v] = None
      BY <1>1, <3>1 DEF IsNextVersion
    <3>5. QED
      BY <2>2, <3>2, <3>3, <3>4
  <2>4. QED
    BY <1>1, <2>1, <2>3, PublishedShape
<1>5. SessionShape'
  BY DEF IInv, TypeOK, SessionShape, Running
<1>6. LocksExclusive'
  BY DEF IInv, TypeOK, LocksExclusive
<1>7. LocksCommitted'
  <2> SUFFICES ASSUME NEW u \in Txns
               PROVE  /\ \A v \in pend'[u] : docs'[code'[u]][v] # None
                      /\ \A c \in Codes, v \in Versions : <<c, v>> \in locks'[u] =>
                            /\ docs'[c][v] # None
                            /\ \/ \E w \in Versions : mine'[u][c][w] # None
                               \/ pc'[u] \in {"lock_rows", "insert"} /\ c = code'[u]
    BY DEF LocksCommitted
  <2>1. CASE u = t
    BY <2>1 DEF IInv, TypeOK
  <2>2. CASE u # t
    <3>1. /\ pc'[u] = pc[u] /\ code'[u] = code[u] /\ pend'[u] = pend[u]
          /\ locks'[u] = locks[u] /\ mine'[u] = mine[u]
      BY <2>2 DEF IInv, TypeOK
    <3>2. \A v \in pend[u] : code[u] \in Codes /\ v \in Versions /\ docs[code[u]][v] # None
      BY DEF IInv, TypeOK, SessionShape, LocksCommitted, Running
    <3>3. QED
      BY <1>3, <3>1, <3>2 DEF IInv, LocksCommitted
  <2>3. QED
    BY <2>1, <2>2
<1>8. NextVersionCovered'
  <2> SUFFICES ASSUME NEW u \in Txns, NEW v \in Versions,
                      pc'[u] \in {"update", "lock_rows", "insert"}, v < newv'[u]
               PROVE  /\ docs'[code'[u]][v] # None
                      /\ pc'[u] = "lock_rows" => v \in pend'[u] \/ <<code'[u], v>> \in locks'[u]
                      /\ pc'[u] = "insert" => <<code'[u], v>> \in locks'[u]
    BY DEF NextVersionCovered
  <2>1. u # t
    BY DEF IInv, TypeOK
  <2>2. /\ pc'[u] = pc[u] /\ code'[u] = code[u] /\ pend'[u] = pend[u]
        /\ locks'[u] = locks[u] /\ newv'[u] = newv[u]
    BY <2>1 DEF IInv, TypeOK
  <2>3. code[u] \in Codes
    BY <2>2 DEF IInv, SessionShape, Running
  <2>4. QED
    BY <1>3, <2>2, <2>3 DEF IInv, NextVersionCovered
<1>9. InsertsCovered'
  <2> SUFFICES ASSUME NEW u \in Txns, NEW c \in Codes, NEW w \in Versions,
                      mine'[u][c][w] # None
               PROVE  /\ mine'[u][c][w].current
                      /\ docs'[c][w] = None
                      /\ \A v \in Versions : v < w => docs'[c][v] # None /\ <<c, v>> \in locks'[u]
                      /\ \A u2 \in Txns \ {u} : mine'[u2][c][w] = None
    BY DEF InsertsCovered
  <2>1. u # t
    BY DEF IInv, TypeOK, NoRows
  <2>2. mine'[u] = mine[u] /\ locks'[u] = locks[u]
    BY <2>1 DEF IInv, TypeOK
  <2>3. /\ mine[u][c][w].current
        /\ docs[c][w] = None
        /\ \A v \in Versions : v < w => docs[c][v] # None /\ <<c, v>> \in locks[u]
        /\ \A u2 \in Txns \ {u} : mine[u2][c][w] = None
    BY <2>2 DEF IInv, InsertsCovered
  <2>4. mine[t][c][w] = None
    BY <2>1, <2>3
  <2>5. <<c, w>> \notin locks[t]
    BY <2>3 DEF IInv, LocksCommitted
  <2>6. docs'[c][w] = None
    BY <1>1, <2>3, <2>4, <2>5 DEF Published
  <2>7. \A u2 \in Txns \ {u} : mine'[u2][c][w] = None
    BY <2>3 DEF IInv, TypeOK, NoRows
  <2>8. QED
    BY <1>3, <2>2, <2>3, <2>6, <2>7
<1>10. QED
  BY <1>2, <1>4, <1>5, <1>6, <1>7, <1>8, <1>9 DEF IInv

-----------------------------------------------------------------------------
\* Every step of a session preserves the invariant.
LEMMA NextIInv == IInv /\ [Next]_vars => IInv'
<1> SUFFICES ASSUME IInv, [Next]_vars PROVE IInv'
  OBVIOUS
<1>1. CASE UNCHANGED vars
  <2>1. CurrentIsLatest' /\ VersionsContiguous' /\ LocksExclusive' /\ InsertsCovered'
    BY <1>1, TableUntouched DEF vars
  <2>2. TypeOK' /\ SessionShape' /\ LocksCommitted' /\ NextVersionCovered'
    BY <1>1 DEF vars, IInv, TypeOK, SessionShape, LocksCommitted, NextVersionCovered
  <2>3. QED
    BY <2>1, <2>2 DEF IInv
<1>2. ASSUME NEW t \in Txns, Arrive(t)
      PROVE  IInv'
  BY <1>2, ReceiveIInv, StartSeedIInv DEF Arrive
<1>3. ASSUME NEW t \in Txns, Refuse(t)
      PROVE  IInv'
  <2>1. Refusal(t) \in Outcomes
    BY <1>3 DEF Refuse, Refusal, Outcomes
  <2>2. QED
    BY <1>3, <2>1, RollbackIInv DEF Refuse
<1>4. ASSUME NEW t \in Txns, InsertDuplicate(t) \/ DeadlockVictim(t) \/ Fail(t)
      PROVE  IInv'
  BY <1>4, RollbackIInv DEF InsertDuplicate, DeadlockVictim, Fail, Outcomes
<1>5. ASSUME NEW t \in Txns, Step(t)
      PROVE  IInv'
  BY <1>3, <1>4, <1>5, SkipExistingIInv, PrepareNewIInv, PrepareUpdateIInv, SelectMaxIInv,
     UpdateStartIInv, LockRowIInv, UpdateEndIInv, InsertIInv, CommitIInv DEF Step
<1>6. QED
  BY <1>1, <1>2, <1>4, <1>5 DEF Next, AllAnswered

-----------------------------------------------------------------------------
\* Only a commit changes what other sessions can read.
LEMMA OnlyCommitPublishes ==
    ASSUME [Next]_vars
    PROVE  UNCHANGED docs \/ \E t \in Txns : Commit(t)
<1>1. ASSUME NEW t \in Txns, Arrive(t)
      PROVE  UNCHANGED docs
  BY <1>1 DEF Arrive, Receive, StartSeed
<1>2. ASSUME NEW t \in Txns, Step(t)
      PROVE  UNCHANGED docs \/ Commit(t)
  BY <1>2 DEF Step, Refuse, SkipExisting, PrepareNew, PrepareUpdate, SelectMax, UpdateStart,
     LockRow, UpdateEnd, Insert, InsertDuplicate, DeadlockVictim, Rollback
<1>3. ASSUME NEW t \in Txns, Fail(t)
      PROVE  UNCHANGED docs
  BY <1>3 DEF Fail, Rollback
<1>4. CASE AllAnswered \/ UNCHANGED vars
  BY <1>4 DEF AllAnswered, vars
<1>5. QED
  BY <1>1, <1>2, <1>3, <1>4 DEF Next

\* A commit keeps every committed version and its content.
LEMMA VersionsKept ==
    ASSUME IInv, [Next]_vars, NEW c \in Codes, NEW v \in Versions, docs[c][v] # None
    PROVE  /\ docs'[c][v] # None
           /\ docs'[c][v] = docs[c][v]
              \/ docs'[c][v] = [docs[c][v] EXCEPT !.current = FALSE]
<1>1. CASE UNCHANGED docs
  BY <1>1
<1>2. ASSUME NEW t \in Txns, Commit(t)
      PROVE  /\ docs'[c][v] # None
             /\ docs'[c][v] = docs[c][v]
                \/ docs'[c][v] = [docs[c][v] EXCEPT !.current = FALSE]
  <2>1. docs'[c] = Published(t, c) /\ pc[t] = "commit"
    BY <1>2 DEF Commit
  <2>2. mine[t][c][v] = None
    BY InsertFacts
  <2>3. docs'[c][v] # None
    BY <2>1, PublishedKeeps
  <2>4. QED
    BY <2>1, <2>2, <2>3 DEF Published
<1>3. QED
  BY <1>1, <1>2, OnlyCommitPublishes

LEMMA ContentKept ==
    ASSUME IInv, [Next]_vars, NEW c \in Codes, NEW v \in Committed(c)
    PROVE  v \in Committed(c)' /\ docs'[c][v].content = docs[c][v].content
<1>1. v \in Versions /\ docs[c][v] # None /\ docs[c][v] \in Rows
  BY DEF Committed, IInv, TypeOK
<1>2. [docs[c][v] EXCEPT !.current = FALSE].content = docs[c][v].content
  BY <1>1 DEF Rows
<1>3. QED
  BY <1>1, <1>2, VersionsKept DEF Committed

-----------------------------------------------------------------------------
(* Where the fields come from that a PUT leaves out.                       *)

\* A row that descends from a version goes on to do so.
LEMMA DescentKept ==
    ASSUME IInv, [Next]_vars, NEW c \in Codes, NEW v \in Versions, NEW r,
           Descends(r, c, v)
    PROVE  Descends(r, c, v)'
BY ContentKept DEF Descends

\* The rows a session has inserted descend as long as it and the table stay.
LEMMA SameInserts ==
    ASSUME NEW t \in Txns, InsertsDescend(t), UNCHANGED docs, mine'[t] = mine[t]
    PROVE  InsertsDescend(t)'
<1>1. ASSUME NEW c \in Codes, NEW v \in Versions, mine'[t][c][v] # None
      PROVE  Descends(mine[t][c][v], c, v)'
  <2>1. mine'[t][c][v] = mine[t][c][v]
    OBVIOUS
  <2>2. Descends(mine[t][c][v], c, v)
    BY <1>1, <2>1 DEF InsertsDescend
  <2>3. QED
    BY <2>1, <2>2 DEF Descends, Committed
<1>2. QED
  BY <1>1 DEF InsertsDescend

\* A step that changes no table and no inserted row keeps the invariant if the
\* draft of its session descends from a version.
LEMMA QuietDescent ==
    ASSUME KBInv, IInv', [Next]_vars, UNCHANGED docs, NEW t \in Txns, DraftDescends(t)',
           InsertsDescend(t)',
           \A u \in Txns \ {t} :
              /\ pc'[u] = pc[u] /\ payload'[u] = payload[u] /\ base'[u] = base[u]
              /\ code'[u] = code[u] /\ newv'[u] = newv[u] /\ draft'[u] = draft[u]
              /\ mine'[u] = mine[u]
    PROVE  KBInv'
<1>1. UnsetFieldsFromOneAncestor'
  BY DEF KBInv, UnsetFieldsFromOneAncestor, Descends, Committed
<1>2. ASSUME NEW u \in Txns \ {t}
      PROVE  DraftDescends(u)' /\ InsertsDescend(u)'
  <2>1. DraftDescends(u) /\ InsertsDescend(u)
    BY DEF KBInv
  <2>2. DraftDescends(u)'
    BY <2>1 DEF DraftDescends, Committed
  <2>3. InsertsDescend(u)'
    BY <2>1, SameInserts
  <2>4. QED
    BY <2>2, <2>3
<1>3. QED
  BY <1>1, <1>2 DEF KBInv

\* A session that ends has no draft and no row left.
LEMMA RollbackDescent ==
    ASSUME KBInv, IInv', [Next]_vars, NEW t \in Txns, NEW o \in Outcomes, Rollback(t, o)
    PROVE  KBInv'
<1>1. pc'[t] = o /\ mine'[t] = NoRows /\ UNCHANGED docs
  BY DEF Rollback, Release, KBInv, IInv, TypeOK
<1>2. DraftDescends(t)' /\ InsertsDescend(t)'
  BY <1>1 DEF DraftDescends, InsertsDescend, NoRows, Outcomes
<1>3. QED
  BY <1>1, <1>2, QuietDescent DEF Rollback, Release, KBInv, IInv, TypeOK

\* Steps before create_new_version has been given a draft.
LEMMA LoopDescent ==
    ASSUME KBInv, IInv', [Next]_vars, NEW t \in Txns, NEW S \in SUBSET Codes, NextCode(t, S),
           UNCHANGED <<docs, base, draft, newv, mine>>,
           \A u \in Txns \ {t} : payload'[u] = payload[u]
    PROVE  KBInv'
<1>1. pc'[t] \in {"commit", "get_current"}
      /\ \A u \in Txns \ {t} : pc'[u] = pc[u] /\ code'[u] = code[u]
  BY NextCodeShape DEF KBInv, IInv
<1>2. DraftDescends(t)'
  BY <1>1 DEF DraftDescends
<1>3. InsertsDescend(t)'
  BY SameInserts DEF KBInv
<1>4. QED
  BY <1>1, <1>2, <1>3, QuietDescent

\* POST and the seed script leave nothing out.
LEMMA PrepareNewDescent ==
    ASSUME KBInv, IInv', [Next]_vars, NEW t \in Txns, PrepareNew(t)
    PROVE  KBInv'
<1>1. DOMAIN payload'[t] = Fields
  BY DEF PrepareNew, KBInv, IInv, SessionShape, Contents
<1>2. DraftDescends(t)'
  BY <1>1 DEF DraftDescends
<1>3. InsertsDescend(t)'
  BY SameInserts DEF PrepareNew, KBInv
<1>4. QED
  BY <1>2, <1>3, QuietDescent DEF PrepareNew, KBInv, IInv, TypeOK

\* PUT merges its body into the current version.
LEMMA PrepareUpdateDescent ==
    ASSUME KBInv, IInv', [Next]_vars, NEW t \in Txns, PrepareUpdate(t)
    PROVE  KBInv'
<1>1. PICK v \in CurrentVersions(code[t]) :
        /\ base' = [base EXCEPT ![t] = v]
        /\ draft' = [draft EXCEPT ![t] = Merge(docs[code[t]][v].content, payload[t])]
  BY DEF PrepareUpdate
<1>2. v \in Committed(code[t])
  BY DEF CurrentVersions, CurrentIn, Committed
<1>3. base'[t] = v /\ draft'[t] = Merge(docs[code[t]][v].content, payload[t])
      /\ pc'[t] = "select_max" /\ UNCHANGED <<docs, payload, code, mine>>
  BY <1>1 DEF PrepareUpdate, KBInv, IInv, TypeOK
<1>4. DraftDescends(t)'
  BY <1>2, <1>3 DEF DraftDescends, Merge, Committed
<1>5. InsertsDescend(t)'
  BY <1>3, SameInserts DEF KBInv
<1>6. QED
  BY <1>3, <1>4, <1>5, QuietDescent DEF PrepareUpdate, KBInv, IInv, TypeOK

\* new_version is above every committed version, the one merged with included.
LEMMA SelectMaxDescent ==
    ASSUME KBInv, IInv', [Next]_vars, NEW t \in Txns, SelectMax(t)
    PROVE  KBInv'
<1>1. PICK m \in 0 .. MaxVersion : IsLatest(code[t], m) /\ newv' = [newv EXCEPT ![t] = m + 1]
  BY DEF SelectMax
<1>2. newv'[t] = m + 1 /\ UNCHANGED <<docs, payload, code, base, draft, mine>>
  BY <1>1 DEF SelectMax, KBInv, IInv, TypeOK
<1>3. \A v \in Committed(code[t]) : v < m + 1
  BY <1>1, KBAssumption DEF IsLatest, Committed, Versions
<1>4. pc[t] = "select_max" /\ pc'[t] = "update" /\ DraftDescends(t) /\ InsertsDescend(t)
  BY DEF SelectMax, KBInv, IInv, TypeOK
<1>5. DraftDescends(t)'
  BY <1>2, <1>3, <1>4 DEF DraftDescends, Committed
<1>6. InsertsDescend(t)'
  BY <1>2, <1>4, SameInserts
<1>7. QED
  BY <1>2, <1>5, <1>6, QuietDescent DEF SelectMax, KBInv, IInv, TypeOK

\* The UPDATE concerns neither draft nor rows.
LEMMA UpdateDescent ==
    ASSUME KBInv, IInv', [Next]_vars, NEW t \in Txns,
           UpdateStart(t) \/ UpdateEnd(t) \/ \E v \in Versions : LockRow(t, v)
    PROVE  KBInv'
<1>1. UNCHANGED <<docs, payload, code, base, draft, newv, mine>>
  BY DEF UpdateStart, UpdateEnd, LockRow
<1>2. /\ pc[t] \in {"update", "lock_rows"} /\ pc'[t] \in {"lock_rows", "insert"}
      /\ \A u \in Txns \ {t} : pc'[u] = pc[u]
  BY DEF UpdateStart, UpdateEnd, LockRow, KBInv, IInv, TypeOK
<1>3. DraftDescends(t) /\ InsertsDescend(t)
  BY DEF KBInv
<1>4. DraftDescends(t)'
  BY <1>1, <1>2, <1>3 DEF DraftDescends, Committed
<1>5. InsertsDescend(t)'
  BY <1>1, <1>3, SameInserts
<1>6. QED
  BY <1>1, <1>2, <1>4, <1>5, QuietDescent

\* The row a session inserts descends from what its draft descended from.
LEMMA InsertDescent ==
    ASSUME KBInv, IInv', [Next]_vars, NEW t \in Txns, Insert(t)
    PROVE  KBInv'
<1> TypeOK
  BY DEF KBInv, IInv
<1>1. code[t] \in Codes /\ newv[t] \in Versions /\ pc[t] = "insert" /\ UNCHANGED docs
  BY DEF Insert, KBInv, IInv, SessionShape, Running
<1>2. \A c \in Codes, w \in Versions : mine'[t][c][w] =
          IF c = code[t] /\ w = newv[t] THEN NewRow(t) ELSE mine[t][c][w]
  BY <1>1 DEF Insert, TypeOK
<1>3. Descends(NewRow(t), code[t], newv[t])
  BY <1>1 DEF KBInv, DraftDescends, Descends, NewRow
<1>4. InsertsDescend(t)'
  <2> SUFFICES ASSUME NEW c \in Codes, NEW v \in Versions, mine'[t][c][v] # None
               PROVE  Descends(mine[t][c][v], c, v)'
    BY DEF InsertsDescend
  <2>1. CASE c = code[t] /\ v = newv[t]
    BY <1>1, <1>2, <1>3, <2>1 DEF Descends, Committed
  <2>2. CASE ~(c = code[t] /\ v = newv[t])
    <3>1. mine'[t][c][v] = mine[t][c][v] /\ Descends(mine[t][c][v], c, v)
      BY <1>2, <2>2 DEF KBInv, InsertsDescend
    <3>2. QED
      BY <1>1, <3>1 DEF Descends, Committed
  <2>3. QED
    BY <2>1, <2>2
<1>5. left[t] \in SUBSET Codes /\ NextCode(t, left[t])
  BY DEF Insert, TypeOK
<1>6. pc'[t] \in {"commit", "get_current"}
      /\ \A u \in Txns \ {t} : pc'[u] = pc[u] /\ code'[u] = code[u]
  BY <1>5, NextCodeShape
<1>7. DraftDescends(t)'
  BY <1>6 DEF DraftDescends
<1>8. \A u \in Txns \ {t} : /\ payload'[u] = payload[u] /\ base'[u] = base[u]
                             /\ newv'[u] = newv[u] /\ draft'[u] = draft[u]
                             /\ mine'[u] = mine[u]
  BY DEF Insert, TypeOK
<1>9. QED
  BY <1>1, <1>4, <1>6, <1>7, <1>8, QuietDescent

\* A commit publishes rows that descend; the ancestors of all others stay.
LEMMA CommitDescent ==
    ASSUME KBInv, IInv', [Next]_vars, NEW t \in Txns, Commit(t)
    PROVE  KBInv'
<1> TypeOK /\ IInv
  BY DEF KBInv, IInv
<1>1. /\ pc[t] = "commit" /\ pc'[t] = "done" /\ mine'[t] = NoRows
      /\ \A c \in Codes : docs'[c] = Published(t, c)
  BY DEF Commit, Release, TypeOK
<1>2. ASSUME NEW c \in Codes, NEW v \in Committed(c)'
      PROVE  Descends(docs[c][v], c, v)'
  <2>1. v \in Versions /\ docs'[c][v] # None
    BY DEF Committed
  <2>2. CASE mine[t][c][v] # None
    <3>1. Descends(mine[t][c][v], c, v)
      BY <2>1, <2>2 DEF KBInv, InsertsDescend
    <3>2. docs'[c][v] = mine[t][c][v]
      BY <1>1, <2>1, <2>2 DEF Published
    <3> DEFINE r == mine[t][c][v]
    <3>3. /\ r.set # Fields => r.base \in Committed(c)' /\ r.base < v
          /\ r.set # Fields => \A f \in Fields \ r.set :
                                   r.content[f] = docs'[c][r.base].content[f]
      BY <2>1, <3>1, ContentKept DEF Descends
    <3>4. QED
      BY <3>2, <3>3 DEF Descends
  <2>3. CASE mine[t][c][v] = None
    <3>1. docs'[c][v] = docs[c][v] \/ docs'[c][v] = [docs[c][v] EXCEPT !.current = FALSE]
      BY <1>1, <2>1, <2>3 DEF Published
    <3>2. docs[c][v] # None
      <4>1. CASE <<c, v>> \in locks[t]
        BY <2>1, <4>1 DEF IInv, LocksCommitted
      <4>2. CASE <<c, v>> \notin locks[t]
        BY <1>1, <2>1, <2>3, <4>2 DEF Published
      <4>3. QED
        BY <4>1, <4>2
    <3>3. docs[c][v] \in Rows /\ Descends(docs[c][v], c, v)
      BY <2>1, <3>2 DEF TypeOK, KBInv, UnsetFieldsFromOneAncestor, Committed
    <3>4. /\ docs'[c][v].set = docs[c][v].set /\ docs'[c][v].base = docs[c][v].base
          /\ docs'[c][v].content = docs[c][v].content
      BY <3>1, <3>3 DEF Rows
    <3>5. QED
      BY <3>3, <3>4, ContentKept DEF Descends
  <2>4. QED
    BY <2>2, <2>3
<1>3. ASSUME NEW u \in Txns
      PROVE  DraftDescends(u)' /\ InsertsDescend(u)'
  <2>1. CASE u = t
    BY <1>1, <2>1 DEF DraftDescends, InsertsDescend, NoRows
  <2>2. CASE u # t
    <3>1. /\ pc'[u] = pc[u] /\ payload'[u] = payload[u] /\ base'[u] = base[u]
          /\ code'[u] = code[u] /\ newv'[u] = newv[u] /\ draft'[u] = draft[u]
          /\ mine'[u] = mine[u]
      BY <2>2 DEF Commit, Release, TypeOK
    <3>2. DraftDescends(u) /\ InsertsDescend(u)
      BY DEF KBInv
    <3>3. pc[u] \in {"select_max", "update", "lock_rows", "insert"} => code[u] \in Codes
      BY DEF IInv, SessionShape, Running
    <3>4. DraftDescends(u)'
      BY <3>1, <3>2, <3>3, ContentKept DEF DraftDescends
    <3>5. InsertsDescend(u)'
      <4>1. ASSUME NEW c \in Codes, NEW v \in Versions, mine'[u][c][v] # None
            PROVE  Descends(mine[u][c][v], c, v)'
        <5> DEFINE r == mine[u][c][v]
        <5>1. mine'[u][c][v] = r
          BY <3>1
        <5>2. Descends(r, c, v)
          BY <3>2, <4>1, <5>1 DEF InsertsDescend
        <5>3. /\ r.set # Fields => r.base \in Committed(c)' /\ r.base < v
              /\ r.set # Fields => \A f \in Fields \ r.set :
                                       r.content[f] = docs'[c][r.base].content[f]
          BY <5>2, ContentKept DEF Descends
        <5>4. QED
          BY <5>1, <5>3 DEF Descends
      <4>2. QED
        BY <4>1 DEF InsertsDescend
    <3>6. QED
      BY <3>4, <3>5
  <2>3. QED
    BY <2>1, <2>2
<1>4. QED
  BY <1>2, <1>3 DEF KBInv, UnsetFieldsFromOneAncestor

\* Every step preserves the descent of drafts, inserted and committed rows.
LEMMA NextKBInv == KBInv /\ [Next]_vars => KBInv'
<1> SUFFICES ASSUME KBInv, [Next]_vars PROVE KBInv'
  OBVIOUS
<1>0. IInv /\ IInv'
  BY NextIInv DEF KBInv
<1>1. CASE UNCHANGED vars
  <2>1. UNCHANGED <<docs, pc, payload, base, code, newv, draft, mine>>
    BY <1>1 DEF vars
  <2>2. UnsetFieldsFromOneAncestor'
    BY <2>1 DEF KBInv, UnsetFieldsFromOneAncestor, Descends, Committed
  <2>3. ASSUME NEW t \in Txns
        PROVE  DraftDescends(t)' /\ InsertsDescend(t)'
    <3>1. DraftDescends(t)'
      BY <2>1 DEF KBInv, DraftDescends, Committed
    <3>2. InsertsDescend(t)'
      BY <2>1, SameInserts DEF KBInv
    <3>3. QED
      BY <3>1, <3>2
  <2>4. QED
    BY <1>0, <2>2, <2>3 DEF KBInv
<1>2. ASSUME NEW t \in Txns, Arrive(t)
      PROVE  KBInv'
  <2>1. PICK S \in SUBSET Codes : NextCode(t, S)
    BY <1>2, KBAssumption DEF Arrive, Receive, StartSeed
  <2>2. UNCHANGED <<docs, base, draft, newv, mine>>
        /\ \A u \in Txns \ {t} : payload'[u] = payload[u]
    BY <1>0, <1>2 DEF Arrive, Receive, StartSeed, IInv, TypeOK
  <2>3. QED
    BY <1>0, <2>1, <2>2, LoopDescent
<1>3. ASSUME NEW t \in Txns, SkipExisting(t)
      PROVE  KBInv'
  <2>1. left[t] \in SUBSET Codes /\ NextCode(t, left[t])
    BY <1>0, <1>3 DEF SkipExisting, IInv, TypeOK
  <2>2. UNCHANGED <<docs, payload, base, draft, newv, mine>>
    BY <1>3 DEF SkipExisting
  <2>3. QED
    BY <1>0, <2>1, <2>2, LoopDescent
<1>4. ASSUME NEW t \in Txns, Refuse(t) \/ InsertDuplicate(t) \/ DeadlockVictim(t) \/ Fail(t)
      PROVE  KBInv'
  <2>1. Refuse(t) => Refusal(t) \in Outcomes
    BY DEF Refuse, Refusal, Outcomes
  <2>2. "error" \in Outcomes
    BY DEF Outcomes
  <2>3. \E o \in Outcomes : Rollback(t, o)
    BY <1>4, <2>1, <2>2 DEF Refuse, InsertDuplicate, DeadlockVictim, Fail
  <2>4. QED
    BY <1>0, <2>3, RollbackDescent
<1>5. ASSUME NEW t \in Txns, Step(t)
      PROVE  KBInv'
  BY <1>0, <1>3, <1>4, <1>5, PrepareNewDescent, PrepareUpdateDescent, SelectMaxDescent,
     UpdateDescent, InsertDescent, CommitDescent DEF Step
<1>6. QED
  BY <1>1, <1>2, <1>4, <1>5 DEF Next, AllAnswered

LEMMA InitKBInv == Init => KBInv
<1> SUFFICES ASSUME Init PROVE KBInv
  OBVIOUS
<1>1. IInv
  BY InitIInv
<1>2. PICK n \in 0 .. InitialCount :
        docs = [c \in Codes |-> [v \in Versions |->
                   IF v <= n THEN InitialRow(v, n) ELSE None]]
  BY DEF Init
<1>3. UnsetFieldsFromOneAncestor
  BY <1>2 DEF UnsetFieldsFromOneAncestor, Descends, Committed, InitialRow
<1>4. \A t \in Txns : DraftDescends(t) /\ InsertsDescend(t)
  BY DEF Init, DraftDescends, InsertsDescend, NoRows
<1>5. QED
  BY <1>1, <1>3, <1>4 DEF KBInv

-----------------------------------------------------------------------------
(* The theorems.                                                           *)

\* The inductive invariant holds in every reachable state.
THEOREM InductiveInvariant == Spec => []KBInv
<1>1. Init => KBInv
  BY InitKBInv
<1>2. KBInv /\ [Next]_vars => KBInv'
  BY NextKBInv
<1>3. QED
  BY <1>1, <1>2, PTL DEF Spec

\* Every variable keeps its type, in particular the code a session works on
\* is one while it runs.
THEOREM TypeCorrect == Spec => []TypeOK
<1>1. KBInv => TypeOK
  BY DEF KBInv, IInv
<1>2. QED
  BY <1>1, InductiveInvariant, PTL

\* Of the committed versions of a code exactly the highest is current: no
\* interleaving of POST, PUT and the seed script leaves two current rows for
\* get_current_by_code, or none.
THEOREM CurrentVersionCorrect == Spec => []CurrentIsLatest
<1>1. KBInv => CurrentIsLatest
  BY DEF KBInv, IInv
<1>2. QED
  BY <1>1, InductiveInvariant, PTL

\* The versions of a code are 1, 2, ..., n without a gap.
THEOREM HistoryWithoutGaps == Spec => []VersionsContiguous
<1>1. KBInv => VersionsContiguous
  BY DEF KBInv, IInv
<1>2. QED
  BY <1>1, InductiveInvariant, PTL

\* What a partial PUT leaves out comes from one earlier version, however many
\* others publish between its read and its commit.
THEOREM UpdatesNeverMix == Spec => []UnsetFieldsFromOneAncestor
<1>1. KBInv => UnsetFieldsFromOneAncestor
  BY DEF KBInv
<1>2. QED
  BY <1>1, InductiveInvariant, PTL

\* A committed version is never rewritten or deleted, and once superseded it
\* never becomes current again.
THEOREM HistoryNeverRewritten == Spec => HistoryImmutable
<1> DEFINE Kept == \A c \in Codes, v \in Versions : docs[c][v] # None =>
                       /\ docs'[c][v] # None
                       /\ docs'[c][v] = docs[c][v]
                          \/ docs'[c][v] = [docs[c][v] EXCEPT !.current = FALSE]
<1>1. KBInv /\ [Next]_vars => [Kept]_vars
  <2> SUFFICES ASSUME KBInv, [Next]_vars PROVE Kept
    OBVIOUS
  <2>1. QED
    BY VersionsKept DEF KBInv
<1>2. QED
  BY <1>1, InductiveInvariant, PTL DEF Spec, HistoryImmutable

-----------------------------------------------------------------------------
(* The refinement of VersionedStore.                                       *)

\* With one current row, a reader is shown its content.
LEMMA ShownIsCurrent ==
    ASSUME NEW rows, NEW w \in Versions, rows[w] # None, rows[w].current,
           \A v \in Versions : rows[v] # None /\ rows[v].current => v = w
    PROVE  ShownIn(rows) = rows[w].content
<1>1. CurrentIn(rows) = {w}
  BY DEF CurrentIn
<1>2. QED
  BY <1>1 DEF ShownIn

LEMMA ContentNotNone ==
    ASSUME NEW r \in Rows
    PROVE  r.content \in Contents /\ r.content # None
BY KBAssumption DEF Rows

LEMMA InitRefines == Init => Store!StoreInit
<1> SUFFICES ASSUME Init PROVE Store!StoreInit
  OBVIOUS
<1>1. PICK n \in 0 .. InitialCount :
        docs = [c \in Codes |-> [v \in Versions |->
                   IF v <= n THEN InitialRow(v, n) ELSE None]]
  BY DEF Init
<1>2. \A v \in Versions : InitialRow(v, n) # None
  BY InitialRowType
<1>3. ASSUME NEW c \in Codes
      PROVE  ContentsIn(docs[c]) = [v \in Versions |-> IF v <= n THEN SeedContent ELSE None]
  BY <1>1, <1>2 DEF ContentsIn, InitialRow
<1>4. ASSUME NEW c \in Codes
      PROVE  ShownIn(docs[c]) = IF n = 0 THEN None ELSE SeedContent
  <2>1. CASE n = 0
    <3>1. \A v \in Versions : docs[c][v] = None
      BY <1>1, <2>1, KBAssumption DEF Versions
    <3>2. CurrentIn(docs[c]) = {}
      BY <3>1 DEF CurrentIn
    <3>3. QED
      BY <2>1, <3>2 DEF ShownIn
  <2>2. CASE n # 0
    <3>1. n \in Versions
      BY <2>2, KBAssumption DEF Versions
    <3>2. docs[c][n] = InitialRow(n, n)
      BY <1>1, <3>1, KBAssumption DEF Versions
    <3>3. \A v \in Versions : docs[c][v] # None /\ docs[c][v].current => v = n
      BY <1>1 DEF InitialRow
    <3>4. docs[c][n].current = (n = n) /\ docs[c][n].content = SeedContent
      BY <3>2 DEF InitialRow
    <3>6. docs[c][n].current /\ docs[c][n] # None
      BY <1>2, <3>1, <3>2, <3>4
    <3>5. QED
      BY <2>2, <3>1, <3>3, <3>4, <3>6, ShownIsCurrent
  <2>3. QED
    BY <2>1, <2>2
<1>5. QED
  BY <1>3, <1>4 DEF Store!StoreInit, Store!Versions, Versions

\* A commit is one publication: of every code the session has inserted.
LEMMA CommitRefines ==
    ASSUME IInv, IInv', NEW t \in Txns, Commit(t)
    PROVE  \/ Store!StoreNext
           \/ UNCHANGED docs
<1> DEFINE S == {c \in Codes : \E w \in Versions : mine[t][c][w] # None}
           n == [c \in S |-> CHOOSE w \in Versions : mine[t][c][w] # None]
           f == [c \in S |-> mine[t][c][n[c]].content]
<1>1. pc[t] = "commit" /\ docs' = [c \in Codes |-> Published(t, c)]
  BY DEF Commit
<1>2. ASSUME NEW c \in Codes, c \notin S
      PROVE  docs'[c] = docs[c]
  <2>0. \A v \in Versions : mine[t][c][v] = None
    BY <1>2
  <2>1. \A v \in Versions : Published(t, c)[v] = docs[c][v]
    BY <1>1, <2>0, PublishedShape DEF IsNextVersion
  <2>2. docs[c] \in [Versions -> Rows \cup {None}]
    BY DEF IInv, TypeOK
  <2>3. Published(t, c) \in [Versions -> Rows \cup {None}]
    BY PublishedType
  <2>4. QED
    BY <1>1, <2>1, <2>2, <2>3
<1>3. CASE S = {}
  <2>1. docs' = [c \in Codes |-> docs[c]]
    BY <1>1, <1>2, <1>3
  <2>2. QED
    BY <2>1 DEF IInv, TypeOK
<1>4. ASSUME NEW c \in S
      PROVE  /\ n[c] \in Versions /\ f[c] \in Contents
             /\ docs[c][n[c]] = None
             /\ \A v \in Versions : v < n[c] => docs[c][v] # None
             /\ ContentsIn(docs'[c]) = [ContentsIn(docs[c]) EXCEPT ![n[c]] = f[c]]
             /\ ShownIn(docs'[c]) = f[c]
  <2> DEFINE w == n[c]
  <2>1. w \in Versions /\ mine[t][c][w] # None
    OBVIOUS
  <2>2. mine[t][c][w] \in Rows
    BY <2>1 DEF IInv, TypeOK
  <2> HIDE DEF n
  <2>3. f[c] = mine[t][c][w].content /\ f[c] \in Contents
    BY <2>2, ContentNotNone
  <2>4. PICK x \in Versions : IsNextVersion(t, c, x)
    <3>1. c \in Codes /\ ~(\A v \in Versions : mine[t][c][v] = None)
      BY <2>1
    <3>2. QED
      BY <1>1, <3>1, PublishedShape
  <2>5. x = w
    BY <2>1, <2>4 DEF IsNextVersion
  <2>6. docs'[c] = Published(t, c)
    BY <1>1
  <2>7. \A v \in Versions : v < w \/ v = w \/ v > w
    BY <2>1, KBAssumption DEF Versions
  <2>8. ASSUME NEW v \in Versions, v < w
        PROVE  /\ docs'[c][v] # None /\ docs'[c][v].content = docs[c][v].content
               /\ ~docs'[c][v].current
    <3>1. docs[c][v] # None /\ docs'[c][v] = [docs[c][v] EXCEPT !.current = FALSE]
      BY <2>4, <2>5, <2>6, <2>8 DEF IsNextVersion
    <3>2. docs[c][v] \in Rows
      BY <3>1 DEF IInv, TypeOK
    <3>3. docs'[c][v] \in Rows /\ docs'[c][v].content = docs[c][v].content
          /\ docs'[c][v].current = FALSE
      BY <3>1, <3>2 DEF Rows
    <3>4. QED
      BY <3>3, KBAssumption
  <2>9. ContentsIn(docs'[c]) = [ContentsIn(docs[c]) EXCEPT ![w] = f[c]]
    <3> SUFFICES ASSUME NEW v \in Versions
                 PROVE  ContentsIn(docs'[c])[v] = IF v = w THEN f[c] ELSE ContentsIn(docs[c])[v]
      BY DEF ContentsIn
    <3>1. CASE v = w
      BY <2>1, <2>3, <2>4, <2>5, <2>6, <3>1 DEF ContentsIn, IsNextVersion
    <3>2. CASE v < w
      <4>1. docs[c][v] # None /\ v # w
        BY <2>1, <2>4, <2>5, <3>2, KBAssumption DEF Versions, IsNextVersion
      <4>2. QED
        BY <2>8, <3>2, <4>1 DEF ContentsIn
    <3>3. CASE v > w
      <4>1. docs[c][v] = None /\ docs'[c][v] = None /\ v # w
        BY <2>1, <2>4, <2>5, <2>6, <3>3, KBAssumption DEF Versions, IsNextVersion
      <4>2. QED
        BY <4>1 DEF ContentsIn
    <3>4. QED
      BY <2>7, <3>1, <3>2, <3>3
  <2>10. ShownIn(docs'[c]) = f[c]
    <3>1. docs'[c][w] = mine[t][c][w] /\ docs'[c][w].current
      BY <2>4, <2>5, <2>6 DEF IsNextVersion
    <3>2. \A v \in Versions : v > w => docs'[c][v] = None
      BY <2>4, <2>5, <2>6 DEF IsNextVersion
    <3>3. \A v \in Versions : docs'[c][v] # None /\ docs'[c][v].current => v = w
      BY <2>7, <2>8, <3>2
    <3>4. QED
      BY <2>1, <2>3, <3>1, <3>3, ShownIsCurrent
  <2>11. docs[c][w] = None /\ \A v \in Versions : v < w => docs[c][v] # None
    BY <2>4, <2>5 DEF IsNextVersion
  <2>12. QED
    BY <2>1, <2>3, <2>9, <2>10, <2>11
<1>5. CASE S # {}
  <2>1. S \in (SUBSET Codes) \ {{}}
    BY <1>5
  <2>2. n \in [S -> Versions] /\ f \in [S -> Contents]
    BY <1>4
  <2> HIDE DEF n, f, S
  <2>3. \A c \in S : c \in Codes
    BY <2>1
  <2>4. \A c \in S : Store!FirstFree(c, n[c])
    <3> TAKE c \in S
    <3>1. \A v \in Versions : docs[c][v] # None => ContentsIn(docs[c])[v] # None
      <4> TAKE v \in Versions
      <4> HAVE docs[c][v] # None
      <4>1. docs[c][v] \in Rows
        BY <2>3 DEF IInv, TypeOK
      <4>2. QED
        BY <4>1, ContentNotNone DEF ContentsIn
    <3>2. ContentsIn(docs[c])[n[c]] = None
      BY <1>4 DEF ContentsIn
    <3>3. QED
      BY <1>4, <2>3, <3>1, <3>2 DEF Store!FirstFree, Store!Versions, Versions
  <2>5. Store!Publish(S, n, f)
    BY <1>2, <1>4, <2>3, <2>4 DEF Store!Publish
  <2>6. QED
    BY <2>1, <2>2, <2>5 DEF Store!StoreNext, Store!Versions, Versions
<1>6. QED
  BY <1>3, <1>5

\* To its readers the knowledge base is an append-only store in which every
\* publication is atomic and the last one is the one shown.
THEOREM KnowledgeBaseImplementsStore == Spec => ImplementsStore
<1>1. Init => Store!StoreInit
  BY InitRefines
<1>2. KBInv /\ KBInv' /\ [Next]_vars =>
          [Store!StoreNext]_<<[c \in Codes |-> ContentsIn(docs[c])],
                              [c \in Codes |-> ShownIn(docs[c])]>>
  <2> SUFFICES ASSUME KBInv, KBInv', [Next]_vars
               PROVE  Store!StoreNext \/ UNCHANGED docs
    OBVIOUS
  <2>1. QED
    BY CommitRefines, OnlyCommitPublishes DEF KBInv
<1>3. QED
  BY <1>1, <1>2, InductiveInvariant, PTL DEF Spec, ImplementsStore, Store!StoreSpec
=============================================================================
