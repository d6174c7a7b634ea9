-------------------------- MODULE DocumentsProofs --------------------------
(* What TLAPS proves of Documents, for any users, documents and requests.  *)
EXTENDS Documents, TLAPS

\* The events by the kind of the request that publishes them.
LEMMA EventNames ==
    /\ EventOf["generate"] = "DocumentCreated"
    /\ EventOf["update"] = "DocumentContentUpdated"
    /\ EventOf["finalize"] = "DocumentFinalized"
    /\ EventOf["export"] = "DocumentExported"
BY DEF EventOf

\* An INSERT or UPDATE of a row makes a row.
LEMMA ApplyIsRow ==
    ASSUME NEW w \in Writes, NEW row, row \in Rows \/ w.sets = Columns
    PROVE  /\ Apply(w, row) \in Rows
           /\ "owner" \notin w.sets => Apply(w, row).owner = row.owner
           /\ "status" \notin w.sets => Apply(w, row).status = row.status
           /\ "status" \in w.sets => Apply(w, row).status = w.row.status
           /\ "content" \notin w.sets => Apply(w, row).content = row.content
           /\ "author" \notin w.sets => Apply(w, row).author = row.author
           /\ "author" \in w.sets => Apply(w, row).author = w.row.author
BY DEF Apply, Writes, Rows, Columns

\* An INSERT makes the row it was given.
LEMMA ApplyInsert ==
    ASSUME NEW w \in Writes, w.sets = Columns, NEW row
    PROVE  Apply(w, row) = w.row
<1>1. w.row \in Rows
    BY DEF Writes
<1> QED
    BY <1>1 DEF Apply, Rows, Columns

\* A row with an author is a draft still.
LEMMA DraftBy ==
    ASSUME NEW u \in Users, NEW t \in Txns
    PROVE  /\ [Draft(u) EXCEPT !.author = t] \in Rows
           /\ [Draft(u) EXCEPT !.author = t].status = "draft"
           /\ [Draft(u) EXCEPT !.author = t].author = t
BY DocumentsAssumption DEF Draft, Rows

\* The invariant holds when the run starts.
LEMMA InitDocInv == Init => DocInv
<1> SUFFICES ASSUME Init PROVE DocInv
    OBVIOUS
<1> USE DocumentsAssumption
<1>1. PICK S \in SUBSET Docs, u \in Users :
          /\ docs = [d \in Docs |-> IF d \in S THEN Draft(u) ELSE None]
          /\ trail = {[event |-> "DocumentCreated", doc |-> d, user |-> u,
                       by |-> None] : d \in S}
    BY DEF Init
<1>2. Draft(u) \in Rows /\ Draft(u).author = None /\ Draft(u).status = "draft"
    BY DEF Draft, Rows
<1>3. TypeOK
  <2>1. docs \in [Docs -> Rows \cup {None}]
      BY <1>1, <1>2
  <2>2. trail \subseteq Entries
      BY <1>1, EventNames DEF Entries, Kinds
  <2> QED
      BY <2>1, <2>2 DEF Init, TypeOK
<1>4. TrailMatchesDocuments
  <2> SUFFICES ASSUME NEW d \in Docs
               PROVE  TrailMatches(d)
      BY DEF TrailMatchesDocuments
  <2>1. docs[d] # None <=> d \in S
      BY <1>1, <1>2
  <2>2. d \in S => docs[d].author = None /\ docs[d].status = "draft"
      BY <1>1, <1>2
  <2>3. Recorded(d, "DocumentCreated") <=> d \in S
    <3>1. \A e \in trail : e.doc \in S
        BY <1>1
    <3>2. ASSUME d \in S PROVE Recorded(d, "DocumentCreated")
      <4> DEFINE e == [event |-> "DocumentCreated", doc |-> d, user |-> u, by |-> None]
      <4>1. e \in trail
          BY <1>1, <3>2
      <4>2. e.doc = d /\ e.event = "DocumentCreated"
          OBVIOUS
      <4> QED
          BY <4>1, <4>2 DEF Recorded
    <3> QED
        BY <3>1, <3>2 DEF Recorded
  <2>4. ~Recorded(d, "DocumentFinalized")
      BY <1>1 DEF Recorded
  <2>5. docs[d] # None <=> Recorded(d, "DocumentCreated")
      BY <2>1, <2>3
  <2>6. IsFinalized(d) <=> Recorded(d, "DocumentFinalized")
      BY <2>1, <2>2, <2>4 DEF IsFinalized
  <2>7. docs[d] # None => docs[d].author = None
      BY <2>1, <2>2
  <2> QED
      BY <2>5, <2>6, <2>7 DEF TrailMatches
<1>5. HoldsExclusive /\ RequestShape /\ WriteShape /\ TracesCommitted
    BY <1>1, <1>2 DEF Init, HoldsExclusive, RequestShape, RequestShapeOf, WriteShape,
           WriteShapeOf, HasFlushed, TracesCommitted, Running
<1> QED
    BY <1>3, <1>4, <1>5 DEF DocInv

-----------------------------------------------------------------------------
(* Steps that leave the documents and the trail alone.                     *)

\* Without a change of documents and trail the story stays the same.
LEMMA QuietTrail ==
    ASSUME TrailMatchesDocuments, UNCHANGED <<docs, trail>>
    PROVE  TrailMatchesDocuments'
BY DEF TrailMatchesDocuments, TrailMatches, Recorded, ContentRecorded, IsFinalized

\* A step of t that leaves docs and trail alone keeps the invariant when what
\* the invariant says of t alone holds again.
LEMMA QuietStep ==
    ASSUME DocInv, NEW t \in Txns, pc[t] # "committed", TypeOK',
           UNCHANGED <<docs, trail>>,
           \A u \in Txns \ {t} : /\ pc'[u] = pc[u] /\ req'[u] = req[u]
                                 /\ seen'[u] = seen[u] /\ write'[u] = write[u]
                                 /\ audit'[u] = audit[u] /\ answer'[u] = answer[u],
           HoldsExclusive', RequestShapeOf(t)', WriteShapeOf(t)',
           pc'[t] \in {"commit", "committed"} => answer'[t] = "ok",
           pc'[t] \in {"idle", "flush", "publish"} =>
               answer'[t] = None /\ audit'[t] = "none"
    PROVE  DocInv'
<1>1. TrailMatchesDocuments'
    BY QuietTrail DEF DocInv
<1>2. RequestShape'
  <2> SUFFICES ASSUME NEW u \in Txns, u # t PROVE RequestShapeOf(u)'
      BY DEF RequestShape
  <2> QED
      BY DEF DocInv, RequestShape, RequestShapeOf
<1>3. WriteShape'
  <2> SUFFICES ASSUME NEW u \in Txns, u # t PROVE WriteShapeOf(u)'
      BY DEF WriteShape
  <2> QED
      BY DEF DocInv, WriteShape, WriteShapeOf, HasFlushed, FlushedDraft,
         FlushedContent, FlushedStatus
<1>4. TracesCommitted'
  <2> USE DocumentsAssumption
  <2>1. \A e \in trail : e.by # None => e.by \in Txns \ {t}
      BY DEF DocInv, TypeOK, TracesCommitted, Entries
  <2>2. \A d \in Docs : docs[d] # None /\ docs[d].author # None =>
            docs[d].author \in Txns \ {t}
      BY DEF DocInv, TypeOK, TracesCommitted, Rows
  <2>3. \A e \in trail : e.by # None => pc'[e.by] = "committed"
      BY <2>1 DEF DocInv, TracesCommitted
  <2>4. \A d \in Docs : docs[d] # None /\ docs[d].author # None =>
            pc'[docs[d].author] = "committed"
      BY <2>2 DEF DocInv, TracesCommitted
  <2>5. \A u \in Txns : /\ pc'[u] \in {"commit", "committed"} => answer'[u] = "ok"
                        /\ pc'[u] \in {"idle", "flush", "publish"} =>
                               answer'[u] = None /\ audit'[u] = "none"
      BY DEF DocInv, TracesCommitted
  <2> QED
      BY <2>3, <2>4, <2>5 DEF TracesCommitted
<1> QED
    BY <1>1, <1>2, <1>3, <1>4 DEF DocInv

\* A session that ends without a commit.
LEMMA CloseStep ==
    ASSUME DocInv, NEW t \in Txns, NEW outcome \in {"ok", "error"} \cup Refusals,
           NEW fate \in {"none", "added", "failed"},
           pc[t] \in {"idle"} \cup Running,
           Close(t, "rolled_back"),
           answer' = [answer EXCEPT ![t] = outcome],
           audit' = [audit EXCEPT ![t] = fate],
           UNCHANGED <<docs, trail>>
    PROVE  DocInv'
<1> USE DocumentsAssumption
<1>1. TypeOK'
    BY DEF DocInv, TypeOK, Close, Ends
<1>2. HoldsExclusive'
    BY DEF DocInv, TypeOK, HoldsExclusive, Close
<1>3. pc'[t] = "rolled_back" /\ write'[t] = None /\ pc[t] # "committed"
    BY DEF DocInv, TypeOK, Close, Running
<1>4. RequestShapeOf(t)' /\ WriteShapeOf(t)'
    BY <1>3 DEF RequestShapeOf, WriteShapeOf, HasFlushed, Running
<1> QED
    BY <1>1, <1>2, <1>3, <1>4, QuietStep DEF DocInv, TypeOK, Close

-----------------------------------------------------------------------------
(* One lemma for each action.                                              *)

\* Accepting or refusing a request to generate a document keeps the invariant.
LEMMA ReadCheckStep ==
    ASSUME DocInv, NEW t \in Txns, NEW r \in Orders, ReadCheck(t, r)
    PROVE  DocInv'
<1> USE DocumentsAssumption
<1>1. CASE GenerateRefusal(r) # None
  <2>1. GenerateRefusal(r) \in Refusals
      BY <1>1 DEF GenerateRefusal, Refusals
  <2>2. audit' = [audit EXCEPT ![t] = audit[t]] /\ audit[t] \in {"none", "added", "failed"}
      BY <1>1 DEF ReadCheck, Raise, DocInv, TypeOK
  <2> QED
      BY <1>1, <2>1, <2>2, CloseStep DEF ReadCheck, Raise
<1>2. CASE GenerateRefusal(r) = None
  <2> DEFINE q == [kind |-> "generate", user |-> r.user, doc |-> None, content |-> None]
  <2>0. q \in Requests /\ q # None
      BY DEF Orders, Requests, Kinds
  <2>1. TypeOK'
      BY <1>2, <2>0 DEF ReadCheck, DocInv, TypeOK, Running
  <2>2. HoldsExclusive'
      BY <1>2 DEF ReadCheck, DocInv, HoldsExclusive
  <2>3. pc[t] = "idle" /\ pc'[t] = "flush" /\ req'[t].kind = "generate" /\ req'[t] # None
      BY <1>2, <2>0 DEF ReadCheck, DocInv, TypeOK
  <2>4. write'[t] = None /\ answer'[t] = None /\ audit'[t] = "none"
      BY <1>2, <2>3 DEF ReadCheck, DocInv, WriteShape, WriteShapeOf, HasFlushed, TracesCommitted
  <2>5. RequestShapeOf(t)' /\ WriteShapeOf(t)'
    <3>1. req'[t].user = r.user /\ r.user \in Entitled
        BY <1>2, <2>0 DEF ReadCheck, DocInv, TypeOK, Entitled
    <3> QED
        BY <2>3, <2>4, <3>1 DEF RequestShapeOf, WriteShapeOf, HasFlushed
  <2> QED
      BY <1>2, <2>1, <2>2, <2>3, <2>4, <2>5, QuietStep DEF ReadCheck, DocInv, TypeOK
<1> QED
    BY <1>1, <1>2

\* So does reading the document a request is about, or refusing the request.
LEMMA ReadDocumentStep ==
    ASSUME DocInv, NEW t \in Txns, NEW r \in OnDocument, ReadDocument(t, r)
    PROVE  DocInv'
<1> USE DocumentsAssumption
<1>1. r \in Requests /\ r.kind # "generate" /\ r.doc \in Docs
      /\ (r.kind = "update" => r.content \in Contents)
    BY DEF OnDocument, Requests
<1>2. CASE DocumentRefusal(r, docs[r.doc]) # None
  <2>1. DocumentRefusal(r, docs[r.doc]) \in Refusals
      BY <1>2 DEF DocumentRefusal, Refusals
  <2>2. audit' = [audit EXCEPT ![t] = audit[t]] /\ audit[t] \in {"none", "added", "failed"}
      BY <1>2 DEF ReadDocument, Raise, DocInv, TypeOK
  <2> QED
      BY <1>2, <2>1, <2>2, CloseStep DEF ReadDocument, Raise
<1>3. CASE DocumentRefusal(r, docs[r.doc]) = None
  <2>1. docs[r.doc] \in Rows
      BY <1>1, <1>3 DEF DocumentRefusal, Refusals, DocInv, TypeOK
  <2>2. TypeOK'
      BY <1>1, <1>3, <2>1 DEF ReadDocument, DocInv, TypeOK, Running
  <2>3. HoldsExclusive'
      BY <1>3 DEF ReadDocument, DocInv, HoldsExclusive
  <2>4. /\ pc[t] = "idle" /\ pc'[t] \in {"flush", "publish"}
        /\ pc'[t] = "publish" <=> r.kind = "export"
        /\ req'[t] = r /\ seen'[t] = docs[r.doc]
      BY <1>3 DEF ReadDocument, DocInv, TypeOK
  <2>5. write'[t] = None /\ answer'[t] = None /\ audit'[t] = "none"
      BY <1>3, <2>4 DEF ReadDocument, DocInv, WriteShape, WriteShapeOf, HasFlushed, TracesCommitted
  <2>6. docs' = docs
      BY <1>3 DEF ReadDocument
  <2>7. RequestShapeOf(t)'
    <3>1. MayUse(r, docs[r.doc])
        BY <1>3, <2>1 DEF DocumentRefusal, Refusals
    <3> QED
        BY <1>1, <2>1, <2>4, <2>6, <3>1 DEF RequestShapeOf
  <2>8. WriteShapeOf(t)'
      BY <2>4, <2>5 DEF WriteShapeOf, HasFlushed
  <2> QED
      BY <1>3, <2>2, <2>3, <2>4, <2>5, <2>7, <2>8, QuietStep DEF ReadDocument, DocInv, TypeOK
<1> QED
    BY <1>2, <1>3

\* The INSERT of a draft takes an identifier nobody holds.
LEMMA AddDraftStep ==
    ASSUME DocInv, NEW t \in Txns, AddDraft(t)
    PROVE  DocInv'
<1> USE DocumentsAssumption
<1>1. PICK d \in Docs :
          /\ docs[d] = None
          /\ \A u \in Txns : ~Holds(u, d)
          /\ write' = [write EXCEPT ![t] =
                 [doc |-> d, sets |-> Columns,
                  row |-> [Draft(req[t].user) EXCEPT !.author = t]]]
    BY DEF AddDraft
<1>2. /\ pc[t] = "flush" /\ req[t] \in Requests /\ req[t].kind = "generate"
      /\ pc' = [pc EXCEPT ![t] = "publish"]
      /\ UNCHANGED <<docs, trail, req, seen, audit, answer>>
    BY DEF AddDraft, DocInv, TypeOK, RequestShape, RequestShapeOf, Running
<1> DEFINE row == [Draft(req[t].user) EXCEPT !.author = t]
<1>3. row \in Rows /\ row.status = "draft" /\ row.author = t
    BY <1>2 DEF Draft, Rows, Requests
<1>4. /\ write'[t] \in Writes /\ write'[t] # None /\ write'[t].doc = d
      /\ write'[t].sets = Columns /\ write'[t].row = row
    BY <1>1, <1>3 DEF Writes, DocInv, TypeOK
<1>5. TypeOK'
    BY <1>1, <1>2, <1>4 DEF DocInv, TypeOK, Running
<1>6. HoldsExclusive'
    BY <1>1, <1>4 DEF HoldsExclusive, Holds, DocInv, TypeOK
<1>7. pc'[t] = "publish" /\ answer'[t] = None /\ audit'[t] = "none"
    BY <1>2 DEF DocInv, TypeOK, TracesCommitted
<1>8. RequestShapeOf(t)'
    BY <1>2, <1>7 DEF RequestShapeOf, DocInv, RequestShape, Running
<1>9. WriteShapeOf(t)'
    BY <1>1, <1>2, <1>3, <1>4, <1>7 DEF WriteShapeOf, FlushedDraft, DocInv,
       WriteShape, HasFlushed
<1> QED
    BY <1>1, <1>2, <1>5, <1>6, <1>7, <1>8, <1>9, QuietStep DEF DocInv, TypeOK

\* The UPDATE takes the lock of a row nobody holds.
LEMMA UpdateRowStep ==
    ASSUME DocInv, NEW t \in Txns, UpdateRow(t)
    PROVE  DocInv'
<1> USE DocumentsAssumption
<1>1. /\ pc[t] = "flush" /\ req[t] \in Requests /\ req[t].kind # "generate"
      /\ \A u \in Txns \ {t} : ~Holds(u, req[t].doc)
      /\ write' = [write EXCEPT ![t] =
             [doc |-> req[t].doc, sets |-> ChangedColumns(req[t], seen[t]),
              row |-> NewRow(t, req[t], seen[t])]]
      /\ pc' = [pc EXCEPT ![t] = "publish"]
      /\ UNCHANGED <<docs, trail, req, seen, audit, answer>>
    BY DEF UpdateRow, DocInv, TypeOK, RequestShape, RequestShapeOf, Running
<1>2. /\ req[t].doc \in Docs /\ docs[req[t].doc] # None /\ seen[t] \in Rows
      /\ req[t].kind = "update" => req[t].content \in Contents
    BY <1>1 DEF DocInv, TypeOK, RequestShape, RequestShapeOf, Running
<1>3. req[t].kind \in {"update", "finalize"}
    BY <1>1 DEF DocInv, RequestShape, RequestShapeOf, Running, Requests, Kinds
<1>4. /\ NewRow(t, req[t], seen[t]) \in Rows
      /\ req[t].kind = "finalize" => NewRow(t, req[t], seen[t]).status = "finalized"
      /\ req[t].kind = "update" => NewRow(t, req[t], seen[t]).author = t
    BY <1>2, <1>3 DEF NewRow, Rows
<1>5. ChangedColumns(req[t], seen[t]) \in SUBSET Columns
    BY DEF ChangedColumns, Columns
<1>6. /\ write'[t] \in Writes /\ write'[t] # None /\ write'[t].doc = req[t].doc
      /\ write'[t].sets = ChangedColumns(req[t], seen[t])
      /\ write'[t].row = NewRow(t, req[t], seen[t])
    BY <1>1, <1>2, <1>4, <1>5 DEF Writes, DocInv, TypeOK
<1>7. TypeOK'
    BY <1>1, <1>6 DEF DocInv, TypeOK, Running
<1>8. HoldsExclusive'
    BY <1>1, <1>6 DEF HoldsExclusive, Holds, DocInv, TypeOK
<1>9. pc'[t] = "publish" /\ answer'[t] = None /\ audit'[t] = "none"
    BY <1>1 DEF DocInv, TypeOK, TracesCommitted
<1>10. RequestShapeOf(t)'
    BY <1>1, <1>9 DEF RequestShapeOf, DocInv, RequestShape, Running
<1>11. WriteShapeOf(t)'
    BY <1>1, <1>3, <1>4, <1>6, <1>9 DEF WriteShapeOf, FlushedContent, FlushedStatus,
       ChangedColumns, DocInv, WriteShape, HasFlushed
<1> QED
    BY <1>1, <1>7, <1>8, <1>9, <1>10, <1>11, QuietStep DEF DocInv, TypeOK

\* An audit entry added to the session is not yet in the trail.
LEMMA PublishStep ==
    ASSUME DocInv, NEW t \in Txns, Publish(t)
    PROVE  DocInv'
<1> USE DocumentsAssumption
<1>1. TypeOK'
    BY DEF Publish, DocInv, TypeOK, Running
<1>2. HoldsExclusive'
    BY DEF Publish, DocInv, HoldsExclusive
<1>3. /\ pc[t] = "publish" /\ pc'[t] = "commit" /\ answer'[t] = "ok"
      /\ audit'[t] = "added"
    BY DEF Publish, DocInv, TypeOK
<1>4. RequestShapeOf(t)'
    BY <1>3 DEF Publish, RequestShapeOf, DocInv, RequestShape, Running
<1>5. WriteShapeOf(t)'
    BY <1>3 DEF Publish, WriteShapeOf, HasFlushed, FlushedDraft, FlushedContent,
       FlushedStatus, DocInv, WriteShape, TracesCommitted
<1> QED
    BY <1>1, <1>2, <1>3, <1>4, <1>5, QuietStep DEF Publish, DocInv, TypeOK

\* A failed audit entry takes the flushed write with it.
LEMMA PublishFailsStep ==
    ASSUME DocInv, NEW t \in Txns, PublishFails(t)
    PROVE  DocInv'
<1> USE DocumentsAssumption
<1>1. CASE req[t].kind \in {"update", "finalize"}
    BY <1>1, CloseStep DEF PublishFails, Running
<1>2. CASE req[t].kind \notin {"update", "finalize"}
  <2>1. TypeOK'
      BY <1>2 DEF PublishFails, DocInv, TypeOK, Running
  <2>2. HoldsExclusive'
      BY <1>2 DEF PublishFails, DocInv, TypeOK, HoldsExclusive
  <2>3. /\ pc[t] = "publish" /\ pc'[t] = "commit" /\ answer'[t] = "ok"
        /\ audit'[t] = "failed" /\ write'[t] = None
      BY <1>2 DEF PublishFails, DocInv, TypeOK
  <2>4. RequestShapeOf(t)'
      BY <1>2, <2>3 DEF PublishFails, RequestShapeOf, DocInv, RequestShape, Running
  <2>5. WriteShapeOf(t)'
      BY <2>3 DEF WriteShapeOf, HasFlushed
  <2> QED
      BY <1>2, <2>1, <2>2, <2>3, <2>4, <2>5, QuietStep DEF PublishFails, DocInv, TypeOK
<1> QED
    BY <1>1, <1>2

\* A commit of a session that has rolled back changes nothing.
LEMMA CommitFailsStep ==
    ASSUME DocInv, NEW t \in Txns, CommitFails(t)
    PROVE  DocInv'
<1>1. /\ audit' = [audit EXCEPT ![t] = "failed"] /\ pc[t] = "commit"
      /\ answer' = [answer EXCEPT ![t] = "ok"]
    BY DEF CommitFails, DocInv, TypeOK, TracesCommitted
<1> QED
    BY <1>1, CloseStep DEF CommitFails, Running

\* A failure of any kind closes the session.
LEMMA FailStep ==
    ASSUME DocInv, NEW t \in Txns, Fail(t)
    PROVE  DocInv'
<1> DEFINE outcome == IF answer[t] = None THEN "error" ELSE answer[t]
<1>1. /\ audit' = [audit EXCEPT ![t] = audit[t]] /\ audit[t] \in {"none", "added", "failed"}
      /\ answer' = [answer EXCEPT ![t] = outcome]
      /\ outcome \in {"ok", "error"} \cup Refusals
    BY DEF Fail, DocInv, TypeOK
<1> HIDE DEF outcome
<1> QED
    BY <1>1, CloseStep DEF Fail

-----------------------------------------------------------------------------
(* The commit.                                                             *)

\* What the commit of t makes of document d and of the trail.
LEMMA CommitEffect ==
    ASSUME DocInv, NEW t \in Txns, Commit(t)
    PROVE  /\ Subject(t) \in Docs
           /\ req[t] \in Requests
           /\ trail' = trail \cup {Entry(t, Subject(t))}
           /\ Entry(t, Subject(t)) \in Entries
           /\ \A d \in Docs : d # Subject(t) => docs'[d] = docs[d]
           /\ docs'[Subject(t)] \in Rows
           /\ docs' \in [Docs -> Rows \cup {None}]
           /\ req[t].kind = "generate" =>
                  /\ docs[Subject(t)] = None
                  /\ docs'[Subject(t)].status = "draft"
                  /\ docs'[Subject(t)].author = t
           /\ req[t].kind # "generate" =>
                  /\ docs[Subject(t)] # None
                  /\ docs'[Subject(t)].owner = docs[Subject(t)].owner
           /\ req[t].kind = "update" =>
                  /\ docs'[Subject(t)].status = docs[Subject(t)].status
                  /\ docs'[Subject(t)].author \in {docs[Subject(t)].author, t}
           /\ req[t].kind = "finalize" =>
                  /\ docs'[Subject(t)].status = "finalized"
                  /\ docs'[Subject(t)].author = docs[Subject(t)].author
                  /\ docs'[Subject(t)].content = docs[Subject(t)].content
           /\ req[t].kind = "export" => docs'[Subject(t)] = docs[Subject(t)]
<1> USE DocumentsAssumption
<1>1. /\ pc[t] = "commit" /\ HasFlushed(t) /\ req[t] \in Requests
      /\ trail' = trail \cup {Entry(t, Subject(t))}
    BY DEF Commit, HasFlushed, DocInv, TypeOK, RequestShape, RequestShapeOf, Running
<1>2. /\ req[t].kind # "generate" =>
             /\ Subject(t) = req[t].doc /\ req[t].doc \in Docs
             /\ docs[req[t].doc] \in Rows
      /\ req[t].kind = "generate" =>
             Subject(t) = write[t].doc /\ write[t] \in Writes /\ FlushedDraft(t)
    BY <1>1 DEF DocInv, TypeOK, RequestShape, RequestShapeOf, Running, Subject,
       WriteShape, WriteShapeOf, FlushedDraft
<1>3. Subject(t) \in Docs
    BY <1>2 DEF Writes
<1>4. Entry(t, Subject(t)) \in Entries
    BY <1>1, <1>3 DEF Entry, Entries, Requests
<1>5. req[t].kind \in Kinds
    BY <1>1 DEF Requests
<1>6. CASE req[t].kind = "export"
  <2>1. docs' = docs
      BY <1>1, <1>6 DEF Commit, DocInv, WriteShape, WriteShapeOf
  <2> QED
      BY <1>1, <1>2, <1>3, <1>4, <1>6, <2>1 DEF DocInv, TypeOK
<1>7. CASE req[t].kind # "export"
  <2>1. /\ write[t] \in Writes /\ write[t].doc = Subject(t)
        /\ docs' = [docs EXCEPT ![write[t].doc] = Apply(write[t], docs[write[t].doc])]
      BY <1>1, <1>2, <1>5, <1>7 DEF Commit, DocInv, TypeOK, WriteShape, WriteShapeOf,
         FlushedContent, FlushedStatus, FlushedDraft, Kinds
  <2>2. docs'[Subject(t)] = Apply(write[t], docs[Subject(t)])
      BY <1>3, <2>1 DEF DocInv, TypeOK
  <2>3. docs[Subject(t)] \in Rows \/ write[t].sets = Columns
      BY <1>2 DEF FlushedDraft
  <2>4. docs'[Subject(t)] \in Rows
      BY <2>1, <2>2, <2>3, ApplyIsRow
  <2>5. /\ \A d \in Docs : d # Subject(t) => docs'[d] = docs[d]
        /\ docs' \in [Docs -> Rows \cup {None}]
      BY <2>1, <2>2, <2>4 DEF DocInv, TypeOK
  <2>6. CASE req[t].kind = "generate"
    <3>1. req[t].user \in Users /\ FlushedDraft(t) /\ docs[Subject(t)] = None
        BY <1>1, <1>2, <2>6 DEF Requests, FlushedDraft
    <3>2. docs'[Subject(t)] = [Draft(req[t].user) EXCEPT !.author = t]
        BY <2>1, <2>2, <3>1, ApplyInsert DEF FlushedDraft
    <3> QED
        BY <1>1, <1>3, <1>4, <2>4, <2>5, <2>6, <3>1, <3>2, DraftBy
  <2>7. CASE req[t].kind = "update"
    <3>1. FlushedContent(t)
        BY <1>1, <2>7 DEF DocInv, WriteShape, WriteShapeOf
    <3> QED
        BY <1>1, <1>2, <1>3, <1>4, <2>1, <2>2, <2>3, <2>4, <2>5, <2>7, <3>1, ApplyIsRow
           DEF FlushedContent
  <2>8. CASE req[t].kind = "finalize"
    <3>1. FlushedStatus(t)
        BY <1>1, <2>8 DEF DocInv, WriteShape, WriteShapeOf
    <3> QED
        BY <1>1, <1>2, <1>3, <1>4, <2>1, <2>2, <2>3, <2>4, <2>5, <2>8, <3>1, ApplyIsRow
           DEF FlushedStatus
  <2> QED
      BY <1>5, <1>7, <2>6, <2>7, <2>8 DEF Kinds
<1> QED
    BY <1>6, <1>7

\* What the commit of t puts on record of document d.
LEMMA CommitRecords ==
    ASSUME DocInv, NEW t \in Txns, Commit(t), NEW d \in Docs
    PROVE  /\ Recorded(d, "DocumentCreated")' <=>
                  \/ Recorded(d, "DocumentCreated")
                  \/ d = Subject(t) /\ req[t].kind = "generate"
           /\ Recorded(d, "DocumentFinalized")' <=>
                  \/ Recorded(d, "DocumentFinalized")
                  \/ d = Subject(t) /\ req[t].kind = "finalize"
<1> DEFINE e == Entry(t, Subject(t))
<1>1. trail' = trail \cup {e} /\ req[t] \in Requests
    BY CommitEffect
<1>2. req[t].kind \in Kinds
    BY <1>1 DEF Requests
<1>3. e.event = EventOf[req[t].kind] /\ e.doc = Subject(t)
    BY DEF Entry
<1>4. /\ e.event = "DocumentCreated" <=> req[t].kind = "generate"
      /\ e.event = "DocumentFinalized" <=> req[t].kind = "finalize"
    BY <1>2, <1>3, EventNames DEF Kinds
<1> HIDE DEF e
<1>5. Recorded(d, "DocumentCreated")' <=>
          \/ Recorded(d, "DocumentCreated")
          \/ d = Subject(t) /\ req[t].kind = "generate"
    BY <1>1, <1>3, <1>4 DEF Recorded
<1>6. Recorded(d, "DocumentFinalized")' <=>
          \/ Recorded(d, "DocumentFinalized")
          \/ d = Subject(t) /\ req[t].kind = "finalize"
    BY <1>1, <1>3, <1>4 DEF Recorded
<1> QED
    BY <1>5, <1>6

\* The author of what d shows after the commit of t is on record.
LEMMA CommitAuthor ==
    ASSUME DocInv, NEW t \in Txns, Commit(t), NEW d \in Docs,
           docs'[d] # None, docs'[d].author # None
    PROVE  ContentRecorded(d, docs[d].author)'
<1>1. /\ trail' = trail \cup {Entry(t, Subject(t))}
      /\ req[t].kind \in Kinds
    BY CommitEffect DEF Requests
<1>2. \/ docs[d] # None /\ docs'[d].author = docs[d].author
      \/ d = Subject(t) /\ docs'[d].author = t /\ req[t].kind \in {"generate", "update"}
    BY <1>1, CommitEffect DEF Kinds
<1>3. CASE docs[d] # None /\ docs'[d].author = docs[d].author
  <2>1. ContentRecorded(d, docs[d].author)
      BY <1>3 DEF DocInv, TrailMatchesDocuments, TrailMatches
  <2> QED
      BY <1>1, <1>3, <2>1 DEF ContentRecorded
<1>4. CASE d = Subject(t) /\ docs'[d].author = t /\ req[t].kind \in {"generate", "update"}
  <2>1. /\ Entry(t, d).doc = d /\ Entry(t, d).by = t
        /\ Entry(t, d).event \in {"DocumentCreated", "DocumentContentUpdated"}
      BY <1>4, EventNames DEF Entry
  <2>2. Entry(t, d) \in trail'
      BY <1>1, <1>4
  <2> QED
      BY <1>4, <2>1, <2>2 DEF ContentRecorded
<1> QED
    BY <1>2, <1>3, <1>4

\* The story of each document stays the one the trail tells.
LEMMA CommitKeepsTrail ==
    ASSUME DocInv, NEW t \in Txns, Commit(t)
    PROVE  TrailMatchesDocuments'
<1> SUFFICES ASSUME NEW d \in Docs
             PROVE  TrailMatches(d)'
    BY DEF TrailMatchesDocuments
<1>1. /\ docs[d] # None <=> Recorded(d, "DocumentCreated")
      /\ IsFinalized(d) <=> Recorded(d, "DocumentFinalized")
    BY DEF DocInv, TrailMatchesDocuments, TrailMatches
<1>2. req[t].kind \in Kinds /\ None \notin Rows
    BY CommitEffect, DocumentsAssumption DEF Requests
<1>3. docs'[d] # None <=>
          \/ docs[d] # None
          \/ d = Subject(t) /\ req[t].kind = "generate"
    BY <1>2, CommitEffect
<1>4. IsFinalized(d)' <=>
          \/ IsFinalized(d)
          \/ d = Subject(t) /\ req[t].kind = "finalize"
  <2>1. CASE d # Subject(t)
      BY <2>1, CommitEffect DEF IsFinalized
  <2>2. CASE d = Subject(t)
      BY <1>2, <2>2, CommitEffect DEF IsFinalized, Kinds
  <2> QED
      BY <2>1, <2>2
<1>5. docs'[d] # None <=> Recorded(d, "DocumentCreated")'
    BY <1>1, <1>3, CommitRecords
<1>6. IsFinalized(d)' <=> Recorded(d, "DocumentFinalized")'
    BY <1>1, <1>4, CommitRecords
<1>7. docs'[d] # None /\ docs'[d].author # None => ContentRecorded(d, docs[d].author)'
    BY CommitAuthor
<1> QED
    BY <1>5, <1>6, <1>7 DEF TrailMatches

\* The commit keeps the whole invariant.
LEMMA CommitStep ==
    ASSUME DocInv, NEW t \in Txns, Commit(t)
    PROVE  DocInv'
<1> USE DocumentsAssumption
<1>1. /\ pc[t] = "commit" /\ pc' = [pc EXCEPT ![t] = "committed"]
      /\ req' = [req EXCEPT ![t] = None] /\ seen' = [seen EXCEPT ![t] = None]
      /\ write' = [write EXCEPT ![t] = None] /\ UNCHANGED <<audit, answer>>
    BY DEF Commit, Close
<1>2. TypeOK'
    BY <1>1, CommitEffect DEF DocInv, TypeOK, Ends
<1>3. TrailMatchesDocuments'
    BY CommitKeepsTrail
<1>4. HoldsExclusive'
    BY <1>1 DEF DocInv, TypeOK, HoldsExclusive
<1>5. \A d \in Docs : docs[d] # None =>
          docs'[d] # None /\ docs'[d].owner = docs[d].owner
  <2>1. None \notin Rows
      OBVIOUS
  <2> QED
      BY <2>1, CommitEffect
<1>6. RequestShape'
  <2> SUFFICES ASSUME NEW u \in Txns PROVE RequestShapeOf(u)'
      BY DEF RequestShape
  <2>1. CASE u = t
      BY <1>1, <2>1 DEF DocInv, TypeOK, RequestShapeOf, Running
  <2>2. CASE u # t
    <3>1. /\ pc'[u] = pc[u] /\ req'[u] = req[u] /\ seen'[u] = seen[u]
          /\ RequestShapeOf(u)
        BY <1>1, <2>2 DEF DocInv, TypeOK, RequestShape
    <3> QED
        BY <1>5, <3>1 DEF RequestShapeOf, MayUse
  <2> QED
      BY <2>1, <2>2
<1>7. WriteShape'
  <2> SUFFICES ASSUME NEW u \in Txns PROVE WriteShapeOf(u)'
      BY DEF WriteShape
  <2>1. CASE u = t
      BY <1>1, <2>1 DEF DocInv, TypeOK, WriteShapeOf, HasFlushed
  <2>2. CASE u # t
    <3>1. /\ write'[u] = write[u] /\ req'[u] = req[u]
          /\ HasFlushed(u)' <=> HasFlushed(u)
        BY <1>1, <2>2 DEF DocInv, TypeOK, HasFlushed
    <3>2. FlushedDraft(u) => write[u].doc \in Docs
        BY DEF DocInv, TypeOK, FlushedDraft, Writes
    <3>3. ASSUME FlushedDraft(u) PROVE docs'[write[u].doc] = None
      <4>1. CASE req[t].kind = "generate"
        <5>1. write[t] # None /\ Subject(t) = write[t].doc
            BY <1>1, <4>1 DEF Commit, DocInv, WriteShape, WriteShapeOf, HasFlushed,
               FlushedDraft, Subject
        <5>2. write[u].doc # Subject(t)
            BY <2>2, <3>3, <5>1 DEF DocInv, HoldsExclusive, FlushedDraft
        <5> QED
            BY <3>2, <3>3, <5>2, CommitEffect DEF FlushedDraft
      <4>2. CASE req[t].kind # "generate"
        <5>1. write[u].doc # Subject(t)
            BY <3>3, <4>2, CommitEffect DEF FlushedDraft
        <5> QED
            BY <3>2, <3>3, <5>1, CommitEffect DEF FlushedDraft
      <4> QED
          BY <4>1, <4>2
    <3> QED
        BY <3>1, <3>3 DEF DocInv, WriteShape, WriteShapeOf, FlushedDraft,
           FlushedContent, FlushedStatus
  <2> QED
      BY <2>1, <2>2
<1>8. TracesCommitted'
  <2>1. pc'[t] = "committed" /\ \A u \in Txns \ {t} : pc'[u] = pc[u]
      BY <1>1 DEF DocInv, TypeOK
  <2>2. \A u \in Txns : pc[u] = "committed" => pc'[u] = "committed"
      BY <2>1
  <2>3. \A u \in Txns : pc'[u] \in {"commit", "committed"} => answer'[u] = "ok"
      BY <1>1, <2>1 DEF DocInv, TracesCommitted
  <2>4. \A u \in Txns : pc'[u] \in {"idle", "flush", "publish"} =>
            answer'[u] = None /\ audit'[u] = "none"
      BY <1>1, <2>1 DEF DocInv, TracesCommitted
  <2>5. ASSUME NEW e \in trail', e.by # None PROVE pc'[e.by] = "committed"
    <3>1. CASE e \in trail
      <4>1. e.by \in Txns
          BY <2>5, <3>1 DEF DocInv, TypeOK, Entries
      <4> QED
          BY <2>2, <2>5, <3>1, <4>1 DEF DocInv, TracesCommitted
    <3>2. CASE e \notin trail
      <4>1. e = Entry(t, Subject(t))
          BY <3>2, CommitEffect
      <4>2. e.by = t
          BY <4>1 DEF Entry
      <4> QED
          BY <2>1, <4>2
    <3> QED
        BY <3>1, <3>2
  <2>6. ASSUME NEW d \in Docs, docs'[d] # None, docs'[d].author # None
        PROVE  pc'[docs'[d].author] = "committed"
    <3>1. docs'[d].author = t \/ (docs[d] # None /\ docs'[d].author = docs[d].author)
        BY <2>6, CommitEffect DEF Requests, Kinds
    <3>2. CASE docs'[d].author = t
        BY <2>1, <3>2
    <3>3. CASE docs[d] # None /\ docs'[d].author = docs[d].author
      <4>1. docs[d].author \in Txns
          BY <2>6, <3>3 DEF DocInv, TypeOK, Rows
      <4> QED
          BY <2>2, <2>6, <3>3, <4>1 DEF DocInv, TracesCommitted
    <3> QED
        BY <3>1, <3>2, <3>3
  <2> QED
      BY <2>3, <2>4, <2>5, <2>6 DEF TracesCommitted
<1> QED
    BY <1>2, <1>3, <1>4, <1>6, <1>7, <1>8 DEF DocInv

-----------------------------------------------------------------------------
(* The theorems.                                                           *)

\* Every step keeps the invariant.
LEMMA NextDocInv == DocInv /\ [Next]_vars => DocInv'
<1> SUFFICES ASSUME DocInv, [Next]_vars PROVE DocInv'
    OBVIOUS
<1>1. ASSUME NEW t \in Txns, Arrive(t) PROVE DocInv'
    BY <1>1, ReadCheckStep, ReadDocumentStep DEF Arrive
<1>2. ASSUME NEW t \in Txns, Step(t) PROVE DocInv'
    BY <1>2, AddDraftStep, UpdateRowStep, PublishStep, CommitStep, CommitFailsStep DEF Step
<1>3. ASSUME NEW t \in Txns, PublishFails(t) \/ Fail(t) PROVE DocInv'
    BY <1>3, PublishFailsStep, FailStep
<1>4. CASE UNCHANGED vars
    BY <1>4 DEF vars, DocInv, TypeOK, TrailMatchesDocuments, TrailMatches, Recorded,
       ContentRecorded, IsFinalized, HoldsExclusive, RequestShape, RequestShapeOf,
       WriteShape, WriteShapeOf, HasFlushed, FlushedDraft, FlushedContent,
       FlushedStatus, TracesCommitted
<1> QED
    BY <1>1, <1>2, <1>3, <1>4 DEF Next, AllEnded

\* The inductive invariant holds in every state that requests, audit failures
\* and crashes can reach, for any number of users, documents and requests.
THEOREM DocumentsInvariant == Spec => []DocInv
    BY InitDocInv, NextDocInv, PTL DEF Spec

\* The columns of documents and of the requests' sessions keep their types.
THEOREM DocumentsTypes == Spec => []TypeOK
<1>1. DocInv => TypeOK
    BY DEF DocInv
<1> QED
    BY <1>1, DocumentsInvariant, PTL

\* The audit trail and the documents tell the same story: the entry and the row
\* are written by one transaction, whatever fails between the event and its
\* commit.
THEOREM TrailCorrect == Spec => []TrailMatchesDocuments
<1>1. DocInv => TrailMatchesDocuments
    BY DEF DocInv
<1> QED
    BY <1>1, DocumentsInvariant, PTL

\* A request that was refused or failed before its answer has left neither a
\* document nor an entry of the trail behind.
THEOREM RefusalsTraceless == Spec => []RefusedLeavesNoTrace
<1>1. DocInv => RefusedLeavesNoTrace
  <2> SUFFICES ASSUME DocInv, NEW t \in Txns, answer[t] \notin {None, "ok"}
               PROVE  /\ \A e \in trail : e.by # t
                      /\ \A d \in Docs : docs[d] = None \/ docs[d].author # t
      BY DEF RefusedLeavesNoTrace
  <2>1. pc[t] # "committed" /\ t # None
      BY DocumentsAssumption DEF DocInv, TracesCommitted
  <2> QED
      BY <2>1 DEF DocInv, TracesCommitted
<1> QED
    BY <1>1, DocumentsInvariant, PTL

\* A document is finalized once and for good and never changes hands, whatever
\* requests run beside the one that finalizes it.
THEOREM LifecycleCorrect == Spec => LifecycleOneWay
<1> DEFINE OneWay(d) ==
        docs[d] # None =>
            /\ docs'[d] # None /\ docs'[d].owner = docs[d].owner
            /\ docs'[d].status # docs[d].status =>
                   /\ docs'[d].status = "finalized"
                   /\ docs'[d].content = docs[d].content
<1>1. ASSUME DocInv, [Next]_vars PROVE [\A d \in Docs : OneWay(d)]_vars
  <2>1. ASSUME NEW t \in Txns, Commit(t), NEW d \in Docs PROVE OneWay(d)
    <3>1. None \notin Rows /\ req[t].kind \in Kinds
        BY <1>1, <2>1, CommitEffect, DocumentsAssumption DEF Requests
    <3> QED
        BY <1>1, <2>1, <3>1, CommitEffect DEF Kinds
  <2>2. ASSUME UNCHANGED docs, NEW d \in Docs PROVE OneWay(d)
      BY <2>2
  <2>3. UNCHANGED docs \/ (\E t \in Txns : Commit(t)) \/ UNCHANGED vars
      BY <1>1 DEF Next, Arrive, Step, AllEnded, ReadCheck, ReadDocument, Raise,
         AddDraft, UpdateRow, Publish, PublishFails, CommitFails, Fail, vars
  <2> QED
      BY <2>1, <2>2, <2>3
<1> QED
    BY <1>1, DocumentsInvariant, PTL DEF Spec, LifecycleOneWay

-----------------------------------------------------------------------------
(* The refinement.                                                          *)

\* The commit of t, by the kind of its request, up to the entry.
LEMMA CommitArchives ==
    ASSUME DocInv, NEW t \in Txns, Commit(t)
    PROVE  LET d == Subject(t)
           IN  \/ /\ req[t].kind = "generate" /\ docs[d] = None
                  /\ docs' = [docs EXCEPT ![d] = A!New(req[t].user, t)]
               \/ /\ req[t].kind = "update" /\ docs[d] # None
                  /\ \/ \E c \in Contents :
                             docs' = [docs EXCEPT ![d] = A!Edited(d, c, t)]
                     \/ docs' = docs
               \/ /\ req[t].kind = "finalize" /\ docs[d] # None
                  /\ docs' = [docs EXCEPT ![d] = [@ EXCEPT !.status = "finalized"]]
               \/ /\ req[t].kind = "export" /\ docs[d] # None
                  /\ docs' = docs
<1> DEFINE d == Subject(t)
<1>1. /\ HasFlushed(t) /\ req[t] \in Requests /\ req[t].kind \in Kinds /\ d \in Docs
      /\ docs \in [Docs -> Rows \cup {None}] /\ write[t] \in Writes \cup {None}
      /\ docs' = IF write[t] = None THEN docs
                 ELSE [docs EXCEPT ![write[t].doc] = Apply(write[t], docs[write[t].doc])]
    BY CommitEffect DEF Commit, HasFlushed, DocInv, TypeOK, Requests
<1>2. /\ req[t].kind = "generate" => FlushedDraft(t)
      /\ req[t].kind = "update" => FlushedContent(t)
      /\ req[t].kind = "finalize" => FlushedStatus(t)
      /\ req[t].kind = "export" => write[t] = None
    BY <1>1 DEF DocInv, WriteShape, WriteShapeOf
<1>3. /\ req[t].kind = "generate" => docs[d] = None
      /\ req[t].kind # "generate" => d = req[t].doc /\ docs[d] # None /\ docs[d] \in Rows
  <2>1. /\ req[t].kind = "generate" => docs[d] = None
        /\ req[t].kind # "generate" => docs[d] # None
    BY CommitEffect
  <2>2. req[t].kind # "generate" => d = req[t].doc
    BY DEF Subject
  <2>3. docs[d] # None => docs[d] \in Rows
    BY <1>1
  <2> QED
    BY <2>1, <2>2, <2>3
<1>4. CASE req[t].kind = "generate"
  <2>1. write[t] # None /\ write[t].doc = d /\ write[t] \in Writes
      BY <1>1, <1>2, <1>4 DEF FlushedDraft, Subject
  <2>2. Apply(write[t], docs[d]) = [Draft(req[t].user) EXCEPT !.author = t]
      BY <1>2, <1>4, <2>1, ApplyInsert DEF FlushedDraft
  <2>3. Apply(write[t], docs[d]) = A!New(req[t].user, t)
      BY <2>2 DEF A!New, Draft
  <2> QED
      BY <1>1, <1>3, <1>4, <2>1, <2>3
<1>5. CASE req[t].kind = "update"
  <2>1. write[t] \in Writes /\ write[t] # None /\ write[t].doc = d
      BY <1>1, <1>2, <1>3, <1>5 DEF FlushedContent
  <2>2. docs' = [docs EXCEPT ![d] = Apply(write[t], docs[d])]
      BY <1>1, <2>1
  <2>3. CASE write[t].sets = {}
    <3>1. Apply(write[t], docs[d]) = docs[d]
        BY <1>3, <1>5, <2>3 DEF Apply, Rows
    <3>2. docs' = docs
        BY <1>1, <2>2, <3>1
    <3> QED
        BY <1>3, <1>5, <3>2
  <2>4. CASE write[t].sets = {"content", "author"} /\ write[t].row.author = t
    <3>1. write[t].row.content \in Contents
        BY <2>1 DEF Writes, Rows
    <3>2. Apply(write[t], docs[d]) =
              [owner |-> docs[d].owner, status |-> docs[d].status,
               content |-> write[t].row.content, author |-> t]
        BY <2>4 DEF Apply
    <3> QED
        BY <1>3, <1>5, <2>2, <3>1, <3>2 DEF A!Edited
  <2> QED
      BY <1>2, <1>5, <2>3, <2>4 DEF FlushedContent
<1>6. CASE req[t].kind = "finalize"
  <2>1. write[t] \in Writes /\ write[t] # None /\ write[t].doc = d
      BY <1>1, <1>2, <1>3, <1>6 DEF FlushedStatus
  <2>2. Apply(write[t], docs[d]) = [docs[d] EXCEPT !.status = "finalized"]
      BY <1>2, <1>3, <1>6 DEF Apply, Rows, FlushedStatus
  <2> QED
      BY <1>1, <1>3, <1>6, <2>1, <2>2
<1>7. CASE req[t].kind = "export"
    BY <1>1, <1>2, <1>3, <1>7
<1> QED
    BY <1>1, <1>4, <1>5, <1>6, <1>7 DEF Kinds

\* The entry of t is the first it makes, and names a user who may.
LEMMA CommitEnters ==
    ASSUME DocInv, NEW t \in Txns, Commit(t)
    PROVE  /\ A!Enter(EventOf[req[t].kind], Subject(t), req[t].user, t)
           /\ req[t].user \in Users
           /\ req[t].kind = "generate" => req[t].user \in Entitled
           /\ req[t].kind # "generate" => MayUse(req[t], docs[Subject(t)])
<1>1. /\ trail' = trail \cup {Entry(t, Subject(t))} /\ req[t] \in Requests
      /\ pc[t] = "commit"
    BY CommitEffect DEF Commit
<1>2. \A e \in trail : e.by # t
  <2>1. t # None
      BY DocumentsAssumption
  <2> QED
      BY <1>1, <2>1 DEF DocInv, TracesCommitted
<1>3. RequestShapeOf(t)
    BY DEF DocInv, RequestShape
<1> QED
    BY <1>1, <1>2, <1>3 DEF A!Enter, A!Entry, Entry, Subject, RequestShapeOf, Running,
       Requests

\* Every step is one of the archive's, or nothing to it.
LEMMA ArchiveStep == DocInv /\ [Next]_vars => [A!Next]_<<docs, trail>>
<1> SUFFICES ASSUME DocInv, [Next]_vars PROVE A!Next \/ UNCHANGED <<docs, trail>>
    OBVIOUS
<1>1. ASSUME NEW t \in Txns, Commit(t) PROVE A!Next
  <2> DEFINE d == Subject(t)
             u == req[t].user
  <2>1. d \in Docs /\ u \in Users
      BY <1>1, CommitEffect, CommitEnters
  <2>2. A!Create(d, u, t) \/ A!Rewrite(d, u, t) \/ A!Finalize(d, u, t) \/ A!Export(d, u, t)
    <3>1. A!Enter(EventOf[req[t].kind], d, u, t)
        BY <1>1, CommitEnters
    <3>2. CASE req[t].kind = "generate"
        BY <1>1, <3>1, <3>2, CommitArchives, CommitEnters, EventNames DEF A!Create
    <3>3. CASE req[t].kind = "update"
      <4>1. docs[d].owner = u
          BY <1>1, <3>3, CommitEnters DEF MayUse
      <4> QED
          BY <1>1, <3>1, <3>3, <4>1, CommitArchives, EventNames DEF A!Rewrite
    <3>4. CASE req[t].kind \in {"finalize", "export"}
      <4>1. A!MayUse(u, d)
          BY <1>1, <2>1, <3>4, CommitArchives, CommitEnters DEF MayUse, A!MayUse
      <4> QED
          BY <1>1, <3>1, <3>4, <4>1, CommitArchives, EventNames DEF A!Finalize, A!Export
    <3> QED
        BY <1>1, <3>2, <3>3, <3>4, CommitArchives
  <2> QED
      BY <2>1, <2>2 DEF A!Next
<1>2. UNCHANGED <<docs, trail>> \/ (\E t \in Txns : Commit(t)) \/ UNCHANGED vars
    BY DEF Next, Arrive, Step, AllEnded, ReadCheck, ReadDocument, Raise,
       AddDraft, UpdateRow, Publish, PublishFails, CommitFails, Fail, vars
<1> QED
    BY <1>1, <1>2 DEF vars

\* Documents and journal implement the abstract Archive.
THEOREM DocumentsImplementArchive == Spec => ImplementsArchive
<1>1. Init => A!Init
  <2> SUFFICES ASSUME Init PROVE A!Init
      OBVIOUS
  <2>1. PICK S \in SUBSET Docs, u \in Users :
            /\ docs = [d \in Docs |-> IF d \in S THEN Draft(u) ELSE None]
            /\ trail = {[event |-> "DocumentCreated", doc |-> d, user |-> u,
                         by |-> None] : d \in S}
      BY DEF Init
  <2>2. Draft(u) = A!New(u, None)
      BY DEF Draft, A!New
  <2> QED
      BY <2>1, <2>2 DEF A!Init, A!Entry
<1> QED
    BY <1>1, ArchiveStep, DocumentsInvariant, PTL DEF Spec, ImplementsArchive, A!Spec
=============================================================================
