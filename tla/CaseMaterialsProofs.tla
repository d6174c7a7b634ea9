------------------------ MODULE CaseMaterialsProofs ------------------------
(***************************************************************************)
(* Proofs about CaseMaterials, for any users, files, requests and faults:  *)
(* the inductive invariant and the properties it holds, the files without  *)
(* a row, what drafts hold and what the rules make of them, and that the   *)
(* tables implement Register.                                              *)
(***************************************************************************)
EXTENDS CaseMaterials, EvidenceProofs, FiniteSetTheorems, TLAPS

(* What the text of a file yields stays closed until the section on what   *)
(* its documents say.                                                      *)

\* The results of an extraction fit a row (the assignments of upload).
LEMMA ExtractedFits ==
    ASSUME NEW f \in Files
    PROVE  Extracted(f).status \in Settled /\ Extracted(f).draft \in Drafts
<1>1. Extracted(f).status \in Settled
  BY DEF Extracted, Settled
<1>2. QED BY <1>1 DEF Drafts

\* A request is an upload or a check, and None is neither (upload, confirm,
\* create_check).
LEMMA Kinds ==
    ASSUME TypeOK, NEW t \in Txns, req[t] # None
    PROVE  /\ Uploading(t) => req[t] \in UploadRequests
           /\ ~Uploading(t) => req[t] \in CheckRequests
<1>1. req[t] \in UploadRequests \cup CheckRequests BY DEF TypeOK
<1>2. \A r \in UploadRequests : r.kind = "upload" BY DEF UploadRequests
<1>3. \A r \in CheckRequests : r.kind = "check" BY DEF CheckRequests
<1>4. QED BY <1>1, <1>2, <1>3 DEF Uploading

\* A new row fits its table (CaseMaterialUpload, Check).
LEMMA NewRowsFit ==
    /\ \A r \in UploadRequests : NewUpload(r) \in Uploads
    /\ \A r \in CheckRequests : NewCheck(r) \in Checks
<1>1. \A r \in UploadRequests : NewUpload(r) \in Uploads
  <2> TAKE r \in UploadRequests
  <2>1. r.user \in Users /\ r.name \in Names BY DEF UploadRequests
  <2>2. NoAnswers \in Drafts BY DEF Drafts
  <2>3. QED BY <2>1, <2>2 DEF NewUpload, Uploads
<1>2. \A r \in CheckRequests : NewCheck(r) \in Checks
  <2> TAKE r \in CheckRequests
  <2>1. r.user \in Users /\ r.from \in Ids \cup {None} /\ r.answers \in Answers
    BY DEF CheckRequests
  <2>2. Evaluate(Role[r.user], r.answers)
          \in {Evaluate(p, a) : p \in {Role[u] : u \in Users}, a \in Answers}
    BY <2>1
  <2>3. QED BY <2>1, <2>2 DEF NewCheck, Checks
<1>3. QED BY <1>1, <1>2

-----------------------------------------------------------------------------
(* Types.                                                                  *)

\* Initially every variable has its type and nothing is under way.
LEMMA InitInv == Init => MaterialsInv
<1> SUFFICES ASSUME Init PROVE MaterialsInv OBVIOUS
<1>1. TypeOK
  BY DEF Init, TypeOK
<1>2. \A t \in Txns : /\ RequestSound(t) /\ FileOwn(t) /\ IdOwn(t) /\ SourceRead(t)
                     /\ AnswersGiven(t)
  BY DEF Init, RequestSound, FileOwn, IdOwn, SourceRead, AnswersGiven, Storing, Running
<1>3. UploadsComplete /\ JournalMatches /\ ChecksFromReadUploads /\ ChecksJudged
  BY DEF Init, UploadsComplete, JournalMatches, Recorded, ChecksFromReadUploads, ChecksJudged
<1>4. DiskAccepted
  BY DEF Init, DiskAccepted
<1>5. QED BY <1>1, <1>2, <1>3, <1>4 DEF MaterialsInv

\* Ending a request, and accepting one, respect the types (get_db).
LEMMA EndTypes ==
    ASSUME TypeOK, NEW t \in Txns, NEW end \in Ends, Close(t, end)
    PROVE  /\ pc' \in [Txns -> {"idle"} \cup Running \cup Ends]
           /\ req' \in [Txns -> UploadRequests \cup CheckRequests \cup {None}]
           /\ id' \in [Txns -> Ids \cup {None}]
           /\ row' \in [Txns -> Uploads \cup Checks \cup {None}]
BY DEF TypeOK, Close, Goto, Ends

LEMMA RaiseTypes ==
    ASSUME TypeOK, NEW t \in Txns, NEW outcome \in Refusals,
           Raise(t, outcome), UNCHANGED <<disk, db>>
    PROVE  TypeOK'
<1>1. Close(t, "rolled_back") /\ "rolled_back" \in Ends
    BY DEF Raise, Ends
<1>2. answer' \in [Txns -> {None, "ok", "error"} \cup Refusals] /\ UNCHANGED audit
    BY DEF Raise, TypeOK
<1>3. QED
    BY <1>1, <1>2, EndTypes DEF TypeOK, db

LEMMA AcceptTypes ==
    ASSUME TypeOK, NEW t \in Txns, NEW r \in UploadRequests \cup CheckRequests,
           Accept(t, r), UNCHANGED db, disk' \in [Names -> Files \cup {None}]
    PROVE  TypeOK'
BY DEF TypeOK, Accept, Goto, db, Running

\* Every step respects the types.
LEMMA UploadTypes ==
    ASSUME TypeOK, NEW t \in Txns, NEW u \in Users, NEW f \in Files, Upload(t, u, f)
    PROVE  TypeOK'
<1>1. CASE Refusal(f) # None
  <2>1. Refusal(f) \in Refusals
      BY <1>1 DEF Refusal, Refusals
  <2>2. QED
      BY <1>1, <2>1, RaiseTypes DEF Upload
<1>2. CASE Refusal(f) = None
  <2>1. PICK n \in Names : /\ disk' = [disk EXCEPT ![n] = f]
                           /\ Accept(t, [kind |-> "upload", user |-> u, name |-> n])
      BY <1>2 DEF Upload
  <2>2. [kind |-> "upload", user |-> u, name |-> n] \in UploadRequests
      BY DEF UploadRequests
  <2>3. disk' \in [Names -> Files \cup {None}]
      BY <2>1 DEF TypeOK
  <2>4. UNCHANGED db
      BY DEF Upload
  <2>5. QED
      BY <2>1, <2>2, <2>3, <2>4, AcceptTypes
<1>3. QED
    BY <1>1, <1>2

LEMMA ConfirmTypes ==
    ASSUME TypeOK, NEW t \in Txns, NEW u \in Users, NEW i \in Ids, Confirm(t, u, i)
    PROVE  TypeOK'
<1>1. CASE ConfirmRefusal(u, i) # None
  <2>1. ConfirmRefusal(u, i) \in Refusals
      BY <1>1 DEF ConfirmRefusal, Refusals
  <2>2. UNCHANGED <<disk, db>>
      BY DEF Confirm
  <2>3. QED
      BY <1>1, <2>1, <2>2, RaiseTypes DEF Confirm
<1>2. CASE ConfirmRefusal(u, i) = None
  <2>1. PICK a \in Payloads \cup {uploads[i].draft} :
          Accept(t, [kind |-> "check", user |-> u, from |-> i, answers |-> a])
      BY <1>2 DEF Confirm
  <2>2. uploads[i] \in Uploads
    <3>1. uploads[i] # None
        BY <1>2, CaseMaterialsAssumption DEF ConfirmRefusal, Refusals
    <3>2. QED
        BY <3>1 DEF TypeOK
  <2>3. a \in Answers
      BY <2>2 DEF Answers, Uploads
  <2>4. [kind |-> "check", user |-> u, from |-> i, answers |-> a] \in CheckRequests
      BY <2>3 DEF CheckRequests
  <2>5. UNCHANGED db /\ disk' \in [Names -> Files \cup {None}]
      BY DEF Confirm, TypeOK
  <2>6. QED
      BY <2>1, <2>4, <2>5, AcceptTypes
<1>3. QED
    BY <1>1, <1>2

LEMMA CheckTypes ==
    ASSUME TypeOK, NEW t \in Txns, NEW u \in Users, NEW a \in Payloads, Check(t, u, a)
    PROVE  TypeOK'
<1>1. [kind |-> "check", user |-> u, from |-> None, answers |-> a] \in CheckRequests
    BY DEF CheckRequests, Answers
<1>2. UNCHANGED db /\ disk' \in [Names -> Files \cup {None}]
    BY DEF Check, TypeOK
<1>3. QED
    BY <1>1, <1>2, AcceptTypes DEF Check

LEMMA InsertTypes ==
    ASSUME TypeOK, NEW t \in Txns, RequestSound(t), Insert(t)
    PROVE  TypeOK'
<1>1. req[t] # None
    BY DEF RequestSound, Insert, Running
<1>2. PICK i \in Ids : /\ id' = [id EXCEPT ![t] = i]
                       /\ row' = [row EXCEPT ![t] = IF Uploading(t)
                                     THEN NewUpload(req[t]) ELSE NewCheck(req[t])]
    BY DEF Insert
<1>3. (IF Uploading(t) THEN NewUpload(req[t]) ELSE NewCheck(req[t]))
         \in Uploads \cup Checks
    BY <1>1, Kinds, NewRowsFit
<1>4. id' \in [Txns -> Ids \cup {None}]
    BY <1>2 DEF TypeOK
<1>5. row' \in [Txns -> Uploads \cup Checks \cup {None}]
    BY <1>2, <1>3 DEF TypeOK
<1>6. pc' \in [Txns -> {"idle"} \cup Running \cup Ends]
    BY DEF Insert, Goto, TypeOK, Running
<1>7. QED
    BY <1>4, <1>5, <1>6 DEF TypeOK, Insert, db

\* The row an upload or a check has written by the time it commits.
FinalRow(t) ==
    IF Uploading(t)
    THEN [owner  |-> req[t].user, name |-> req[t].name,
          status |-> Extracted(disk[req[t].name]).status,
          draft  |-> Extracted(disk[req[t].name]).draft]
    ELSE NewCheck(req[t])

\* It fits its table.
LEMMA FinalRowFits ==
    ASSUME TypeOK, NEW t \in Txns, req[t] # None, FileOwn(t)
    PROVE  /\ Uploading(t) => FinalRow(t) \in Uploads
           /\ ~Uploading(t) => FinalRow(t) \in Checks
<1>1. ASSUME Uploading(t) PROVE FinalRow(t) \in Uploads
  <2>1. req[t] \in UploadRequests
      BY <1>1, Kinds
  <2>2. req[t].user \in Users /\ req[t].name \in Names
      BY <2>1 DEF UploadRequests
  <2>3. disk[req[t].name] \in Files
      BY <1>1, <2>2 DEF FileOwn, Storing, TypeOK
  <2>4. /\ Extracted(disk[req[t].name]).status \in Settled
        /\ Extracted(disk[req[t].name]).draft \in Drafts
      BY <2>3, ExtractedFits
  <2>5. QED
      BY <1>1, <2>2, <2>4 DEF FinalRow, Uploads
<1>2. ASSUME ~Uploading(t) PROVE FinalRow(t) \in Checks
    BY <1>2, Kinds, NewRowsFit DEF FinalRow
<1>3. QED
    BY <1>1, <1>2

\* A row is its columns, and the extraction sets two of them
\* (CaseMaterialUpload, the assignments of upload).
LEMMA SameUpload ==
    ASSUME NEW x \in Uploads, NEW y \in Uploads,
           x.owner = y.owner, x.name = y.name, x.status = y.status, x.draft = y.draft
    PROVE  x = y
BY DEF Uploads

LEMMA ReadUpload ==
    ASSUME NEW x \in Uploads, NEW p \in Settled, NEW q \in Drafts
    PROVE  [x EXCEPT !.status = p, !.draft = q]
             = [owner |-> x.owner, name |-> x.name, status |-> p, draft |-> q]
<1> DEFINE y == [x EXCEPT !.status = p, !.draft = q]
           z == [owner |-> x.owner, name |-> x.name, status |-> p, draft |-> q]
<1>1. y \in Uploads /\ z \in Uploads
    BY DEF Uploads
<1>2. y.owner = z.owner /\ y.name = z.name
    BY DEF Uploads
<1>3. y.status = z.status /\ y.draft = z.draft
    BY DEF Uploads
<1> HIDE DEF y, z
<1>4. y = z
    BY <1>1, <1>2, <1>3, SameUpload
<1>5. QED
    BY <1>4 DEF y, z

\* The flush of the audit entry makes it (the assignments before publish).
LEMMA FlushMakesFinalRow ==
    ASSUME TypeOK, NEW t \in Txns, RequestSound(t), FileOwn(t), pc[t] = "publish"
    PROVE  Flushed(t) = FinalRow(t)
<1>1. /\ req[t] # None
      /\ row[t] = IF Uploading(t) THEN NewUpload(req[t]) ELSE NewCheck(req[t])
    BY DEF RequestSound, Running
<1>2. CASE Uploading(t)
  <2> DEFINE p == Extracted(disk[req[t].name]).status
             q == Extracted(disk[req[t].name]).draft
  <2>1. row[t] = NewUpload(req[t]) /\ row[t] \in Uploads
      BY <1>1, <1>2, Kinds, NewRowsFit
  <2>2. Flushed(t) = [row[t] EXCEPT !.status = p, !.draft = q]
      BY <1>2, Zenon DEF Flushed
  <2>3. FinalRow(t) = [owner |-> req[t].user, name |-> req[t].name,
                       status |-> p, draft |-> q]
      BY <1>2, Zenon DEF FinalRow
  <2> req[t].name \in Names /\ Storing(t)
      BY <1>1, <1>2, Kinds DEF UploadRequests, Storing
  <2> disk[req[t].name] \in Files
      BY DEF FileOwn, TypeOK
  <2> p \in Settled /\ q \in Drafts
      BY ExtractedFits
  <2> HIDE DEF p, q
  <2>4. row[t].owner = req[t].user /\ row[t].name = req[t].name
      BY <2>1 DEF NewUpload
  <2>5. [row[t] EXCEPT !.status = p, !.draft = q]
          = [owner |-> row[t].owner, name |-> row[t].name, status |-> p, draft |-> q]
      BY <2>1, ReadUpload
  <2>6. QED
      BY <2>2, <2>3, <2>4, <2>5
<1>3. CASE ~Uploading(t)
    BY <1>1, <1>3 DEF Flushed, FinalRow
<1>4. QED
    BY <1>2, <1>3

LEMMA PublishTypes ==
    ASSUME TypeOK, NEW t \in Txns, RequestSound(t), FileOwn(t), Publish(t)
    PROVE  TypeOK'
<1>1. req[t] # None
    BY DEF RequestSound, Publish, Running
<1>2. Flushed(t) \in Uploads \cup Checks
    BY <1>1, FlushMakesFinalRow, FinalRowFits DEF Publish
<1>3. row' \in [Txns -> Uploads \cup Checks \cup {None}]
    BY <1>2 DEF TypeOK, Publish
<1>4. pc' \in [Txns -> {"idle"} \cup Running \cup Ends]
    BY DEF Publish, Goto, TypeOK, Running
<1>5. audit' \in [Txns -> {"none", "added", "failed"}]
    BY DEF Publish, TypeOK
<1>6. answer' \in [Txns -> {None, "ok", "error"} \cup Refusals]
    BY DEF Publish, TypeOK
<1>7. QED
    BY <1>3, <1>4, <1>5, <1>6 DEF TypeOK, Publish, db

LEMMA PublishFailsTypes ==
    ASSUME TypeOK, NEW t \in Txns, PublishFails(t)
    PROVE  TypeOK'
<1>1. pc' \in [Txns -> {"idle"} \cup Running \cup Ends]
    BY DEF PublishFails, Goto, TypeOK, Running
<1>2. /\ id' \in [Txns -> Ids \cup {None}]
      /\ row' \in [Txns -> Uploads \cup Checks \cup {None}]
    BY DEF PublishFails, TypeOK
<1>3. audit' \in [Txns -> {"none", "added", "failed"}]
    BY DEF PublishFails, TypeOK
<1>4. answer' \in [Txns -> {None, "ok", "error"} \cup Refusals]
    BY DEF PublishFails, TypeOK
<1>5. QED
    BY <1>1, <1>2, <1>3, <1>4 DEF TypeOK, PublishFails, db

LEMMA CommitTypes ==
    ASSUME TypeOK, NEW t \in Txns, RequestSound(t), FileOwn(t), Commit(t)
    PROVE  TypeOK'
<1>1. req[t] # None /\ id[t] \in Ids /\ row[t] = FinalRow(t)
    BY DEF RequestSound, Commit, Running, FinalRow, TypeOK
<1>2. uploads' \in [Ids -> Uploads \cup {None}]
    BY <1>1, FinalRowFits DEF Commit, TypeOK
<1>3. checks' \in [Ids -> Checks \cup {None}]
    BY <1>1, FinalRowFits DEF Commit, TypeOK
<1>4. trail' \subseteq Entries
  <2>1. req[t].user \in Users
      BY <1>1, Kinds DEF UploadRequests, CheckRequests
  <2>2. EntryOf(t) \in Entries
      BY <1>1, <2>1 DEF EntryOf, Entries
  <2>3. QED
      BY <2>2 DEF Commit, TypeOK
<1>5. /\ pc' \in [Txns -> {"idle"} \cup Running \cup Ends]
      /\ req' \in [Txns -> UploadRequests \cup CheckRequests \cup {None}]
      /\ id' \in [Txns -> Ids \cup {None}]
      /\ row' \in [Txns -> Uploads \cup Checks \cup {None}]
  <2>1. Close(t, "committed") /\ "committed" \in Ends
      BY DEF Commit, Ends
  <2>2. QED
      BY <2>1, EndTypes
<1>6. QED
    BY <1>2, <1>3, <1>4, <1>5 DEF TypeOK, Commit

\* CommitFails and Fail: nothing but the request changes.
LEMMA GiveUpTypes ==
    ASSUME TypeOK, NEW t \in Txns, CommitFails(t) \/ Fail(t)
    PROVE  TypeOK'
<1>1. Close(t, "rolled_back") /\ "rolled_back" \in Ends
    BY DEF CommitFails, Fail, Ends
<1>2. answer' \in [Txns -> {None, "ok", "error"} \cup Refusals]
    BY DEF CommitFails, Fail, TypeOK
<1>3. UNCHANGED <<disk, uploads, checks, trail, audit>>
    BY DEF CommitFails, Fail, db
<1>4. QED
    BY <1>1, <1>2, <1>3, EndTypes DEF TypeOK

-----------------------------------------------------------------------------
(* What a step of request t leaves alone.                                  *)

FilesStay == \A n \in Names : disk[n] # None => disk'[n] = disk[n]

OthersStay(t) ==
    \A s \in Txns \ {t} : /\ pc'[s] = pc[s] /\ req'[s] = req[s] /\ id'[s] = id[s]
                          /\ row'[s] = row[s] /\ audit'[s] = audit[s]
                          /\ answer'[s] = answer[s]

\* Only request t is answered.
AnswerOnly(t) == \A s \in Txns \ {t} : answer'[s] = answer[s]

\* A name that is taken was free, and so was an identifier.
NameFresh(t) ==
    Storing(t)' => \/ Storing(t) /\ req'[t].name = req[t].name
                   \/ disk[req'[t].name] = None /\ disk'[req'[t].name] # None

IdFresh(t) == id'[t] # None => id'[t] = id[t] \/ ~IdTaken(id'[t])

\* The other requests stay sound (get_db gives each request a session of its
\* own).
LEMMA OthersSound ==
    ASSUME MaterialsInv, NEW t \in Txns, OthersStay(t), FilesStay,
           NEW s \in Txns \ {t}
    PROVE  RequestSound(s)'
<1> RequestSound(s) /\ FileOwn(s)
    BY DEF MaterialsInv
<1> TypeOK
    BY DEF MaterialsInv
<1>1. /\ pc'[s] = pc[s] /\ req'[s] = req[s] /\ id'[s] = id[s]
      /\ row'[s] = row[s] /\ audit'[s] = audit[s] /\ answer'[s] = answer[s]
    BY DEF OthersStay
<1>2. Uploading(s)' <=> Uploading(s)
    BY <1>1 DEF Uploading
<1>3. ASSUME Storing(s) PROVE disk'[req[s].name] = disk[req[s].name]
  <2>1. req[s].name \in Names
      BY <1>3, Kinds DEF Storing, UploadRequests
  <2>2. QED
      BY <1>3, <2>1 DEF FileOwn, FilesStay
<1>4. CASE Storing(s)
  <2>1. Extracted(disk[req[s].name])' = Extracted(disk[req[s].name])
      BY <1>1, <1>3, <1>4 DEF Extracted
  <2>2. QED
      BY <1>1, <1>2, <1>4, <2>1 DEF RequestSound, Storing, NewUpload
<1>5. CASE ~Storing(s)
    BY <1>1, <1>2, <1>5 DEF RequestSound, Storing, Running, NewCheck
<1>6. QED
    BY <1>4, <1>5

\* A step that commits nothing keeps the invariant if the request that takes it
\* stays sound and takes only free names (upload, confirm, create).
LEMMA UncommittedKeeps ==
    ASSUME MaterialsInv, TypeOK', NEW t \in Txns, OthersStay(t), FilesStay,
           UNCHANGED db, NameFresh(t), IdFresh(t), RequestSound(t)', SourceRead(t)',
           AnswersGiven(t)', DiskAccepted'
    PROVE  MaterialsInv'
<1> TypeOK
    BY DEF MaterialsInv
<1> UNCHANGED <<uploads, checks, trail>>
    BY DEF db
<1>1. ASSUME NEW s \in Txns \ {t}
      PROVE  /\ Storing(s)' <=> Storing(s)
             /\ req'[s] = req[s] /\ id'[s] = id[s]
    BY DEF OthersStay, Storing, Uploading
<1>2. ASSUME NEW s \in Txns, Storing(s)
      PROVE  req[s].name \in Names /\ disk[req[s].name] # None
    BY <1>2, Kinds DEF MaterialsInv, FileOwn, Storing, UploadRequests
<1>3. ASSUME NEW i \in Ids, uploads[i] # None
      PROVE  /\ uploads[i].name \in Names /\ disk[uploads[i].name] # None
             /\ disk'[uploads[i].name] = disk[uploads[i].name]
  <2>1. uploads[i].name \in Names
      BY <1>3 DEF TypeOK, Uploads
  <2>2. QED
      BY <1>3, <2>1 DEF MaterialsInv, UploadsComplete, RowComplete, FilesStay
<1>4. ASSUME NEW s \in Txns PROVE RequestSound(s)'
    BY OthersSound
<1>5. ASSUME NEW s \in Txns PROVE FileOwn(s)'
  <2> SUFFICES ASSUME Storing(s)' PROVE FileOwn(s)'
      BY DEF FileOwn
  <2>1. CASE s = t /\ ~(Storing(t) /\ req'[t].name = req[t].name)
    <3>1. disk[req'[t].name] = None /\ disk'[req'[t].name] # None
        BY <2>1 DEF NameFresh
    <3>2. \A i \in Ids : uploads[i] # None => uploads[i].name # req'[t].name
        BY <3>1, <1>3
    <3>3. \A r \in Txns \ {t} : Storing(r)' => req'[r].name # req'[t].name
        BY <3>1, <1>1, <1>2
    <3>4. QED
        BY <2>1, <3>1, <3>2, <3>3 DEF FileOwn
  <2>2. CASE Storing(s) /\ req'[s].name = req[s].name
    <3>1. disk'[req'[s].name] # None
        BY <1>2, <2>2 DEF FilesStay
    <3>2. \A i \in Ids : uploads[i] # None => uploads[i].name # req'[s].name
        BY <2>2 DEF MaterialsInv, FileOwn
    <3>3. ASSUME NEW r \in Txns \ {s}, Storing(r)' PROVE req'[r].name # req'[s].name
      <4>1. CASE Storing(r) /\ req'[r].name = req[r].name
          BY <2>2, <4>1 DEF MaterialsInv, FileOwn
      <4>2. CASE ~(Storing(r) /\ req'[r].name = req[r].name)
        <5>1. r = t
            BY <1>1, <3>3, <4>2
        <5>2. disk[req'[r].name] = None
            BY <3>3, <4>2, <5>1 DEF NameFresh
        <5>3. QED
            BY <1>2, <2>2, <5>2
      <4>3. QED
          BY <4>1, <4>2
    <3>4. QED
        BY <3>1, <3>2, <3>3 DEF FileOwn
  <2>3. QED
      BY <1>1, <2>1, <2>2
<1>6. ASSUME NEW s \in Txns PROVE IdOwn(s)'
  <2> SUFFICES ASSUME id'[s] # None PROVE IdOwn(s)'
      BY DEF IdOwn
  <2>1. \A r \in Txns : id'[r] = id[r] \/ (r = t /\ ~IdTaken(id'[t]))
        \/ (r = t /\ id'[t] = None)
      BY <1>1 DEF IdFresh
  <2>2. uploads[id'[s]] = None /\ checks[id'[s]] = None
      BY <2>1 DEF MaterialsInv, IdOwn, IdTaken
  <2>3. ASSUME NEW r \in Txns \ {s} PROVE id'[r] # id'[s]
    <3>1. CASE s = t /\ id'[s] # id[s]
      <4>1. ~IdTaken(id'[s]) /\ id'[r] = id[r]
          BY <2>1, <3>1
      <4>2. QED
          BY <4>1 DEF IdTaken
    <3>2. CASE r = t /\ id'[r] # id[r]
      <4>1. id'[s] = id[s]
          BY <2>1, <3>2
      <4>2. id'[r] = None \/ ~IdTaken(id'[r])
          BY <2>1, <3>2
      <4>3. QED
          BY <4>1, <4>2 DEF IdTaken
    <3>3. CASE id'[s] = id[s] /\ id'[r] = id[r]
        BY <3>3 DEF MaterialsInv, IdOwn
    <3>4. QED
        BY <2>1, <3>1, <3>2, <3>3
  <2>4. QED
      BY <2>2, <2>3 DEF IdOwn
<1>7. ASSUME NEW s \in Txns PROVE SourceRead(s)'
  <2>1. CASE s = t
      BY <2>1
  <2>2. CASE s # t
      BY <1>1, <2>2 DEF MaterialsInv, SourceRead, OthersStay, Uploading
  <2>3. QED
      BY <2>1, <2>2
<1>8. UploadsComplete'
  <2> SUFFICES ASSUME NEW i \in Ids, uploads[i] # None PROVE RowComplete(i)'
      BY DEF UploadsComplete
  <2>1. RowComplete(i)
      BY DEF MaterialsInv, UploadsComplete
  <2>2. disk'[uploads[i].name] = disk[uploads[i].name]
      BY <1>3
  <2>3. QED
      BY <2>1, <2>2 DEF RowComplete
<1>9. JournalMatches' /\ ChecksFromReadUploads' /\ ChecksJudged'
    BY DEF MaterialsInv, JournalMatches, Recorded, ChecksFromReadUploads,
           FromReadUpload, MayUse, ChecksJudged
<1>10. ASSUME NEW s \in Txns PROVE AnswersGiven(s)'
  <2>1. CASE s # t
      BY <1>1, <2>1 DEF MaterialsInv, AnswersGiven, Uploading
  <2>2. QED
      BY <2>1
<1>11. QED
    BY <1>4, <1>5, <1>6, <1>7, <1>8, <1>9, <1>10 DEF MaterialsInv

-----------------------------------------------------------------------------
(* The steps, one by one.                                                  *)

\* A request that ends without a commit (get_db: the rollback).
LEMMA EndKeeps ==
    ASSUME MaterialsInv, TypeOK', NEW t \in Txns, NEW end \in Ends, Close(t, end),
           UNCHANGED <<disk, db, audit>>, AnswerOnly(t)
    PROVE  MaterialsInv'
<1>1. pc'[t] = end /\ req'[t] = None /\ id'[t] = None
    BY DEF Close, Goto, MaterialsInv, TypeOK
<1>2. OthersStay(t)
    BY DEF OthersStay, Close, Goto, MaterialsInv, TypeOK, AnswerOnly
<1>3. /\ FilesStay /\ NameFresh(t) /\ IdFresh(t) /\ SourceRead(t)'
      /\ AnswersGiven(t)' /\ DiskAccepted'
    BY <1>1 DEF FilesStay, NameFresh, IdFresh, SourceRead, AnswersGiven, DiskAccepted,
       Storing, MaterialsInv
<1>4. RequestSound(t)'
    BY <1>1 DEF RequestSound, Ends, Running
<1>5. UNCHANGED db
    OBVIOUS
<1>6. QED
    BY <1>2, <1>3, <1>4, <1>5, UncommittedKeeps

\* A request that is let through (upload, confirm, create_check).
LEMMA AcceptKeeps ==
    ASSUME MaterialsInv, TypeOK', NEW t \in Txns, pc[t] = "idle",
           NEW r \in UploadRequests \cup CheckRequests, Accept(t, r),
           FilesStay, UNCHANGED db, NameFresh(t), SourceRead(t)', AnswersGiven(t)',
           DiskAccepted'
    PROVE  MaterialsInv'
<1>1. pc'[t] = "insert" /\ req'[t] = r /\ id'[t] = id[t]
    BY DEF Accept, Goto, MaterialsInv, TypeOK
<1>2. OthersStay(t)
    BY DEF OthersStay, Accept, Goto, MaterialsInv, TypeOK
<1>3. id[t] = None /\ answer'[t] = None
    BY DEF MaterialsInv, RequestSound, Running, Accept
<1>4. r # None
    BY CaseMaterialsAssumption
<1>5. RequestSound(t)'
    BY <1>1, <1>3, <1>4 DEF RequestSound, Running
<1>6. IdFresh(t)
    BY <1>1 DEF IdFresh
<1>7. QED
    BY <1>2, <1>5, <1>6, UncommittedKeeps

LEMMA UploadKeeps ==
    ASSUME MaterialsInv, NEW t \in Txns, NEW u \in Users, NEW f \in Files, Upload(t, u, f)
    PROVE  MaterialsInv'
<1>1. TypeOK'
    BY UploadTypes DEF MaterialsInv
<1>2. CASE Refusal(f) # None
  <2>1. /\ Close(t, "rolled_back") /\ "rolled_back" \in Ends
        /\ UNCHANGED <<disk, db, audit>> /\ AnswerOnly(t)
      BY <1>2 DEF Upload, Raise, Ends, AnswerOnly, MaterialsInv, TypeOK
  <2>2. QED
      BY <1>1, <2>1, EndKeeps
<1>3. CASE Refusal(f) = None
  <2> DEFINE r(n) == [kind |-> "upload", user |-> u, name |-> n]
  <2>1. PICK n \in Names : /\ disk[n] = None
                           /\ disk' = [disk EXCEPT ![n] = f]
                           /\ Accept(t, r(n))
      BY <1>3 DEF Upload
  <2>2. r(n) \in UploadRequests /\ r(n).name = n
      BY DEF UploadRequests
  <2>3. req'[t] = r(n)
      BY <2>1 DEF Accept, MaterialsInv, TypeOK
  <2>4. FilesStay
      BY <2>1 DEF FilesStay, MaterialsInv, TypeOK
  <2>5. NameFresh(t)
    <3>1. disk'[n] = f /\ f # None
        BY <2>1, CaseMaterialsAssumption DEF MaterialsInv, TypeOK
    <3>2. QED
        BY <2>1, <2>2, <2>3, <3>1 DEF NameFresh
  <2>6. SourceRead(t)' /\ AnswersGiven(t)' /\ DiskAccepted'
    <3>1. f \in Accepted
        BY <1>3 DEF Accepted
    <3>2. DiskAccepted'
        BY <2>1, <3>1 DEF MaterialsInv, DiskAccepted, TypeOK
    <3>3. QED
        BY <2>3, <3>2 DEF SourceRead, AnswersGiven, Uploading
  <2>7. pc[t] = "idle" /\ UNCHANGED db
      BY DEF Upload
  <2>8. QED
      BY <1>1, <2>1, <2>2, <2>4, <2>5, <2>6, <2>7, AcceptKeeps
<1>4. QED
    BY <1>2, <1>3

LEMMA ConfirmKeeps ==
    ASSUME MaterialsInv, NEW t \in Txns, NEW u \in Users, NEW i \in Ids, Confirm(t, u, i)
    PROVE  MaterialsInv'
<1>1. TypeOK'
    BY ConfirmTypes DEF MaterialsInv
<1>2. CASE ConfirmRefusal(u, i) # None
  <2>1. /\ Close(t, "rolled_back") /\ "rolled_back" \in Ends
        /\ UNCHANGED <<disk, db, audit>> /\ AnswerOnly(t)
      BY <1>2 DEF Confirm, Raise, Ends, AnswerOnly, MaterialsInv, TypeOK
  <2>2. QED
      BY <1>1, <2>1, EndKeeps
<1>3. CASE ConfirmRefusal(u, i) = None
  <2> DEFINE r(a) == [kind |-> "check", user |-> u, from |-> i, answers |-> a]
  <2>1. PICK a \in Payloads \cup {uploads[i].draft} : Accept(t, r(a))
      BY <1>3 DEF Confirm
  <2>2. /\ uploads[i] # None
        /\ uploads[i].status = "extracted"
        /\ MayUse(u, uploads[i])
      BY <1>3, CaseMaterialsAssumption DEF ConfirmRefusal, Refusals
  <2>3. r(a) \in CheckRequests
    <3>1. uploads[i] \in Uploads
        BY <2>2 DEF MaterialsInv, TypeOK
    <3>2. a \in Answers
        BY <3>1 DEF Answers, Uploads
    <3>3. QED
        BY <3>2 DEF CheckRequests
  <2>4. req'[t] = r(a)
      BY <2>1 DEF Accept, MaterialsInv, TypeOK
  <2>5. pc[t] = "idle" /\ UNCHANGED <<disk, db>>
      BY DEF Confirm
  <2>6. UNCHANGED uploads /\ UNCHANGED db /\ FilesStay
      BY <2>5 DEF db, FilesStay
  <2>7. NameFresh(t)
      BY <2>4 DEF NameFresh, Storing, Uploading
  <2>8. SourceRead(t)' /\ AnswersGiven(t)' /\ DiskAccepted'
    <3>1. i # None
        BY CaseMaterialsAssumption
    <3>2. DiskAccepted'
        BY <2>5 DEF MaterialsInv, DiskAccepted
    <3>3. AnswersGiven(t)'
        BY <2>1, <2>4, <2>6, <3>1 DEF AnswersGiven
    <3>4. QED
        BY <2>2, <2>4, <2>6, <3>2, <3>3 DEF SourceRead, MayUse
  <2>9. QED
      BY <1>1, <2>1, <2>3, <2>5, <2>6, <2>7, <2>8, AcceptKeeps
<1>4. QED
    BY <1>2, <1>3

LEMMA CheckKeeps ==
    ASSUME MaterialsInv, NEW t \in Txns, NEW u \in Users, NEW a \in Payloads, Check(t, u, a)
    PROVE  MaterialsInv'
<1> DEFINE r == [kind |-> "check", user |-> u, from |-> None, answers |-> a]
<1>1. TypeOK'
    BY CheckTypes DEF MaterialsInv
<1>2. r \in CheckRequests /\ pc[t] = "idle" /\ Accept(t, r)
    BY DEF CheckRequests, Answers, Check
<1>3. req'[t] = r
    BY <1>2 DEF Accept, MaterialsInv, TypeOK
<1>4. UNCHANGED db /\ FilesStay
    BY DEF Check, FilesStay
<1>5. NameFresh(t) /\ SourceRead(t)' /\ AnswersGiven(t)' /\ DiskAccepted'
    BY <1>3 DEF NameFresh, SourceRead, AnswersGiven, Storing, Uploading, Check,
       MaterialsInv, DiskAccepted
<1>6. QED
    BY <1>1, <1>2, <1>4, <1>5, AcceptKeeps

\* The statements before the commit leave what the request asks for alone
\* (CaseMaterialRepository.add, EventBus.publish).
LEMMA StatementKeeps ==
    ASSUME MaterialsInv, NEW t \in Txns, Insert(t) \/ Publish(t) \/ PublishFails(t),
           TypeOK', RequestSound(t)'
    PROVE  MaterialsInv'
<1>1. UNCHANGED <<req, disk, db>> /\ UNCHANGED <<uploads, checks>>
    BY DEF Insert, Publish, PublishFails, db
<1>2. OthersStay(t)
    BY DEF OthersStay, Insert, Publish, PublishFails, Goto, MaterialsInv, TypeOK
<1>3. FilesStay
    BY <1>1 DEF FilesStay
<1>4. NameFresh(t)
    BY <1>1 DEF NameFresh, Storing, Uploading
<1>5. IdFresh(t)
    BY DEF IdFresh, Insert, Publish, PublishFails, MaterialsInv, TypeOK
<1>6. SourceRead(t)' /\ AnswersGiven(t)' /\ DiskAccepted'
    BY <1>1 DEF MaterialsInv, SourceRead, AnswersGiven, DiskAccepted, Uploading, MayUse
<1>7. UNCHANGED db
    BY <1>1
<1>8. QED
    BY <1>2, <1>3, <1>4, <1>5, <1>6, <1>7, UncommittedKeeps

LEMMA InsertKeeps ==
    ASSUME MaterialsInv, NEW t \in Txns, Insert(t)
    PROVE  MaterialsInv'
<1> TypeOK /\ RequestSound(t)
    BY DEF MaterialsInv
<1>1. TypeOK'
    BY InsertTypes
<1>2. /\ pc'[t] = "publish" /\ req' = req /\ req[t] # None
      /\ answer'[t] = None
    BY DEF Insert, Goto, TypeOK, RequestSound, Running
<1>3. id'[t] # None
    BY CaseMaterialsAssumption DEF Insert, TypeOK
<1>4. row'[t] = IF Uploading(t) THEN NewUpload(req[t]) ELSE NewCheck(req[t])
    BY DEF Insert, TypeOK
<1>5. RequestSound(t)'
    BY <1>2, <1>3, <1>4 DEF RequestSound, Uploading, Running, NewUpload, NewCheck
<1>6. QED
    BY <1>1, <1>5, StatementKeeps

LEMMA PublishKeeps ==
    ASSUME MaterialsInv, NEW t \in Txns, Publish(t)
    PROVE  MaterialsInv'
<1> TypeOK /\ RequestSound(t) /\ FileOwn(t)
    BY DEF MaterialsInv
<1>1. TypeOK'
    BY PublishTypes
<1>2. /\ pc'[t] = "commit" /\ req' = req /\ disk' = disk
      /\ id' = id /\ id[t] # None /\ req[t] # None
      /\ answer'[t] = "ok"
    BY DEF Publish, Goto, TypeOK, RequestSound, Running
<1>3. row'[t] = FinalRow(t)
    BY FlushMakesFinalRow DEF Publish, TypeOK
<1>4. FinalRow(t)' = FinalRow(t)
    BY <1>2 DEF FinalRow, Uploading, Extracted, NewCheck
<1>5. RequestSound(t)'
    BY <1>2, <1>3, <1>4 DEF RequestSound, FinalRow, Running
<1>6. QED
    BY <1>1, <1>5, StatementKeeps

LEMMA PublishFailsKeeps ==
    ASSUME MaterialsInv, NEW t \in Txns, PublishFails(t)
    PROVE  MaterialsInv'
<1> TypeOK /\ RequestSound(t)
    BY DEF MaterialsInv
<1>1. TypeOK'
    BY PublishFailsTypes
<1>2. /\ pc'[t] = "commit" /\ audit'[t] = "failed" /\ req' = req /\ req[t] # None
      /\ answer'[t] = "ok"
    BY DEF PublishFails, Goto, TypeOK, RequestSound, Running
<1>3. RequestSound(t)'
    BY <1>2 DEF RequestSound, Running
<1>4. QED
    BY <1>1, <1>3, StatementKeeps

LEMMA GiveUpKeeps ==
    ASSUME MaterialsInv, NEW t \in Txns, CommitFails(t) \/ Fail(t)
    PROVE  MaterialsInv'
<1>1. TypeOK'
    BY GiveUpTypes DEF MaterialsInv
<1>2. /\ Close(t, "rolled_back") /\ "rolled_back" \in Ends
      /\ UNCHANGED <<disk, db, audit>> /\ AnswerOnly(t)
    BY DEF CommitFails, Fail, Ends, AnswerOnly, MaterialsInv, TypeOK
<1>3. QED
    BY <1>1, <1>2, EndKeeps

\* The commit of a request (get_db, after the answer).
LEMMA CommitKeeps ==
    ASSUME MaterialsInv, NEW t \in Txns, Commit(t)
    PROVE  MaterialsInv'
<1> TypeOK /\ RequestSound(t) /\ FileOwn(t) /\ IdOwn(t)
    BY DEF MaterialsInv
<1> DEFINE i0 == id[t]
<1>1. TypeOK'
    BY CommitTypes
<1>2. /\ req[t] # None /\ i0 \in Ids /\ row[t] = FinalRow(t)
      /\ uploads[i0] = None /\ checks[i0] = None
    BY DEF RequestSound, IdOwn, Commit, Running, FinalRow, TypeOK
<1>3. Close(t, "committed") /\ "committed" \in Ends
      /\ disk' = disk /\ audit' = audit /\ answer' = answer
      /\ trail' = trail \cup {EntryOf(t)}
    BY DEF Commit, Ends
<1>4. pc'[t] = "committed" /\ req'[t] = None /\ id'[t] = None
    BY <1>3 DEF Close, Goto, TypeOK
<1>5. OthersStay(t) /\ FilesStay
    BY <1>3 DEF OthersStay, FilesStay, Close, Goto, TypeOK
<1>6. ASSUME NEW s \in Txns \ {t}
      PROVE  /\ Storing(s)' <=> Storing(s)
             /\ Uploading(s)' <=> Uploading(s)
             /\ req'[s] = req[s] /\ id'[s] = id[s]
    BY <1>5 DEF OthersStay, Storing, Uploading
<1>7. \A i \in Ids \ {i0} : uploads'[i] = uploads[i] /\ checks'[i] = checks[i]
    BY DEF Commit, TypeOK
<1>8. ASSUME Uploading(t)
      PROVE  /\ uploads'[i0] = FinalRow(t) /\ checks'[i0] = None
             /\ uploads'[i0] # None
             /\ uploads'[i0].name = req[t].name
  <2>1. uploads'[i0] = FinalRow(t) /\ checks' = checks
      BY <1>2, <1>8 DEF Commit, TypeOK
  <2>2. FinalRow(t) \in Uploads
      BY <1>2, <1>8, FinalRowFits
  <2>3. FinalRow(t) # None
      BY <2>2, CaseMaterialsAssumption
  <2>4. FinalRow(t).name = req[t].name
      BY <1>8 DEF FinalRow
  <2>5. QED
      BY <1>2, <2>1, <2>3, <2>4
<1>9. ASSUME ~Uploading(t)
      PROVE  /\ checks'[i0] = NewCheck(req[t]) /\ uploads'[i0] = None
             /\ checks'[i0] # None
  <2>1. checks'[i0] = NewCheck(req[t]) /\ uploads' = uploads
      BY <1>2, <1>9 DEF Commit, TypeOK, FinalRow
  <2>2. NewCheck(req[t]) \in Checks
      BY <1>2, <1>9, Kinds, NewRowsFit
  <2>3. NewCheck(req[t]) # None
      BY <2>2, CaseMaterialsAssumption
  <2>4. QED
      BY <1>2, <2>1, <2>3
<1>10. \A i \in Ids : uploads[i] # None => uploads'[i] = uploads[i]
    BY <1>2, <1>7
<1>11. ASSUME NEW s \in Txns PROVE RequestSound(s)'
  <2>1. CASE s = t
      BY <1>4, <2>1 DEF RequestSound, Running
  <2>2. CASE s # t
      BY <1>5, <2>2, OthersSound
  <2>3. QED
      BY <2>1, <2>2
<1>12. ASSUME NEW s \in Txns PROVE FileOwn(s)'
  <2> SUFFICES ASSUME Storing(s)' PROVE FileOwn(s)'
      BY DEF FileOwn
  <2>1. s # t /\ Storing(s) /\ FileOwn(s)
      BY <1>4, <1>6 DEF Storing, MaterialsInv
  <2>2. ASSUME NEW i \in Ids, uploads'[i] # None PROVE uploads'[i].name # req[s].name
    <3>1. CASE i = i0
      <4>1. Uploading(t)
          BY <1>9, <2>2, <3>1
      <4>2. req[t].name # req[s].name
          BY <1>2, <2>1, <4>1 DEF FileOwn, Storing
      <4>3. QED
          BY <1>8, <3>1, <4>1, <4>2
    <3>2. CASE i # i0
        BY <1>7, <2>1, <2>2, <3>2 DEF FileOwn
    <3>3. QED
        BY <3>1, <3>2
  <2>3. \A r \in Txns \ {s} : Storing(r)' => Storing(r) /\ req'[r] = req[r]
      BY <1>4, <1>6 DEF Storing
  <2>4. req'[s] = req[s]
      BY <1>6, <2>1
  <2>5. QED
      BY <1>3, <2>1, <2>2, <2>3, <2>4 DEF FileOwn
<1>13. ASSUME NEW s \in Txns PROVE IdOwn(s)'
  <2> SUFFICES ASSUME id'[s] # None PROVE IdOwn(s)'
      BY DEF IdOwn
  <2>1. s # t /\ id'[s] = id[s] /\ IdOwn(s)
      BY <1>4, <1>6 DEF MaterialsInv
  <2>2. id[s] \in Ids \ {i0}
      BY <1>2, <2>1 DEF IdOwn, TypeOK
  <2>3. \A r \in Txns \ {s} : id'[r] # id[s]
      BY <1>4, <1>6, <2>1 DEF IdOwn
  <2>4. QED
      BY <1>7, <2>1, <2>2, <2>3 DEF IdOwn
<1>14. ASSUME NEW s \in Txns PROVE SourceRead(s)'
  <2> SUFFICES ASSUME req'[s] # None, ~Uploading(s)', req'[s].from # None
               PROVE  SourceRead(s)'
      BY DEF SourceRead
  <2>1. s # t /\ req'[s] = req[s] /\ ~Uploading(s)
      BY <1>4, <1>6
  <2>2. req[s].from \in Ids
      BY <2>1, Kinds DEF CheckRequests
  <2>3. SourceRead(s)
      BY DEF MaterialsInv
  <2>4. QED
      BY <1>10, <2>1, <2>2, <2>3 DEF SourceRead, MayUse
<1>15. UploadsComplete'
  <2> SUFFICES ASSUME NEW i \in Ids, uploads'[i] # None PROVE RowComplete(i)'
      BY DEF UploadsComplete
  <2>1. CASE i = i0
    <3>1. Uploading(t) /\ Storing(t)
        BY <1>2, <1>9, <2>1 DEF Storing
    <3>2. /\ disk[req[t].name] # None
          /\ uploads'[i].name = req[t].name
          /\ uploads'[i].status = Extracted(disk[req[t].name]).status
          /\ uploads'[i].draft = Extracted(disk[req[t].name]).draft
        BY <1>8, <2>1, <3>1 DEF FileOwn, FinalRow
    <3>3. \A j \in Ids \ {i} : uploads'[j] # None => uploads'[j].name # req[t].name
        BY <1>7, <2>1, <3>1 DEF FileOwn
    <3>4. QED
        BY <1>3, <3>2, <3>3 DEF RowComplete, Extracted
  <2>2. CASE i # i0
    <3>1. uploads'[i] = uploads[i] /\ RowComplete(i)
        BY <1>7, <2>2 DEF MaterialsInv, UploadsComplete
    <3>2. ASSUME NEW j \in Ids \ {i}, uploads'[j] # None
          PROVE  uploads'[j].name # uploads[i].name
      <4>1. CASE j = i0
        <5>1. Uploading(t) /\ Storing(t)
            BY <1>2, <1>9, <3>2, <4>1 DEF Storing
        <5>2. QED
            BY <1>8, <3>1, <4>1, <5>1 DEF FileOwn
      <4>2. CASE j # i0
          BY <1>7, <3>1, <3>2, <4>2 DEF RowComplete
      <4>3. QED
          BY <4>1, <4>2
    <3>3. QED
        BY <1>3, <3>1, <3>2 DEF RowComplete, Extracted
  <2>3. QED
      BY <2>1, <2>2
<1>16. JournalMatches'
  <2>1. EntryOf(t).id = i0
      BY DEF EntryOf
  <2>2. Uploading(t) => EntryOf(t).event = "CaseMaterialUploaded"
      BY DEF EntryOf
  <2>3. ~Uploading(t) => EntryOf(t).event = "CheckCreated"
      BY DEF EntryOf
  <2>4. \A i \in Ids, event \in {"CaseMaterialUploaded", "CheckCreated"} :
          Recorded(i, event)' <=> \/ Recorded(i, event)
                                  \/ i = i0 /\ EntryOf(t).event = event
      BY <1>3, <2>1 DEF Recorded
  <2> SUFFICES ASSUME NEW i \in Ids
               PROVE  /\ uploads'[i] # None <=> Recorded(i, "CaseMaterialUploaded")'
                      /\ checks'[i] # None <=> Recorded(i, "CheckCreated")'
      BY DEF JournalMatches, Recorded
  <2>5. /\ uploads[i] # None <=> Recorded(i, "CaseMaterialUploaded")
        /\ checks[i] # None <=> Recorded(i, "CheckCreated")
      BY DEF MaterialsInv, JournalMatches
  <2>6. CASE i # i0
      BY <1>7, <2>4, <2>5, <2>6
  <2>7. CASE i = i0 /\ Uploading(t)
      BY <1>2, <1>8, <2>2, <2>4, <2>5, <2>7
  <2>8. CASE i = i0 /\ ~Uploading(t)
      BY <1>2, <1>9, <2>3, <2>4, <2>5, <2>8
  <2>9. QED
      BY <2>6, <2>7, <2>8
<1>17. ChecksFromReadUploads'
  <2> SUFFICES ASSUME NEW i \in Ids, checks'[i] # None, checks'[i].from # None
               PROVE  FromReadUpload(i)'
      BY DEF ChecksFromReadUploads, FromReadUpload
  <2>1. /\ checks'[i].from \in Ids
        /\ uploads[checks'[i].from] # None
        /\ uploads[checks'[i].from].status = "extracted"
        /\ MayUse(checks'[i].owner, uploads[checks'[i].from])
    <3>1. CASE i = i0
      <4>1. ~Uploading(t)
          BY <1>8, <3>1
      <4>2. checks'[i].from = req[t].from /\ checks'[i].owner = req[t].user
          BY <1>9, <3>1, <4>1 DEF NewCheck
      <4>3. req[t].from \in Ids
          BY <1>2, <4>1, <4>2, Kinds DEF CheckRequests
      <4>4. QED
          BY <1>2, <4>1, <4>2, <4>3 DEF MaterialsInv, SourceRead
    <3>2. CASE i # i0
      <4>1. checks'[i] = checks[i] /\ checks[i] \in Checks
          BY <1>7, <3>2 DEF TypeOK
      <4>2. QED
          BY <4>1 DEF MaterialsInv, ChecksFromReadUploads, FromReadUpload, Checks
    <3>3. QED
        BY <3>1, <3>2
  <2>2. uploads'[checks'[i].from] = uploads[checks'[i].from]
      BY <1>10, <2>1
  <2>3. QED
      BY <2>1, <2>2 DEF FromReadUpload, MayUse
<1>18. ChecksJudged'
  <2> SUFFICES ASSUME NEW i \in Ids, checks'[i] # None
               PROVE  checks'[i].results = Evaluate(Role[checks'[i].owner], checks'[i].answers)
      BY DEF ChecksJudged
  <2>1. CASE i = i0
    <3>1. checks'[i] = NewCheck(req[t])
        BY <1>8, <1>9, <2>1
    <3>2. QED
        BY <3>1 DEF NewCheck
  <2>2. CASE i # i0
      BY <1>7, <2>2 DEF MaterialsInv, ChecksJudged
  <2>3. QED
      BY <2>1, <2>2
<1>19. ASSUME NEW s \in Txns PROVE AnswersGiven(s)'
  <2> SUFFICES ASSUME req'[s] # None, ~Uploading(s)' PROVE AnswersGiven(s)'
      BY DEF AnswersGiven
  <2>1. s # t /\ req'[s] = req[s] /\ ~Uploading(s)
      BY <1>4, <1>6
  <2>2. SourceRead(s) /\ AnswersGiven(s)
      BY DEF MaterialsInv
  <2>3. req[s].from \in Ids \cup {None}
      BY <2>1, Kinds DEF CheckRequests
  <2>4. QED
      BY <1>10, <2>1, <2>2, <2>3 DEF SourceRead, AnswersGiven
<1>20. DiskAccepted'
    BY <1>3 DEF MaterialsInv, DiskAccepted
<1>21. QED
    BY <1>1, <1>11, <1>12, <1>13, <1>14, <1>15, <1>16, <1>17, <1>18, <1>19, <1>20
       DEF MaterialsInv

-----------------------------------------------------------------------------
(* The theorems.                                                           *)

\* The invariant holds in every reachable state.
THEOREM MaterialsInvariant == Spec => []MaterialsInv
<1>1. Init => MaterialsInv
    BY InitInv
<1>2. MaterialsInv /\ [Next]_vars => MaterialsInv'
  <2> SUFFICES ASSUME MaterialsInv, [Next]_vars PROVE MaterialsInv'
      OBVIOUS
  <2>1. ASSUME NEW t \in Txns, Arrive(t) PROVE MaterialsInv'
      BY <2>1, UploadKeeps, ConfirmKeeps, CheckKeeps DEF Arrive
  <2>2. ASSUME NEW t \in Txns, Step(t) PROVE MaterialsInv'
      BY <2>2, InsertKeeps, PublishKeeps, PublishFailsKeeps, CommitKeeps, GiveUpKeeps
         DEF Step
  <2>3. CASE AllEnded \/ UNCHANGED vars
    <3>1. UNCHANGED vars
        BY <2>3 DEF AllEnded
    <3>2. QED
        BY <3>1 DEF vars, MaterialsInv, TypeOK, RequestSound, FileOwn, IdOwn, SourceRead,
           AnswersGiven, DiskAccepted,
           Storing, Uploading, UploadsComplete, RowComplete, JournalMatches, Recorded,
           ChecksFromReadUploads, FromReadUpload, ChecksJudged, NewUpload, NewCheck, MayUse, Extracted
  <2>4. QED
      BY <2>1, <2>2, <2>3 DEF Next
<1>3. QED
    BY <1>1, <1>2, PTL DEF Spec

\* Every variable has its type in every reachable state.
THEOREM MaterialsTypes == Spec => []TypeOK
BY MaterialsInvariant, PTL DEF MaterialsInv

\* An upload that readers see has its file and everything that was read in it,
\* whichever flush, commit or process has failed.
THEOREM UploadsAreComplete == Spec => []UploadsComplete
BY MaterialsInvariant, PTL DEF MaterialsInv

\* The journal reports exactly the uploads and the checks there are.
THEOREM JournalIsRight == Spec => []JournalMatches
BY MaterialsInvariant, PTL DEF MaterialsInv

\* Checks made of an upload were made of one that could be read, by its owner or
\* an administrator, however requests interleave.
THEOREM ConfirmationsAreRight == Spec => []ChecksFromReadUploads
BY MaterialsInvariant, PTL DEF MaterialsInv

-----------------------------------------------------------------------------
(* Files without a row.                                                     *)

FilesInv == IsFiniteSet(Orphans) /\ IsFiniteSet(Failures) /\ OnlyFailuresLeaveFiles

\* A step of request t is no step of another.
LEMMA StepOfOne ==
    ASSUME MaterialsInv, NEW t \in Txns, Arrive(t) \/ Step(t)
    PROVE  OthersStay(t)
<1> TypeOK
    BY DEF MaterialsInv
<1>1. ASSUME NEW outcome, Raise(t, outcome) PROVE OthersStay(t)
    BY <1>1 DEF Raise, Close, Goto, OthersStay, TypeOK
<1>2. ASSUME NEW r, Accept(t, r) PROVE OthersStay(t)
    BY <1>2 DEF Accept, Goto, OthersStay, TypeOK
<1>3. CASE Arrive(t)
  <2>1. ASSUME NEW u \in Users, NEW f \in Files, Upload(t, u, f) PROVE OthersStay(t)
      BY <1>1, <1>2, <2>1 DEF Upload
  <2>2. ASSUME NEW u \in Users, NEW i \in Ids, Confirm(t, u, i) PROVE OthersStay(t)
      BY <1>1, <1>2, <2>2 DEF Confirm
  <2>3. ASSUME NEW u \in Users, NEW a \in Payloads, Check(t, u, a) PROVE OthersStay(t)
      BY <1>2, <2>3 DEF Check
  <2>4. QED
      BY <1>3, <2>1, <2>2, <2>3 DEF Arrive
<1>4. CASE Insert(t) \/ Publish(t) \/ PublishFails(t)
    BY <1>4 DEF Insert, Publish, PublishFails, Goto, OthersStay, TypeOK
<1>5. CASE Commit(t) \/ CommitFails(t) \/ Fail(t)
    BY <1>5 DEF Commit, CommitFails, Fail, Close, Goto, OthersStay, TypeOK
<1>6. QED
    BY <1>3, <1>4, <1>5 DEF Step

\* Who is not a failure after its step makes no new one.
LEMMA SameFailures ==
    ASSUME NEW t \in Txns, OthersStay(t), pc[t] # "rolled_back",
           pc'[t] = "rolled_back" => answer'[t] \notin {"ok", "error"}
    PROVE  Failures' = Failures
BY DEF Failures, OthersStay

\* A file keeps its owner if the rows stay and the request that moves does not
\* leave its own file behind.
LEMMA SameOwners ==
    ASSUME NEW t \in Txns, OthersStay(t), NEW n \in Names, HasOwner(n),
           \A i \in Ids : uploads[i] # None => uploads'[i] = uploads[i],
           Storing(t) /\ req[t].name = n => HasOwner(n)'
    PROVE  HasOwner(n)'
<1>1. CASE \E i \in Ids : uploads[i] # None /\ uploads[i].name = n
    BY <1>1 DEF HasOwner
<1>2. CASE \E s \in Txns : req[s] # None /\ Uploading(s) /\ req[s].name = n
  <2>1. PICK s \in Txns : req[s] # None /\ Uploading(s) /\ req[s].name = n
      BY <1>2
  <2>2. CASE s = t
      BY <2>1, <2>2 DEF Storing
  <2>3. CASE s # t
      BY <2>1, <2>3 DEF OthersStay, Uploading, HasOwner
  <2>4. QED
      BY <2>2, <2>3
<1>3. QED
    BY <1>1, <1>2 DEF HasOwner

\* No file without an owner and no failure more.
LEMMA QuietFiles ==
    ASSUME FilesInv, Orphans' \subseteq Orphans, Failures' = Failures
    PROVE  FilesInv'
<1>1. /\ IsFiniteSet(Orphans') /\ Cardinality(Orphans') <= Cardinality(Orphans)
      /\ Cardinality(Orphans') \in Nat /\ Cardinality(Orphans) \in Nat
      /\ Cardinality(Failures) \in Nat
    BY FS_Subset, FS_CardinalityType DEF FilesInv
<1>2. QED
    BY <1>1 DEF FilesInv, OnlyFailuresLeaveFiles

\* A request that fails leaves its own file and no other.
LEMMA LostFile ==
    ASSUME FilesInv, NEW t \in Txns, t \notin Failures, Failures' = Failures \cup {t},
           NEW n, Orphans' \subseteq Orphans \cup {n}
    PROVE  FilesInv'
<1>1. /\ IsFiniteSet(Failures')
      /\ Cardinality(Failures') = Cardinality(Failures) + 1
    BY FS_AddElement DEF FilesInv
<1>2. /\ IsFiniteSet(Orphans \cup {n})
      /\ Cardinality(Orphans \cup {n}) <= Cardinality(Orphans) + 1
      /\ Cardinality(Orphans \cup {n}) \in Nat
  <2>1. IsFiniteSet(Orphans)
      BY DEF FilesInv
  <2>2. /\ IsFiniteSet(Orphans \cup {n})
        /\ Cardinality(Orphans \cup {n}) =
             IF n \in Orphans THEN Cardinality(Orphans) ELSE Cardinality(Orphans) + 1
      BY <2>1, FS_AddElement
  <2>3. Cardinality(Orphans) \in Nat
      BY <2>1, FS_CardinalityType
  <2>4. QED
      BY <2>2, <2>3
<1>3. /\ IsFiniteSet(Orphans')
      /\ Cardinality(Orphans') <= Cardinality(Orphans \cup {n})
      /\ Cardinality(Orphans') \in Nat
    BY <1>2, FS_Subset, FS_CardinalityType
<1>4. Cardinality(Orphans) \in Nat /\ Cardinality(Failures) \in Nat
    BY FS_CardinalityType DEF FilesInv
<1>5. Cardinality(Orphans) <= Cardinality(Failures)
    BY DEF FilesInv, OnlyFailuresLeaveFiles
<1>6. Cardinality(Orphans') <= Cardinality(Failures')
    BY <1>1, <1>2, <1>3, <1>4, <1>5
<1>7. QED
    BY <1>1, <1>3, <1>6 DEF FilesInv, OnlyFailuresLeaveFiles

\* A request that arrives stores its file under its own name, or nothing at all
\* (upload, confirm, create_check).
LEMMA ArriveFiles ==
    ASSUME MaterialsInv, FilesInv, NEW t \in Txns, Arrive(t)
    PROVE  FilesInv'
<1> TypeOK /\ RequestSound(t)
    BY DEF MaterialsInv
<1>1. OthersStay(t) /\ pc[t] = "idle" /\ UNCHANGED uploads
    BY StepOfOne DEF Arrive, Upload, Confirm, Check, db
<1>2. ~Storing(t)
    BY <1>1 DEF RequestSound, Running, Storing
<1>3. \A n \in Names : HasOwner(n) => HasOwner(n)'
    BY <1>1, <1>2, SameOwners
<1>4. ASSUME NEW outcome \in Refusals, Raise(t, outcome)
      PROVE  pc'[t] = "rolled_back" /\ answer'[t] \notin {"ok", "error"}
    BY <1>4 DEF Raise, Close, Goto, TypeOK, Refusals
<1>5. ASSUME NEW r, Accept(t, r)
      PROVE  pc'[t] = "insert" /\ req'[t] = r
    BY <1>5 DEF Accept, Goto, TypeOK
<1>6. /\ pc'[t] = "rolled_back" => answer'[t] \notin {"ok", "error"}
      /\ \A n \in Names : disk'[n] # None /\ disk[n] = None => HasOwner(n)'
  <2>1. ASSUME NEW u \in Users, NEW f \in Files, Upload(t, u, f) PROVE <1>6!:
    <3>1. CASE Refusal(f) # None
      <4>1. Raise(t, Refusal(f)) /\ Refusal(f) \in Refusals /\ disk' = disk
          BY <2>1, <3>1 DEF Upload, Refusal, Refusals
      <4>2. QED
          BY <1>4, <4>1
    <3>2. CASE Refusal(f) = None
      <4> DEFINE r(n) == [kind |-> "upload", user |-> u, name |-> n]
      <4>1. PICK n \in Names : disk' = [disk EXCEPT ![n] = f] /\ Accept(t, r(n))
          BY <2>1, <3>2 DEF Upload
      <4>2. pc'[t] = "insert" /\ req'[t] = r(n)
          BY <1>5, <4>1
      <4>3. r(n) # None /\ r(n).kind = "upload" /\ r(n).name = n
          BY CaseMaterialsAssumption DEF UploadRequests
      <4>4. HasOwner(n)'
          BY <4>2, <4>3 DEF HasOwner, Uploading
      <4>5. \A m \in Names \ {n} : disk'[m] = disk[m]
          BY <4>1 DEF TypeOK
      <4>6. QED
          BY <4>2, <4>4, <4>5
    <3>3. QED
        BY <3>1, <3>2
  <2>2. ASSUME NEW u \in Users, NEW i \in Ids, Confirm(t, u, i) PROVE <1>6!:
    <3>1. disk' = disk
        BY <2>2 DEF Confirm
    <3>2. ConfirmRefusal(u, i) \in Refusals \cup {None}
        BY DEF ConfirmRefusal, Refusals
    <3>3. pc'[t] = "rolled_back" => answer'[t] \notin {"ok", "error"}
        BY <1>4, <1>5, <2>2, <3>2 DEF Confirm
    <3>4. QED
        BY <3>1, <3>3
  <2>3. ASSUME NEW u \in Users, NEW a \in Payloads, Check(t, u, a) PROVE <1>6!:
      BY <1>5, <2>3 DEF Check
  <2>4. QED
      BY <2>1, <2>2, <2>3 DEF Arrive
<1>7. Orphans' \subseteq Orphans
    BY <1>3, <1>6 DEF Orphans
<1>8. Failures' = Failures
    BY <1>1, <1>6, SameFailures
<1>9. QED
    BY <1>7, <1>8, QuietFiles

\* The statements of a request: the commit hands its file to the row, a failure
\* leaves it behind.
LEMMA StepFiles ==
    ASSUME MaterialsInv, FilesInv, NEW t \in Txns, Step(t)
    PROVE  FilesInv'
<1> TypeOK /\ RequestSound(t) /\ FileOwn(t) /\ IdOwn(t)
    BY DEF MaterialsInv
<1>1. OthersStay(t) /\ disk' = disk /\ pc[t] \in Running
    BY StepOfOne
       DEF Step, Insert, Publish, PublishFails, Commit, CommitFails, Fail, Running
<1>2. CASE Insert(t) \/ Publish(t) \/ PublishFails(t)
  <2>1. UNCHANGED <<req, uploads>> /\ pc'[t] \in Running
      BY <1>2 DEF Insert, Publish, PublishFails, Goto, TypeOK, Running, db
  <2>2. Orphans' = Orphans
      BY <1>1, <2>1 DEF Orphans, HasOwner, Uploading
  <2>3. Failures' = Failures
      BY <1>1, <2>1, SameFailures DEF Running
  <2>4. QED
      BY <2>2, <2>3, QuietFiles
<1>3. CASE Commit(t)
  <2>1. /\ id[t] \in Ids /\ row[t] = FinalRow(t) /\ uploads[id[t]] = None
        /\ req[t] # None
      BY <1>3 DEF Commit, RequestSound, FinalRow, IdOwn, TypeOK, Running
  <2>2. pc'[t] = "committed"
      BY <1>3 DEF Commit, Close, Goto, TypeOK
  <2>3. \A i \in Ids : uploads[i] # None => uploads'[i] = uploads[i]
      BY <1>3, <2>1 DEF Commit, TypeOK
  <2>4. ASSUME Storing(t), NEW n \in Names, req[t].name = n PROVE HasOwner(n)'
    <3>1. uploads'[id[t]] = FinalRow(t)
        BY <1>3, <2>1, <2>4 DEF Commit, TypeOK, Storing
    <3>2. FinalRow(t) # None /\ FinalRow(t).name = req[t].name
      <4>1. FinalRow(t) \in Uploads
          BY <2>4, FinalRowFits DEF Storing
      <4>2. QED
          BY <2>4, <4>1, CaseMaterialsAssumption DEF FinalRow, Storing
    <3>3. uploads'[id[t]] # None /\ uploads'[id[t]].name = n
        BY <2>4, <3>1, <3>2
    <3>4. QED
        BY <2>1, <3>3 DEF HasOwner
  <2>5. \A n \in Names : HasOwner(n) => HasOwner(n)'
      BY <1>1, <2>3, <2>4, SameOwners
  <2>6. Orphans' \subseteq Orphans
      BY <1>1, <2>5 DEF Orphans
  <2>7. Failures' = Failures
      BY <1>1, <2>2, SameFailures DEF Running
  <2>8. QED
      BY <2>6, <2>7, QuietFiles
<1>4. CASE CommitFails(t) \/ Fail(t)
  <2>1. /\ pc'[t] = "rolled_back" /\ answer'[t] \in {"ok", "error"}
        /\ UNCHANGED uploads
      BY <1>1, <1>4, CaseMaterialsAssumption
         DEF CommitFails, Fail, Close, Goto, TypeOK, RequestSound, Running, db
  <2>2. t \notin Failures /\ Failures' = Failures \cup {t}
      BY <1>1, <2>1 DEF Failures, Running, OthersStay
  <2>3. \A n \in Names : HasOwner(n) /\ n # req[t].name => HasOwner(n)'
      BY <1>1, <2>1, SameOwners
  <2>4. Orphans' \subseteq Orphans \cup {req[t].name}
      BY <1>1, <2>3 DEF Orphans
  <2>5. QED
      BY <2>2, <2>4, LostFile
<1>5. QED
    BY <1>2, <1>3, <1>4 DEF Step

\* Every file that no row tells of comes of a request that failed under way,
\* and no request leaves two: disk and database, which share no transaction,
\* drift apart by failures alone.
THEOREM FilesAreAccountedFor == Spec => []OnlyFailuresLeaveFiles
<1>1. Init => FilesInv
  <2> SUFFICES ASSUME Init PROVE FilesInv
      OBVIOUS
  <2>1. Orphans = {} /\ Failures = {}
      BY DEF Init, Orphans, Failures
  <2>2. QED
      BY <2>1, FS_EmptySet DEF FilesInv, OnlyFailuresLeaveFiles
<1>2. MaterialsInv /\ FilesInv /\ [Next]_vars => FilesInv'
  <2> SUFFICES ASSUME MaterialsInv, FilesInv, [Next]_vars PROVE FilesInv'
      OBVIOUS
  <2>1. CASE \E t \in Txns : Arrive(t) \/ Step(t)
      BY <2>1, ArriveFiles, StepFiles
  <2>2. CASE AllEnded \/ UNCHANGED vars
    <3>1. Orphans' = Orphans /\ Failures' = Failures
        BY <2>2 DEF AllEnded, vars, Orphans, Failures, HasOwner, Uploading
    <3>2. QED
        BY <3>1, QuietFiles
  <2>3. QED
      BY <2>1, <2>2 DEF Next
<1>3. Spec => []FilesInv
    BY <1>1, <1>2, MaterialsInvariant, PTL DEF Spec
<1>4. QED
    BY <1>3, PTL DEF FilesInv

-----------------------------------------------------------------------------
(* Induction over the documents of a file, by way of the least number that *)
(* fails: it is below no other in the ordering of the sets 0 .. n.         *)

LEMMA LeastNatural ==
    ASSUME NEW S \in SUBSET Nat, S # {}
    PROVE  \E m \in S : \A k \in S : m <= k
<1> DEFINE T == {0 .. n : n \in S}
<1>1. T \subseteq FiniteSubsetsOf(Nat)
  <2> SUFFICES ASSUME NEW n \in S PROVE 0 .. n \in FiniteSubsetsOf(Nat)
      OBVIOUS
  <2>1. IsFiniteSet(0 .. n)
      BY FS_Interval
  <2> QED
      BY <2>1 DEF FiniteSubsetsOf
<1>2. T # {}
    OBVIOUS
<1> HIDE DEF T
<1>3. PICK x \in T : \A y \in T : <<y, x>> \notin StrictSubsetOrdering(Nat)
    BY <1>1, <1>2, FS_StrictSubsetOrderingWellFounded, WFMin
<1>4. PICK m \in S : x = 0 .. m
    BY DEF T
<1>5. ASSUME NEW k \in S, k < m PROVE FALSE
  <2>1. m \in 0 .. m /\ m \notin 0 .. k
      BY <1>5
  <2>2. 0 .. k \subseteq 0 .. m /\ 0 .. k # 0 .. m
      BY <1>5, <2>1
  <2>3. <<0 .. k, 0 .. m>> \in StrictSubsetOrdering(Nat)
      BY <2>2 DEF StrictSubsetOrdering
  <2>4. 0 .. k \in T
      BY DEF T
  <2> QED
      BY <1>3, <1>4, <2>3, <2>4
<1> QED
    BY <1>5

LEMMA InductionUpTo ==
    ASSUME NEW N \in Nat, NEW P, 0 \in P,
           \A n \in 0 .. N : n \in P /\ n < N => n + 1 \in P
    PROVE  \A n \in 0 .. N : n \in P
<1> DEFINE Failing == {n \in 0 .. N : n \notin P}
<1> SUFFICES ASSUME Failing # {} PROVE FALSE
    OBVIOUS
<1>1. Failing \in SUBSET Nat
    OBVIOUS
<1>2. \E m \in Failing : \A k \in Failing : m <= k
  <2> HIDE DEF Failing
  <2> QED
      BY <1>1, LeastNatural
<1>3. PICK m \in Failing : \A k \in Failing : m <= k
    BY <1>2
<1>4. m # 0 /\ m - 1 \in 0 .. N /\ m - 1 < N
    BY <1>3
<1>5. m - 1 \in P
    BY <1>3, <1>4
<1> QED
    BY <1>3, <1>4, <1>5

-----------------------------------------------------------------------------
(* What the documents of a file say.                                        *)

IsMerge(g, documents, N) ==
    g = [n \in 0 .. N |-> IF n = 0 THEN NoAnswers ELSE Merge(g[n - 1], documents[n])]

\* merged, after each document.
Merged(documents) == CHOOSE g : IsMerge(g, documents, Len(documents))

LEMMA MergeExists ==
    ASSUME NEW documents, NEW N \in Nat
    PROVE  \E g : IsMerge(g, documents, N)
<1> DEFINE P == {n \in 0 .. N : \E g : IsMerge(g, documents, n)}
<1>1. 0 \in P
  <2>1. IsMerge([n \in 0 .. 0 |-> NoAnswers], documents, 0)
      BY DEF IsMerge
  <2> QED
      BY <2>1
<1>2. ASSUME NEW n \in 0 .. N, n \in P, n < N PROVE n + 1 \in P
  <2>1. PICK g : IsMerge(g, documents, n)
      BY <1>2
  <2> DEFINE h == [k \in 0 .. n + 1 |-> IF k = n + 1 THEN Merge(g[n], documents[k]) ELSE g[k]]
  <2>2. \A k \in 0 .. n : g[k] = IF k = 0 THEN NoAnswers ELSE Merge(g[k - 1], documents[k])
      BY <2>1, Zenon DEF IsMerge
  <2>3. \A k \in 0 .. n + 1 : h[k] = IF k = 0 THEN NoAnswers ELSE Merge(h[k - 1], documents[k])
    <3> TAKE k \in 0 .. n + 1
    <3>1. CASE k = n + 1
        BY <3>1
    <3>2. CASE k \in 0 .. n
        BY <2>2, <3>2
    <3> QED
        BY <3>1, <3>2
  <2>4. IsMerge(h, documents, n + 1)
      BY <2>3 DEF IsMerge
  <2> QED
      BY <1>2, <2>4
<1> HIDE DEF P
<1>3. \A n \in 0 .. N : n \in P
    BY <1>1, <1>2, InductionUpTo
<1> QED
    BY <1>3 DEF P

\* _merge_answers, document by document.
LEMMA MergeSteps ==
    ASSUME NEW documents, Len(documents) \in Nat
    PROVE  /\ Merged(documents)[0] = NoAnswers
           /\ \A n \in 1 .. Len(documents) :
                Merged(documents)[n] = Merge(Merged(documents)[n - 1], documents[n])
<1> DEFINE g == Merged(documents)
<1>1. IsMerge(g, documents, Len(documents))
    BY MergeExists DEF Merged
<1> HIDE DEF g
<1>2. \A n \in 0 .. Len(documents) :
        g[n] = IF n = 0 THEN NoAnswers ELSE Merge(g[n - 1], documents[n])
    BY <1>1, Zenon DEF IsMerge
<1> QED
    BY <1>2 DEF g

\* The draft is what the last document leaves.
LEMMA DraftIsMerged ==
    ASSUME NEW f
    PROVE  Draft(f) = Merged(f.documents)[Len(f.documents)]
BY DEF Draft, Merged, IsMerge

\* dict.update: the later document answers where it says something, elsewhere
\* what was said before stays.
LEMMA MergeReads ==
    ASSUME NEW merged, NEW d, NEW c, NEW k
    PROVE  Get(AnswersTo(c, Merge(merged, d)), k) =
             IF k \in DOMAIN AnswersTo(c, Suggested(d))
             THEN AnswersTo(c, Suggested(d))[k]
             ELSE Get(AnswersTo(c, merged), k)
<1> DEFINE new == Suggested(d)
           old == AnswersTo(c, merged)
           now == AnswersTo(c, new)
<1>1. Merge(merged, d) = [e \in DOMAIN merged \cup DOMAIN new |->
                            Updated(AnswersTo(e, merged), AnswersTo(e, new))]
    BY DEF Merge
<1>2. CASE c \in DOMAIN merged \cup DOMAIN new
  <2>1. AnswersTo(c, Merge(merged, d)) = Updated(old, now)
    <3> HIDE DEF new
    <3> QED
        BY <1>1, <1>2 DEF AnswersTo
  <2> HIDE DEF new, old, now
  <2>2. Get(Updated(old, now), k) = IF k \in DOMAIN now THEN now[k] ELSE Get(old, k)
      BY DEF Get, Updated
  <2> QED
      BY <2>1, <2>2 DEF new, old, now
<1>3. CASE c \notin DOMAIN merged \cup DOMAIN new
  <2>1. /\ AnswersTo(c, Merge(merged, d)) = Unanswered
        /\ old = Unanswered /\ now = Unanswered
    <3> HIDE DEF new
    <3> QED
        BY <1>1, <1>3 DEF AnswersTo
  <2>2. k \notin DOMAIN Unanswered
      BY DEF Unanswered
  <2> QED
      BY <2>1, <2>2
<1> QED
    BY <1>2, <1>3

\* The first n documents that answer field k of criterion c, and what the last
\* of them says.
Said(documents, n, c, k) == {m \in 1 .. n : k \in DOMAIN AnswersTo(c, Suggested(documents[m]))}

LastSaid(documents, n, c, k) ==
    IF Said(documents, n, c, k) = {} THEN Null
    ELSE AnswersTo(c, Suggested(documents[Max(Said(documents, n, c, k))]))[k]

LEMMA OneMoreDocument ==
    ASSUME NEW documents, NEW n \in Nat, NEW c, NEW k
    PROVE  LastSaid(documents, n + 1, c, k) =
             IF k \in DOMAIN AnswersTo(c, Suggested(documents[n + 1]))
             THEN AnswersTo(c, Suggested(documents[n + 1]))[k]
             ELSE LastSaid(documents, n, c, k)
<1> DEFINE S == Said(documents, n + 1, c, k)
           says(m) == k \in DOMAIN AnswersTo(c, Suggested(documents[m]))
<1>1. CASE says(n + 1)
  <2>1. S \subseteq 1 .. n + 1 /\ n + 1 \in S
      BY <1>1 DEF Said
  <2> HIDE DEF S
  <2>2. /\ \A y \in S : n + 1 >= y
        /\ \A x \in S : (\A y \in S : x >= y) => x = n + 1
      BY <2>1
  <2>3. Max(S) = CHOOSE x \in S : \A y \in S : x >= y
      BY Zenon DEF Max
  <2>4. Max(S) = n + 1
      BY <2>1, <2>2, <2>3
  <2> QED
      BY <1>1, <2>1, <2>4 DEF S, LastSaid
<1>2. CASE ~says(n + 1)
  <2>1. \A m \in 1 .. n + 1 : says(m) => m \in 1 .. n
      BY <1>2
  <2>2. Said(documents, n + 1, c, k) = Said(documents, n, c, k)
      BY <2>1 DEF Said
  <2> QED
      BY <1>2, <2>2 DEF LastSaid
<1> QED
    BY <1>1, <1>2

\* A draft answers every question as the last document does that says anything
\* of it, and leaves all others open.
LEMMA DraftReads ==
    ASSUME NEW documents, Len(documents) \in Nat, NEW c, NEW k
    PROVE  Get(AnswersTo(c, Merged(documents)[Len(documents)]), k)
             = LastSaid(documents, Len(documents), c, k)
<1> DEFINE N == Len(documents)
           g == Merged(documents)
           P == {n \in 0 .. N : Get(AnswersTo(c, g[n]), k) = LastSaid(documents, n, c, k)}
<1>1. 0 \in P
  <2>1. AnswersTo(c, NoAnswers) = Unanswered
      BY DEF AnswersTo, NoAnswers
  <2>2. Get(Unanswered, k) = Null
      BY DEF Get, Unanswered
  <2>3. LastSaid(documents, 0, c, k) = Null
      BY DEF LastSaid, Said
  <2> QED
      BY <2>1, <2>2, <2>3, MergeSteps
<1>2. ASSUME NEW n \in 0 .. N, n \in P, n < N PROVE n + 1 \in P
  <2>1. n + 1 \in 1 .. N /\ n \in Nat /\ n + 1 - 1 = n
      BY <1>2
  <2>2. g[n + 1] = Merge(g[n], documents[n + 1])
      BY <2>1, MergeSteps
  <2> HIDE DEF g
  <2>3. Get(AnswersTo(c, g[n + 1]), k) =
          IF k \in DOMAIN AnswersTo(c, Suggested(documents[n + 1]))
          THEN AnswersTo(c, Suggested(documents[n + 1]))[k]
          ELSE Get(AnswersTo(c, g[n]), k)
      BY <2>2, MergeReads
  <2>4. Get(AnswersTo(c, g[n]), k) = LastSaid(documents, n, c, k)
      BY <1>2
  <2>5. Get(AnswersTo(c, g[n + 1]), k) = LastSaid(documents, n + 1, c, k)
      BY <2>1, <2>3, <2>4, OneMoreDocument
  <2> QED
      BY <2>1, <2>5
<1> HIDE DEF P
<1>3. \A n \in 0 .. N : n \in P
    BY <1>1, <1>2, InductionUpTo
<1>4. N \in 0 .. N
    OBVIOUS
<1> QED
    BY <1>3, <1>4 DEF P

\* A draft is stored only of a file that could be read.
LEMMA ReadDraft ==
    ASSUME NEW f, Extracted(f).status = "extracted"
    PROVE  Extracted(f).draft = Draft(f)
BY DEF Extracted

\* In a committed row that was read, every answer is that of the last document
\* of its file that gives one.
LEMMA RowReads ==
    ASSUME MaterialsInv, NEW i \in Ids, uploads[i] # None, uploads[i].status = "extracted"
    PROVE  LET f == disk[uploads[i].name]
           IN  /\ f \in Files
               /\ Len(f.documents) \in Nat /\ DOMAIN f.documents = 1 .. Len(f.documents)
               /\ \A m \in 1 .. Len(f.documents) : f.documents[m] \in CaseDocuments
               /\ \A c, k : Get(AnswersTo(c, uploads[i].draft), k)
                              = LastSaid(f.documents, Len(f.documents), c, k)
<1> DEFINE f == disk[uploads[i].name]
<1>1. RowComplete(i) /\ uploads[i].name \in Names
    BY DEF MaterialsInv, TypeOK, Uploads, UploadsComplete
<1>2. f \in Files /\ Extracted(f).status = "extracted" /\ uploads[i].draft = Extracted(f).draft
    BY <1>1 DEF RowComplete, MaterialsInv, TypeOK
<1> HIDE DEF f
<1>3. f.documents \in Seq(CaseDocuments)
    BY <1>2, CaseMaterialsAssumption
<1>4. uploads[i].draft = Merged(f.documents)[Len(f.documents)]
    BY <1>2, ReadDraft, DraftIsMerged
<1>5. Len(f.documents) \in Nat
    BY <1>3
<1>6. \A c, k : Get(AnswersTo(c, uploads[i].draft), k)
                  = LastSaid(f.documents, Len(f.documents), c, k)
    BY <1>4, <1>5, DraftReads
<1> QED
    BY <1>2, <1>3, <1>5, <1>6 DEF f

\* Of several documents that answer a question the last one decides, in every
\* upload that readers see and for any number of documents.
THEOREM TheLastDocumentDecides == Spec => []LastDocumentDecides
<1>1. MaterialsInv => LastDocumentDecides
  <2> DEFINE LastOf(f, c, k) ==
               IF SaidBy(f, c, k) = {} THEN Null
               ELSE AnswersTo(c, Suggested(f.documents[Max(SaidBy(f, c, k))]))[k]
  <2> SUFFICES ASSUME MaterialsInv, NEW i \in Ids,
                      uploads[i] # None, uploads[i].status = "extracted",
                      NEW c \in Numbers, NEW k
               PROVE  Get(AnswersTo(c, uploads[i].draft), k)
                        = LastOf(disk[uploads[i].name], c, k)
      BY DEF LastDocumentDecides
  <2> DEFINE f == disk[uploads[i].name]
  <2>1. /\ DOMAIN f.documents = 1 .. Len(f.documents)
        /\ Get(AnswersTo(c, uploads[i].draft), k)
             = LastSaid(f.documents, Len(f.documents), c, k)
      BY RowReads
  <2> HIDE DEF f
  <2>2. SaidBy(f, c, k) = Said(f.documents, Len(f.documents), c, k)
      BY <2>1 DEF SaidBy, Said
  <2>3. Get(AnswersTo(c, uploads[i].draft), k) = LastOf(f, c, k)
      BY <2>1, <2>2, Zenon DEF LastSaid
  <2> QED
      BY <2>3 DEF f
<1> QED
    BY <1>1, MaterialsInvariant, PTL

-----------------------------------------------------------------------------
(* What the rules make of it.                                               *)

\* The extractors suggest nothing outside three criteria, and never that there
\* are signs of a crime.
LEMMA SuggestedLittle ==
    ASSUME NEW d \in CaseDocuments
    PROVE  /\ DOMAIN Suggested(d) \subseteq {1, 6, 13}
           /\ "has_crime_signs" \notin DOMAIN AnswersTo(1, Suggested(d))
<1>1. CASE d.kind = "resolution"
  <2>1. Suggested(d) = [c \in (IF d.approved THEN {1} ELSE {})
                              \cup (IF d.orm_type # None THEN {13} ELSE {}) |->
                          IF c = 1 THEN One("has_instruction", Flag(TRUE))
                          ELSE One("orm_type", Text(d.orm_type))]
      BY <1>1 DEF Suggested
  <2> DEFINE new == Suggested(d)
             one == One("has_instruction", Flag(TRUE))
  <2>2. /\ DOMAIN new = (IF d.approved THEN {1} ELSE {})
                        \cup (IF d.orm_type # None THEN {13} ELSE {})
        /\ 1 \in DOMAIN new => new[1] = one
      BY <2>1
  <2>3. DOMAIN one = {"has_instruction"}
      BY DEF One
  <2> HIDE DEF new, one
  <2>4. DOMAIN Unanswered = {}
      BY DEF Unanswered
  <2>5. AnswersTo(1, new) = IF 1 \in DOMAIN new THEN new[1] ELSE Unanswered
      BY DEF AnswersTo
  <2>6. "has_crime_signs" \notin DOMAIN AnswersTo(1, new)
      BY <2>2, <2>3, <2>4, <2>5
  <2> QED
      BY <2>2, <2>6 DEF new
<1>2. CASE d.kind # "resolution"
  <2>1. DOMAIN Suggested(d) \subseteq {6, 13}
      BY <1>2 DEF Suggested, CaseDocuments
  <2> QED
      BY <2>1 DEF AnswersTo, Unanswered
<1> QED
    BY <1>1, <1>2

\* So does a draft.
LEMMA DraftLittle ==
    ASSUME NEW documents, NEW n \in Nat, NEW c, NEW k,
           \A m \in 1 .. n : documents[m] \in CaseDocuments,
           c \notin {1, 6, 13} \/ (c = 1 /\ k = "has_crime_signs")
    PROVE  LastSaid(documents, n, c, k) = Null
<1>1. \A m \in 1 .. n : k \notin DOMAIN AnswersTo(c, Suggested(documents[m]))
    BY SuggestedLittle DEF AnswersTo, Unanswered
<1>2. Said(documents, n, c, k) = {}
    BY <1>1 DEF Said
<1> QED
    BY <1>2 DEF LastSaid

\* A rule gives one of three verdicts.
LEMMA VerdictIsGrade ==
    ASSUME NEW c \in Numbers, NEW a
    PROVE  Verdict(c, a) \in {Passed, Attention, Violation}
<1>1. CASE c \in 1 .. 7
    BY <1>1 DEF Verdict, Violated, Remarked, Criterion01, Criterion02, Criterion03,
       Criterion04, Criterion05, Criterion06, Criterion07
<1>2. CASE c \in 8 .. 14
    BY <1>2 DEF Verdict, Violated, Remarked, Criterion08, Criterion09, Criterion10,
       Criterion11, Criterion12, Criterion13, Criterion14
<1> QED
    BY <1>1, <1>2 DEF Numbers

\* A rule sees no more of the answers than what is read of them.
LEMMA SilentVerdict ==
    ASSUME NEW c \in Numbers, NEW a, \A k : Get(a, k) = Null
    PROVE  Verdict(c, a) = Verdict(c, Unanswered)
<1>1. \A k : Get(Unanswered, k) = Null
    BY DEF Get, Unanswered
<1>2. \A k : /\ Yes(a, k) <=> Yes(Unanswered, k)
             /\ Count(a, k) = Count(Unanswered, k)
             /\ Word(a, k) = Word(Unanswered, k)
    BY <1>1 DEF Yes, Count, Word
<1> DEFINE silent == Unanswered
<1> HIDE DEF silent
<1>3. \A k : /\ Yes(a, k) <=> Yes(silent, k)
             /\ Count(a, k) = Count(silent, k)
             /\ Word(a, k) = Word(silent, k)
    BY <1>2 DEF silent
<1>4. /\ Criterion01(a) = Criterion01(silent)
      /\ Criterion02(a) = Criterion02(silent)
      /\ Criterion03(a) = Criterion03(silent)
      /\ Criterion04(a) = Criterion04(silent)
      /\ Criterion05(a) = Criterion05(silent)
      /\ Criterion06(a) = Criterion06(silent)
      /\ Criterion07(a) = Criterion07(silent)
    BY <1>3 DEF Violated, Remarked, Criterion01, Criterion02, Criterion03, Criterion04, Criterion05,
       Criterion06, Criterion07
<1>5. /\ Criterion08(a) = Criterion08(silent)
      /\ Criterion09(a) = Criterion09(silent)
      /\ Criterion10(a) = Criterion10(silent)
      /\ Criterion11(a) = Criterion11(silent)
      /\ Criterion12(a) = Criterion12(silent)
      /\ Criterion13(a) = Criterion13(silent)
      /\ Criterion14(a) = Criterion14(silent)
    BY <1>3 DEF Violated, Remarked, Criterion08, Criterion09, Criterion10, Criterion11, Criterion12,
       Criterion13, Criterion14
<1>6. Verdict(c, a) = Verdict(c, silent)
    BY <1>4, <1>5 DEF Verdict, Numbers
<1> QED
    BY <1>6 DEF silent

\* Without the signs of a crime the first criterion is violated; without any
\* answer the sixth and the thirteenth are passed.
LEMMA UnansweredVerdicts ==
    /\ \A a : Get(a, "has_crime_signs") = Null => Verdict(1, a) = Violation
    /\ Verdict(6, Unanswered) = Passed
    /\ Verdict(13, Unanswered) = Passed
<1>1. ~BoolOf(Null)
    BY DEF BoolOf, Null
<1>2. StrOf(Null) = None /\ None # Residential
    BY CriteriaAssumption DEF StrOf, Null
<1>3. \A k : Get(Unanswered, k) = Null
    BY DEF Get, Unanswered
<1>4. \A k : ~Yes(Unanswered, k) /\ Word(Unanswered, k) # Residential
    BY <1>1, <1>2, <1>3 DEF Yes, Word
<1>5. ASSUME NEW a, Get(a, "has_crime_signs") = Null PROVE Verdict(1, a) = Violation
    BY <1>1, <1>5 DEF Verdict, Criterion01, Yes, Violated
<1>6. Verdict(6, Unanswered) = Passed
    BY <1>4 DEF Verdict, Criterion06, Violated
<1>7. Verdict(13, Unanswered) = Passed
    BY <1>4 DEF Verdict, Criterion13, Violated
<1> QED
    BY <1>5, <1>6, <1>7

\* However many documents a file holds and whatever they say, its draft,
\* confirmed as it is, is judged in no criterion more favourably than silence.
THEOREM DraftsExonerateNobody == Spec => []ImportNeverExonerates
<1>1. MaterialsInv => ImportNeverExonerates
  <2> SUFFICES ASSUME MaterialsInv, NEW i \in Ids,
                      checks[i] # None, checks[i].from # None,
                      checks[i].answers = uploads[checks[i].from].draft,
                      NEW c \in Numbers
               PROVE  Severity(Verdict(c, Unanswered))
                        <= Severity(checks[i].results[c].status)
      BY Zenon DEF ImportNeverExonerates
  <2> DEFINE j == checks[i].from
             a == AnswersTo(c, uploads[j].draft)
             f == disk[uploads[j].name]
  <2>1. j \in Ids /\ uploads[j] # None /\ uploads[j].status = "extracted"
    <3>1. checks[i] \in Checks /\ FromReadUpload(i)
        BY DEF MaterialsInv, TypeOK, ChecksFromReadUploads
    <3> QED
        BY <3>1 DEF Checks, FromReadUpload
  <2>2. checks[i].results[c].status = Verdict(c, a)
    <3>1. checks[i].results = Evaluate(Role[checks[i].owner], uploads[j].draft)
        BY DEF MaterialsInv, ChecksJudged
    <3>2. \A role, answers :
            Evaluate(role, answers)[c].status = Verdict(c, AnswersTo(c, answers))
        BY DEF Evaluate
    <3> QED
        BY <3>1, <3>2
  <2>3. /\ Len(f.documents) \in Nat
        /\ \A m \in 1 .. Len(f.documents) : f.documents[m] \in CaseDocuments
        /\ \A k : Get(a, k) = LastSaid(f.documents, Len(f.documents), c, k)
      BY <2>1, RowReads
  <2> HIDE DEF j, a, f
  <2>4. CASE c \notin {1, 6, 13}
    <3>1. \A k : Get(a, k) = Null
        BY <2>3, <2>4, DraftLittle
    <3>2. Verdict(c, a) = Verdict(c, Unanswered)
        BY <3>1, SilentVerdict
    <3>3. Verdict(c, a) \in {Passed, Attention, Violation}
        BY VerdictIsGrade
    <3> QED
        BY <2>2, <3>2, <3>3 DEF Severity, Passed, Attention, Violation
  <2>5. CASE c = 1
    <3>1. Get(a, "has_crime_signs") = Null
        BY <2>3, <2>5, DraftLittle
    <3>2. Verdict(c, a) = Violation
        BY <2>5, <3>1, UnansweredVerdicts
    <3>3. Verdict(c, Unanswered) \in {Passed, Attention, Violation}
        BY VerdictIsGrade
    <3> QED
        BY <2>2, <3>2, <3>3 DEF Severity, Passed, Attention, Violation
  <2>6. CASE c \in {6, 13}
    <3>1. Verdict(c, Unanswered) = Passed
        BY <2>6, UnansweredVerdicts
    <3>2. Verdict(c, a) \in {Passed, Attention, Violation}
        BY VerdictIsGrade
    <3> QED
        BY <2>2, <3>1, <3>2 DEF Severity, Passed, Attention, Violation
  <2> QED
      BY <2>4, <2>5, <2>6
<1> QED
    BY <1>1, MaterialsInvariant, PTL

\* What an extractor suggests is a JSON value (FIELD_EXTRACTORS).
LEMMA SuggestedJson ==
    ASSUME NEW d \in CaseDocuments, NEW c, NEW k,
           k \in DOMAIN AnswersTo(c, Suggested(d))
    PROVE  AnswersTo(c, Suggested(d))[k] \in Json
<1> DEFINE new == Suggested(d)
<1>1. \A b \in BOOLEAN : Flag(b) \in Json
  <2>1. "none" \in Words
      BY CriteriaAssumption
  <2> QED
      BY <2>1 DEF Flag, Json
<1>2. \A w \in Words : Text(w) \in Json
    BY DEF Text, Json
<1>3. \A e \in DOMAIN new : \A f \in DOMAIN new[e] : new[e][f] \in Json
  <2>1. CASE d.kind = "resolution"
    <3>1. new = [e \in (IF d.approved THEN {1} ELSE {})
                       \cup (IF d.orm_type # None THEN {13} ELSE {}) |->
                   IF e = 1 THEN One("has_instruction", Flag(TRUE))
                   ELSE One("orm_type", Text(d.orm_type))]
        BY <2>1 DEF Suggested
    <3>2. d.orm_type \in Words \cup {None}
        BY DEF CaseDocuments
    <3>3. d.orm_type # None => Text(d.orm_type) \in Json
        BY <1>2, <3>2
    <3> HIDE DEF new
    <3>4. \A e \in DOMAIN new : \/ new[e] = One("has_instruction", Flag(TRUE))
                                \/ d.orm_type # None /\ new[e] = One("orm_type", Text(d.orm_type))
        BY <3>1
    <3> QED
        BY <1>1, <3>3, <3>4 DEF One
  <2>2. CASE d.kind = "inspection_order"
    <3>1. new = [e \in {6} |->
                   [f \in {"premises_type", "residents_consent"} |->
                      IF f = "residents_consent" THEN Flag(Mentions(d))
                      ELSE Text(IF NamesPremises(d) THEN Residential ELSE "nezhiloe")]]
        BY <2>2 DEF Suggested
    <3>2. Flag(Mentions(d)) \in Json
        BY <1>1 DEF Mentions
    <3>3. Text(IF NamesPremises(d) THEN Residential ELSE "nezhiloe") \in Json
        BY <1>2, CriteriaAssumption, CaseMaterialsAssumption
    <3> HIDE DEF new
    <3> QED
        BY <3>1, <3>2, <3>3
  <2>3. CASE d.kind = "search_protocol"
    <3>1. new = [e \in {13} |-> One("orm_type", Text("dosmotr"))]
        BY <2>3 DEF Suggested
    <3>2. Text("dosmotr") \in Json
        BY <1>2, CriteriaAssumption DEF ExemptOrmTypes
    <3> HIDE DEF new
    <3> QED
        BY <3>1, <3>2 DEF One
  <2>4. CASE d.kind = "other"
    <3>1. new = [e \in {} |-> Unanswered]
        BY <2>4 DEF Suggested
    <3> QED
        BY <3>1
  <2> QED
      BY <2>1, <2>2, <2>3, <2>4 DEF CaseDocuments
<1> HIDE DEF new
<1>4. AnswersTo(c, new) = IF c \in DOMAIN new THEN new[c] ELSE Unanswered
    BY DEF AnswersTo
<1>5. DOMAIN Unanswered = {}
    BY DEF Unanswered
<1> QED
    BY <1>3, <1>4, <1>5 DEF new

\* So is what the last document leaves.
LEMMA LastSaidJson ==
    ASSUME NEW documents \in Seq(CaseDocuments), NEW c, NEW k
    PROVE  LastSaid(documents, Len(documents), c, k) \in Json
<1> DEFINE N == Len(documents)
           P == {n \in 0 .. N : LastSaid(documents, n, c, k) \in Json}
<1>0. N \in Nat /\ \A n \in 1 .. N : documents[n] \in CaseDocuments
    OBVIOUS
<1> HIDE DEF N
<1>1. 0 \in P
  <2>1. LastSaid(documents, 0, c, k) = Null
      BY DEF LastSaid, Said
  <2>2. Null \in Json
      BY CriteriaAssumption DEF Null, Json
  <2> QED
      BY <1>0, <2>1, <2>2
<1>2. ASSUME NEW n \in 0 .. N, n \in P, n < N PROVE n + 1 \in P
  <2>1. n \in Nat /\ n + 1 \in 0 .. N /\ documents[n + 1] \in CaseDocuments
      BY <1>0, <1>2
  <2>2. k \in DOMAIN AnswersTo(c, Suggested(documents[n + 1])) =>
          AnswersTo(c, Suggested(documents[n + 1]))[k] \in Json
      BY <2>1, SuggestedJson
  <2>3. LastSaid(documents, n + 1, c, k) \in Json
      BY <1>2, <2>1, <2>2, OneMoreDocument
  <2> QED
      BY <2>1, <2>3
<1> HIDE DEF P
<1>3. \A n \in 0 .. N : n \in P
    BY <1>0, <1>1, <1>2, InductionUpTo
<1> QED
    BY <1>0, <1>3 DEF P, N

\* Whatever answers a check is of, a rule reads JSON: the user's own come as
\* such, and a draft holds nothing else.
LEMMA AnswersJson ==
    ASSUME NEW a \in Answers, NEW c \in Numbers
    PROVE  AreJson(c, AnswersTo(c, a))
<1>1. CASE a \in Payloads
    BY <1>1, CaseMaterialsAssumption
<1>2. CASE a = NoAnswers
  <2>1. \A k : Get(AnswersTo(c, NoAnswers), k) = Null
      BY DEF AnswersTo, NoAnswers, Get, Unanswered
  <2>2. Null \in Json
      BY CriteriaAssumption DEF Null, Json
  <2> QED
      BY <1>2, <2>1, <2>2 DEF AreJson
<1>3. ASSUME NEW f \in Files, a = Draft(f) PROVE AreJson(c, AnswersTo(c, a))
  <2>1. f.documents \in Seq(CaseDocuments) /\ Len(f.documents) \in Nat
      BY CaseMaterialsAssumption
  <2>2. a = Merged(f.documents)[Len(f.documents)]
      BY <1>3, DraftIsMerged
  <2>3. \A k : Get(AnswersTo(c, a), k) = LastSaid(f.documents, Len(f.documents), c, k)
      BY <2>1, <2>2, DraftReads
  <2>4. \A k : LastSaid(f.documents, Len(f.documents), c, k) \in Json
      BY <2>1, LastSaidJson
  <2> QED
      BY <2>3, <2>4 DEF AreJson
<1>4. \A f \in Files : Extracted(f).draft \in {NoAnswers, Draft(f)}
    BY DEF Extracted
<1> QED
    BY <1>1, <1>2, <1>3, <1>4 DEF Answers, Drafts

\* Of any two stored checks, by whomever and on whatever answers: better
\* evidence never gets the worse verdict.
THEOREM EvidenceTheorem == Spec => []EvidenceNeverHurts
<1>1. MaterialsInv => EvidenceNeverHurts
  <2> DEFINE given(i, c) == AnswersTo(c, checks[i].answers)
  <2> SUFFICES ASSUME MaterialsInv, NEW i \in Ids, NEW j \in Ids,
                      checks[i] # None, checks[j] # None, NEW c \in Numbers,
                      NotWorse(c, given(i, c), given(j, c))
               PROVE  Severity(checks[j].results[c].status)
                        <= Severity(checks[i].results[c].status)
      BY Zenon DEF EvidenceNeverHurts
  <2>1. ASSUME NEW h \in Ids, checks[h] # None
        PROVE  /\ checks[h].results[c].status = Verdict(c, given(h, c))
               /\ AreJson(c, given(h, c))
    <3>1. checks[h].results = Evaluate(Role[checks[h].owner], checks[h].answers)
        BY <2>1 DEF MaterialsInv, ChecksJudged
    <3>2. \A role, answers :
            Evaluate(role, answers)[c].status = Verdict(c, AnswersTo(c, answers))
        BY DEF Evaluate
    <3>3. checks[h].answers \in Answers
        BY <2>1 DEF MaterialsInv, TypeOK, Checks
    <3> QED
        BY <3>1, <3>2, <3>3, AnswersJson
  <2> HIDE DEF given
  <2> QED
      BY <2>1, VerdictMonotone
<1> QED
    BY <1>1, MaterialsInvariant, PTL

-----------------------------------------------------------------------------
(* The refinement.                                                          *)

Reg == [i \in Ids |-> Registered(i)]

\* What is registered where nothing is, and where something is.
LEMMA RegisteredRows ==
    /\ \A i \in Ids : uploads[i] = None => Reg[i] = None
    /\ \A i \in Ids : uploads[i] # None =>
         Reg[i] = [owner |-> uploads[i].owner, file |-> disk[uploads[i].name],
                   status |-> uploads[i].status, draft |-> uploads[i].draft]
BY DEF Reg, Registered

\* What is registered of a row that is there is no None either.
LEMMA RowsAreNotNone ==
    ASSUME MaterialsInv, NEW i \in Ids, uploads[i] # None
    PROVE  Reg[i] # None
<1>1. uploads[i] \in Uploads /\ UploadsComplete
    BY DEF MaterialsInv, TypeOK
<1>2. uploads[i].name \in Names /\ disk[uploads[i].name] \in Accepted
    BY <1>1 DEF UploadsComplete, RowComplete, Uploads, MaterialsInv, DiskAccepted
<1>3. uploads[i].status \in Settled
  <2>1. uploads[i].status = Extracted(disk[uploads[i].name]).status
      BY <1>1 DEF UploadsComplete, RowComplete
  <2>2. QED
      BY <2>1 DEF Extracted, Settled
<1>4. /\ uploads[i].owner \in Users /\ uploads[i].draft \in Drafts
      /\ disk[uploads[i].name] \in Files
    BY <1>1, <1>2 DEF Uploads, Accepted
<1>5. [owner |-> uploads[i].owner, file |-> disk[uploads[i].name],
       status |-> uploads[i].status, draft |-> uploads[i].draft] \in Registrations
    BY <1>3, <1>4 DEF Registrations
<1>6. QED
    BY <1>5, RegisteredRows, CaseMaterialsAssumption

\* A step that leaves the tables alone leaves the register alone, since no file
\* of a row changes.
LEMMA QuietRegister ==
    ASSUME MaterialsInv, FilesStay, UNCHANGED db
    PROVE  UNCHANGED R!vars
<1>1. UNCHANGED <<uploads, checks, trail>>
    BY DEF db
<1>2. ASSUME NEW i \in Ids PROVE Registered(i)' = Registered(i)
  <2>1. CASE uploads[i] = None
      BY <1>1, <2>1 DEF Registered
  <2>2. CASE uploads[i] # None
    <3>1. uploads[i].name \in Names /\ disk[uploads[i].name] # None
        BY <2>2 DEF MaterialsInv, TypeOK, Uploads, UploadsComplete, RowComplete
    <3>2. disk'[uploads[i].name] = disk[uploads[i].name]
        BY <3>1 DEF FilesStay
    <3>3. QED
        BY <1>1, <3>2 DEF Registered
  <2>3. QED
      BY <2>1, <2>2
<1>3. [i \in Ids |-> Registered(i)]' = [i \in Ids |-> Registered(i)]
    BY <1>2
<1>4. QED
    BY <1>1, <1>3 DEF R!vars

\* Only a commit changes the tables, and no step changes a file.
LEMMA TablesOfCommits ==
    ASSUME MaterialsInv, NEW t \in Txns, Arrive(t) \/ Step(t), ~Commit(t)
    PROVE  UNCHANGED db /\ FilesStay
<1>1. ASSUME NEW u \in Users, NEW f \in Files, Upload(t, u, f)
      PROVE  UNCHANGED db /\ FilesStay
    BY <1>1 DEF Upload, FilesStay, MaterialsInv, TypeOK
<1>2. ASSUME \/ \E u \in Users, i \in Ids : Confirm(t, u, i)
             \/ \E u \in Users, a \in Payloads : Check(t, u, a)
      PROVE  UNCHANGED db /\ FilesStay
    BY <1>2 DEF Confirm, Check, FilesStay
<1>3. ASSUME Insert(t) \/ Publish(t) \/ PublishFails(t) \/ CommitFails(t) \/ Fail(t)
      PROVE  UNCHANGED db /\ FilesStay
    BY <1>3 DEF Insert, Publish, PublishFails, CommitFails, Fail, FilesStay
<1>4. QED
    BY <1>1, <1>2, <1>3 DEF Arrive, Step

\* The commit of an upload registers it.
LEMMA UploadRegisters ==
    ASSUME MaterialsInv, NEW t \in Txns, Commit(t), Uploading(t)
    PROVE  R!AddUpload(id[t], req[t].user)
<1> TypeOK /\ RequestSound(t) /\ FileOwn(t) /\ IdOwn(t)
    BY DEF MaterialsInv
<1> DEFINE i0 == id[t]
           f == disk[req[t].name]
<1>1. /\ i0 \in Ids /\ uploads[i0] = None /\ checks[i0] = None
      /\ req[t] # None /\ row[t] = FinalRow(t)
    BY DEF RequestSound, IdOwn, Commit, Running, FinalRow, TypeOK
<1>2. /\ uploads' = [uploads EXCEPT ![i0] = FinalRow(t)]
      /\ checks' = checks /\ disk' = disk
      /\ trail' = trail \cup {[event |-> "CaseMaterialUploaded", id |-> i0,
                               user |-> req[t].user]}
    BY <1>1 DEF Commit, EntryOf
<1>3. /\ FinalRow(t) \in Uploads /\ FinalRow(t) # None
      /\ f \in Accepted
  <2>1. FinalRow(t) \in Uploads
      BY <1>1, FinalRowFits
  <2>2. req[t].name \in Names /\ Storing(t)
      BY <1>1, Kinds DEF UploadRequests, Storing
  <2>3. f \in Accepted
      BY <2>2 DEF MaterialsInv, FileOwn, DiskAccepted
  <2>4. QED
      BY <2>1, <2>3, CaseMaterialsAssumption
<1>4. /\ FinalRow(t).owner = req[t].user /\ FinalRow(t).name = req[t].name
      /\ FinalRow(t).status = Extracted(f).status /\ FinalRow(t).draft = Extracted(f).draft
    BY DEF FinalRow
<1>5. ReadingOf[f] = Extracted(f) /\ DOMAIN ReadingOf = Accepted
    BY <1>3 DEF ReadingOf
<1> DEFINE new == [owner |-> req[t].user, file |-> f,
                   status |-> ReadingOf[f].status, draft |-> ReadingOf[f].draft]
<1>6. [i \in Ids |-> Registered(i)]' = [[i \in Ids |-> Registered(i)] EXCEPT ![i0] = new]
  <2> SUFFICES ASSUME NEW i \in Ids
               PROVE  Registered(i)' = IF i = i0 THEN new ELSE Registered(i)
      OBVIOUS
  <2>1. CASE i = i0
    <3>1. uploads'[i] = FinalRow(t)
        BY <1>1, <1>2, <2>1 DEF TypeOK
    <3>2. Registered(i)' = [owner |-> FinalRow(t).owner, file |-> disk[FinalRow(t).name],
                            status |-> FinalRow(t).status, draft |-> FinalRow(t).draft]
      <4> HIDE DEF f, new
      <4> QED
          BY <1>2, <1>3, <3>1 DEF Registered
    <3>3. QED
        BY <1>4, <1>5, <2>1, <3>2
  <2>2. CASE i # i0
      BY <1>2, <2>2 DEF Registered, TypeOK
  <2>3. QED
      BY <2>1, <2>2
<1>7. [i \in Ids |-> Registered(i)][i0] = None
    BY <1>1 DEF Registered
<1> HIDE DEF f
<1>8. R!Enter("CaseMaterialUploaded", i0, req[t].user)
    BY <1>1, <1>2, <1>7 DEF R!Enter
<1>9. QED
    BY <1>2, <1>3, <1>5, <1>6, <1>8 DEF R!AddUpload

\* So does the commit of a check, of an upload that is registered.
LEMMA CheckRegisters ==
    ASSUME MaterialsInv, NEW t \in Txns, Commit(t), ~Uploading(t)
    PROVE  R!AddCheck(id[t], req[t].user)
<1> TypeOK /\ RequestSound(t) /\ IdOwn(t) /\ SourceRead(t) /\ AnswersGiven(t)
    BY DEF MaterialsInv
<1> DEFINE i0 == id[t]
           u == req[t].user
           from == req[t].from
           a == req[t].answers
<1>1. /\ i0 \in Ids /\ uploads[i0] = None /\ checks[i0] = None
      /\ req[t] # None /\ row[t] = NewCheck(req[t])
    BY DEF RequestSound, IdOwn, Commit, Running, TypeOK
<1>2. /\ checks' = [checks EXCEPT ![i0] = NewCheck(req[t])]
      /\ uploads' = uploads /\ disk' = disk
      /\ trail' = trail \cup {[event |-> "CheckCreated", id |-> i0, user |-> u]}
    BY <1>1 DEF Commit, EntryOf
<1>3. u \in Users /\ from \in Ids \cup {None} /\ a \in Answers
    BY <1>1, Kinds DEF CheckRequests
<1>4. NewCheck(req[t]) = [owner |-> u, from |-> from, answers |-> a,
                          results |-> VerdictsOn[u][a]]
    BY <1>3 DEF NewCheck, VerdictsOn
<1>5. [i \in Ids |-> Registered(i)]' = [i \in Ids |-> Registered(i)]
    BY <1>2 DEF Registered
<1>6. ASSUME from # None
      PROVE  /\ Reg[from] # None
             /\ Reg[from].status = "extracted"
             /\ Reg[from].owner = u \/ Role[u] = "admin"
             /\ Reg[from].draft = uploads[from].draft
  <2>1. /\ uploads[from] # None /\ uploads[from].status = "extracted"
        /\ MayUse(u, uploads[from])
      BY <1>1, <1>6 DEF SourceRead
  <2>2. uploads[from] \in Uploads /\ from \in Ids
      BY <1>3, <1>6, <2>1 DEF TypeOK
  <2> HIDE DEF from
  <2>3. Reg[from] = [owner |-> uploads[from].owner, file |-> disk[uploads[from].name],
                     status |-> uploads[from].status, draft |-> uploads[from].draft]
      BY <2>1, <2>2, RegisteredRows
  <2>4. Reg[from] # None
      BY <2>1, <2>2, RowsAreNotNone
  <2>5. QED
      BY <2>1, <2>3, <2>4 DEF MayUse
<1> HIDE DEF i0, u, from, a
<1>7. from \in R!Confirmable(u) \cup {None}
    BY <1>3, <1>6 DEF R!Confirmable, Reg
<1>8. a \in R!Offered(from)
    BY <1>1, <1>3, <1>6 DEF AnswersGiven, R!Offered, Reg, a, from
<1>9. R!Enter("CheckCreated", i0, u)
    BY <1>1, <1>2, RegisteredRows DEF R!Enter, Reg
<1>10. QED
    BY <1>2, <1>4, <1>5, <1>7, <1>8, <1>9 DEF R!AddCheck, i0, u

\* Every step that is not a commit is nothing to the register, and a commit
\* registers one row.
LEMMA RegisterStep == MaterialsInv /\ [Next]_vars => [R!Next]_(R!vars)
<1> SUFFICES ASSUME MaterialsInv, [Next]_vars PROVE R!Next \/ UNCHANGED R!vars
    OBVIOUS
<1>1. CASE UNCHANGED vars
  <2>1. UNCHANGED db /\ FilesStay
      BY <1>1 DEF vars, db, FilesStay
  <2>2. QED
      BY <2>1, QuietRegister
<1>2. ASSUME NEW t \in Txns, Commit(t) PROVE R!Next
  <2>1. id[t] \in Ids /\ req[t].user \in Users
    <3>1. pc[t] \in Running /\ TypeOK /\ RequestSound(t)
        BY <1>2 DEF Commit, Running, MaterialsInv
    <3>2. id[t] # None /\ req[t] # None
        BY <1>2, <3>1 DEF RequestSound, Commit
    <3>3. req[t] \in UploadRequests \cup CheckRequests
        BY <3>1, <3>2 DEF TypeOK
    <3>4. QED
        BY <3>1, <3>2, <3>3 DEF TypeOK, UploadRequests, CheckRequests
  <2>2. R!AddUpload(id[t], req[t].user) \/ R!AddCheck(id[t], req[t].user)
      BY <1>2, UploadRegisters, CheckRegisters
  <2>3. QED
      BY <2>1, <2>2 DEF R!Next
<1>3. ASSUME NEW t \in Txns, Arrive(t) \/ Step(t), ~Commit(t) PROVE UNCHANGED R!vars
    BY <1>3, TablesOfCommits, QuietRegister
<1>4. QED
    BY <1>1, <1>2, <1>3 DEF Next, AllEnded

\* Uploads and checks, with the files they are of and the entries that tell of
\* them, implement the abstract Register.
THEOREM MaterialsImplementRegister == Spec => ImplementsRegister
<1>1. Init => R!Init
    BY DEF Init, R!Init, Registered
<1>2. QED
    BY <1>1, RegisterStep, MaterialsInvariant, PTL DEF Spec, ImplementsRegister, R!Spec
=============================================================================
