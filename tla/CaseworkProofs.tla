-------------------------- MODULE CaseworkProofs --------------------------
(***************************************************************************)
(* Proofs about Casework: a check cites the norms of one moment, and what  *)
(* a file says is what the check and the content it prints say.            *)
(***************************************************************************)
EXTENDS Casework, TLAPS

-----------------------------------------------------------------------------
(* The verdicts and the norms.                                             *)

(* A rule answers passed, attention or violation. *)
LEMMA VerdictIsGrade ==
    ASSUME NEW c \in Numbers, NEW a
    PROVE  Verdict(c, a) \in {Passed, Attention, Violation}
<1>1. /\ Criterion01(a) \in {Passed, Attention, Violation}
      /\ Criterion02(a) \in {Passed, Attention, Violation}
      /\ Criterion03(a) \in {Passed, Attention, Violation}
      /\ Criterion04(a) \in {Passed, Attention, Violation}
      /\ Criterion05(a) \in {Passed, Attention, Violation}
  BY DEF Violated, Remarked, Criterion01, Criterion02, Criterion03, Criterion04,
         Criterion05
<1>2. /\ Criterion06(a) \in {Passed, Attention, Violation}
      /\ Criterion07(a) \in {Passed, Attention, Violation}
      /\ Criterion08(a) \in {Passed, Attention, Violation}
      /\ Criterion09(a) \in {Passed, Attention, Violation}
      /\ Criterion10(a) \in {Passed, Attention, Violation}
  BY DEF Violated, Remarked, Criterion06, Criterion07, Criterion08, Criterion09,
         Criterion10
<1>3. /\ Criterion11(a) \in {Passed, Attention, Violation}
      /\ Criterion12(a) \in {Passed, Attention, Violation}
      /\ Criterion13(a) \in {Passed, Attention, Violation}
      /\ Criterion14(a) \in {Passed, Attention, Violation}
  BY DEF Violated, Remarked, Criterion11, Criterion12, Criterion13, Criterion14
<1>4. QED
  BY <1>1, <1>2, <1>3 DEF Verdict, Numbers

(* Every code a rule cites is one of the seed. *)
LEMMA CitedAreSeeded ==
    ASSUME NEW c \in Numbers
    PROVE  /\ Cites[c] \subseteq CitedCodes
           /\ Cites[c] \subseteq SeedCodes
           /\ Cites[c] \subseteq Codes
<1>1. Cites[c] \subseteq CitedCodes
  BY DEF CitedCodes
<1>2. Cites[c] \subseteq SeedCodes
  <2>1. \A n \in {"5", "5-ch4", "6", "7", "8", "9", "11", "12"} :
            Article(n) \in SeedCodes
    BY DEF SeedCodes, FederalLaw
  <2>2. {"upk-art89", "upk", "koap", "plenum-vs-2009-1"} \subseteq SeedCodes
    BY DEF SeedCodes
  <2>3. QED
    BY <2>1, <2>2 DEF Cites, Numbers
<1>3. QED
  BY <1>1, <1>2 DEF Codes

(* A commit to the knowledge base adds a moment and changes none. *)
LEMMA MomentAdded ==
    ASSUME TypeOK, NEW norms \in [Codes -> Titles \cup {SeedTitle, None}],
           moments' = Append(moments, norms)
    PROVE  /\ Len(moments) \in Nat
           /\ moments' \in Seq([Codes -> Titles \cup {SeedTitle, None}])
           /\ Len(moments') = Len(moments) + 1
           /\ moments'[Len(moments) + 1] = norms
           /\ \A m \in 1 .. Len(moments) : moments'[m] = moments[m]
  BY DEF TypeOK

-----------------------------------------------------------------------------
(* The file.                                                               *)

(* An item is printed whole when it has no blank. *)
LEMMA ItemPrinted ==
    ASSUME NEW item, \A f \in DOMAIN item : Blank \notin item[f]
    PROVE  FormatItem(item) = UNION {item[f] : f \in DOMAIN item}
  BY DEF FormatItem, IsEmpty

(* All an item says is printed. *)
LEMMA ItemSaid ==
    ASSUME NEW item
    PROVE  FormatItem(item) \ {Blank} = Said(item)
  BY DEF FormatItem, IsEmpty, Said

(* Escaping keeps a PDF from differing from a DOCX. *)
LEMMA FormatsAgree ==
    ASSUME NEW content, NEW format
    PROVE  Printout(content, format) = [s \in DOMAIN content |-> Blocks(content[s])]
<1>1. \A w : Shown(Escaped(w)) = w
  BY DEF Shown, Escaped
<1>2. \A line : {Shown(Escaped(w)) : w \in line} = line
  BY <1>1
<1>3. ASSUME NEW lines
      PROVE  {{Shown(Escaped(w)) : w \in line} : line \in lines} = lines
  <2> DEFINE Again(line) == {Shown(Escaped(w)) : w \in line}
  <2>1. \A line : Again(line) = line
    BY <1>2
  <2> HIDE DEF Again
  <2>2. {Again(line) : line \in lines} = lines
    BY <2>1
  <2>3. QED
    BY <2>2 DEF Again
<1>4. QED
  BY <1>3 DEF Printout

-----------------------------------------------------------------------------
(* The inductive invariant.                                                *)

LEMMA InitHolds == Init => CaseworkInv
<1> SUFFICES ASSUME Init PROVE CaseworkInv
  OBVIOUS
<1>1. TypeOK
  <2>1. [code \in Codes |-> None] \in [Codes -> Titles \cup {SeedTitle, None}]
    OBVIOUS
  <2>2. moments \in Seq([Codes -> Titles \cup {SeedTitle, None}]) /\ Len(moments) = 1
    BY <2>1 DEF Init
  <2>3. QED
    BY <2>2 DEF Init, TypeOK, Nothing
<1>2. MomentsInv
  BY DEF Init, MomentsInv
<1>3. RequestsInv
  BY DEF Init, RequestsInv, Nothing
<1>4. CitesOneMoment
  BY DEF Init, CitesOneMoment, Nothing
<1>5. DocumentsInv
  BY DEF Init, DocumentsInv, Nothing
<1>6. QED
  BY <1>1, <1>2, <1>3, <1>4, <1>5 DEF CaseworkInv

(* What was true of an earlier moment stays true. *)
LEMMA PublishKeeps ==
    ASSUME CaseworkInv, NEW norms \in [Codes -> Titles \cup {SeedTitle, None}],
           Publish(norms),
           seeded' = seeded \/ seeded' = Len(moments) + 1,
           seeded' # 0 => \A code \in SeedCodes : norms[code] # None
    PROVE  CaseworkInv'
<1> USE DEF CaseworkInv
<1>1. /\ Len(moments) \in Nat
      /\ moments' \in Seq([Codes -> Titles \cup {SeedTitle, None}])
      /\ Len(moments') = Len(moments) + 1
      /\ moments'[Len(moments) + 1] = norms
      /\ \A m \in 1 .. Len(moments) : moments'[m] = moments[m]
  BY MomentAdded DEF Publish
<1>2. UNCHANGED <<stage, since, verdicts, found, checks, docs, files>>
  BY DEF Publish
<1>3. TypeOK'
  BY <1>1, <1>2 DEF TypeOK
<1>4. MomentsInv'
  <2>1. SUFFICES ASSUME seeded' # 0, NEW m \in seeded' .. Len(moments'),
                        NEW code \in SeedCodes
                 PROVE  moments'[m][code] # None
    BY <1>1 DEF MomentsInv
  <2>2. CASE m = Len(moments) + 1
    BY <2>1, <2>2, <1>1
  <2>3. CASE m # Len(moments) + 1
    <3>1. seeded' = seeded /\ m \in seeded .. Len(moments) /\ m \in 1 .. Len(moments)
      BY <2>1, <2>3, <1>1 DEF TypeOK
    <3>2. QED
      BY <3>1, <2>1, <1>1 DEF MomentsInv
  <2>4. QED
    BY <2>2, <2>3
<1>5. RequestsInv'
  <2>1. \A k \in Checks : stage'[k] # "idle" => since'[k] \in 1 .. Len(moments')
    BY <1>1, <1>2 DEF RequestsInv
  <2>2. \A k \in Checks : stage'[k] \in {"evaluated", "resolved"} =>
            Graded(verdicts'[k].results)
    BY <1>2 DEF RequestsInv
  <2>3. ASSUME NEW k \in Checks, stage'[k] = "resolved"
        PROVE  \E m \in since'[k] .. Len(moments') :
                   found'[k] = CurrentOf(CitedCodes, moments'[m])
    <3>1. since[k] \in 1 .. Len(moments)
      BY <2>3, <1>2 DEF RequestsInv
    <3>2. PICK m \in since[k] .. Len(moments) :
              found[k] = CurrentOf(CitedCodes, moments[m])
      BY <2>3, <1>2 DEF RequestsInv
    <3>3. m \in since[k] .. Len(moments') /\ moments'[m] = moments[m]
      BY <3>1, <3>2, <1>1
    <3>4. QED
      BY <3>2, <3>3, <1>2
  <2>4. \A k \in DOMAIN checks' : stage'[k] = "stored" /\ Graded(checks'[k].results)
    BY <1>2 DEF RequestsInv
  <2>5. QED
    BY <2>1, <2>2, <2>3, <2>4 DEF RequestsInv, Graded
<1>6. CitesOneMoment'
  <2>1. SUFFICES ASSUME NEW k \in DOMAIN checks'
                 PROVE  \E m \in 1 .. Len(moments') : CitesMoment(k, m)'
    BY DEF CitesOneMoment
  <2>2. PICK m \in 1 .. Len(moments) : CitesMoment(k, m)
    BY <2>1, <1>2 DEF CitesOneMoment
  <2>3. m \in 1 .. Len(moments') /\ moments'[m] = moments[m]
    BY <2>2, <1>1
  <2>4. since[k] \in 1 .. Len(moments)
    BY <2>1, <1>2 DEF TypeOK, RequestsInv
  <2>5. CitesMoment(k, m)'
    BY <2>2, <2>3, <2>4, <1>1, <1>2 DEF CitesMoment
  <2>6. QED
    BY <2>3, <2>5
<1>7. DocumentsInv'
  BY <1>2 DEF DocumentsInv, DocumentInv
<1>8. QED
  BY <1>3, <1>4, <1>5, <1>6, <1>7

LEMMA SeedKeeps == CaseworkInv /\ Seed => CaseworkInv'
<1> SUFFICES ASSUME CaseworkInv, Seed PROVE CaseworkInv'
  OBVIOUS
<1> DEFINE norms == [code \in Codes |->
               IF code \in SeedCodes /\ Now[code] = None THEN SeedTitle ELSE Now[code]]
<1>1. Now \in [Codes -> Titles \cup {SeedTitle, None}]
  BY DEF CaseworkInv, TypeOK, MomentsInv, Now
<1>2. norms \in [Codes -> Titles \cup {SeedTitle, None}]
  BY <1>1
<1>3. \A code \in SeedCodes : norms[code] # None
  BY CaseworkAssumption DEF Codes
<1>4. Publish(norms) /\ seeded' = Len(moments) + 1
  BY DEF Seed
<1> HIDE DEF norms
<1>5. QED
  BY <1>2, <1>3, <1>4, PublishKeeps

LEMMA EditKeeps ==
    ASSUME NEW code \in Edited, NEW title \in Titles, CaseworkInv, Edit(code, title)
    PROVE  CaseworkInv'
<1> DEFINE norms == [Now EXCEPT ![code] = title]
<1>1. Now \in [Codes -> Titles \cup {SeedTitle, None}]
  BY DEF CaseworkInv, TypeOK, MomentsInv, Now
<1>2. norms \in [Codes -> Titles \cup {SeedTitle, None}]
  BY <1>1
<1>3. ASSUME seeded' # 0, NEW other \in SeedCodes
      PROVE  norms[other] # None
  <2>1. Now[other] # None
    <3>1. Len(moments) \in seeded .. Len(moments)
      BY DEF CaseworkInv, TypeOK
    <3>2. QED
      BY <1>3, <3>1 DEF CaseworkInv, MomentsInv, Edit, Now
  <2>2. QED
    BY <2>1, <1>1, CaseworkAssumption DEF Codes
<1>4. Publish(norms) /\ seeded' = seeded
  BY DEF Edit
<1> HIDE DEF norms
<1>5. QED
  BY <1>2, <1>3, <1>4, PublishKeeps

(* A step that leaves the knowledge base, the checks and the documents as they *)
(* are leaves what is said of them.                                            *)
LEMMA OthersKept ==
    ASSUME CaseworkInv, UNCHANGED <<moments, seeded, checks, docs, files>>
    PROVE  MomentsInv' /\ DocumentsInv'
  BY DEF CaseworkInv, MomentsInv, DocumentsInv, DocumentInv

LEMMA ReceiveKeeps ==
    ASSUME NEW k \in Checks, NEW case \in Cases, CaseworkInv, Receive(k, case)
    PROVE  CaseworkInv'
<1> USE DEF CaseworkInv, Receive, KbUnchanged
<1>1. TypeOK'
  BY DEF TypeOK
<1>2. k \notin DOMAIN checks
  BY DEF RequestsInv
<1>3. Len(moments) \in 1 .. Len(moments)
  BY DEF TypeOK, MomentsInv
<1>4. Graded(verdicts'[k].results)
  BY VerdictIsGrade DEF Graded, Evaluate, TypeOK
<1>5. RequestsInv'
  <2>1. \A j \in Checks : stage'[j] # "idle" => since'[j] \in 1 .. Len(moments')
    BY <1>3 DEF RequestsInv, TypeOK
  <2>2. \A j \in Checks : stage'[j] \in {"evaluated", "resolved"} =>
            Graded(verdicts'[j].results)
    BY <1>4 DEF RequestsInv, TypeOK
  <2>3. \A j \in Checks : stage'[j] = "resolved" =>
            \E m \in since'[j] .. Len(moments') :
                found'[j] = CurrentOf(CitedCodes, moments'[m])
    BY DEF RequestsInv, TypeOK
  <2>4. \A j \in DOMAIN checks' : stage'[j] = "stored" /\ Graded(checks'[j].results)
    BY <1>2 DEF RequestsInv, TypeOK
  <2>5. QED
    BY <2>1, <2>2, <2>3, <2>4 DEF RequestsInv, Graded
<1>6. CitesOneMoment'
  BY <1>2 DEF CitesOneMoment, CitesMoment, TypeOK
<1>7. QED
  BY <1>1, <1>5, <1>6, OthersKept

LEMMA LookUpKeeps ==
    ASSUME NEW k \in Checks, CaseworkInv, LookUp(k)
    PROVE  CaseworkInv'
<1> USE DEF CaseworkInv, LookUp, KbUnchanged
<1>1. TypeOK'
  BY DEF TypeOK
<1>2. k \notin DOMAIN checks
  BY DEF RequestsInv
<1>3. Len(moments) \in since[k] .. Len(moments)
  BY DEF TypeOK, MomentsInv, RequestsInv
<1>4. RequestsInv'
  <2>1. \A j \in Checks : stage'[j] # "idle" => since'[j] \in 1 .. Len(moments')
    BY DEF RequestsInv, TypeOK
  <2>2. \A j \in Checks : stage'[j] \in {"evaluated", "resolved"} =>
            Graded(verdicts'[j].results)
    BY DEF RequestsInv, TypeOK
  <2>3. ASSUME NEW j \in Checks, stage'[j] = "resolved"
        PROVE  \E m \in since'[j] .. Len(moments') :
                   found'[j] = CurrentOf(CitedCodes, moments'[m])
    <3>1. CASE j = k
      BY <3>1, <1>3 DEF TypeOK, Now
    <3>2. CASE j # k
      BY <3>2, <2>3 DEF RequestsInv, TypeOK
    <3>3. QED
      BY <3>1, <3>2
  <2>4. \A j \in DOMAIN checks' : stage'[j] = "stored" /\ Graded(checks'[j].results)
    BY <1>2 DEF RequestsInv, TypeOK
  <2>5. QED
    BY <2>1, <2>2, <2>3, <2>4 DEF RequestsInv, Graded
<1>5. CitesOneMoment'
  BY DEF CitesOneMoment, CitesMoment
<1>6. QED
  BY <1>1, <1>4, <1>5, OthersKept

LEMMA AbandonKeeps ==
    ASSUME NEW k \in Checks, CaseworkInv, Abandon(k)
    PROVE  CaseworkInv'
<1> USE DEF CaseworkInv, Abandon, KbUnchanged
<1>1. TypeOK'
  BY DEF TypeOK
<1>2. RequestsInv'
  <2>1. k \notin DOMAIN checks
    BY DEF RequestsInv
  <2>2. QED
    BY <2>1 DEF RequestsInv, TypeOK, Graded
<1>3. CitesOneMoment'
  BY DEF CitesOneMoment, CitesMoment
<1>4. QED
  BY <1>1, <1>2, <1>3, OthersKept

(* What a result keeps of the norms of a moment is the titles they had. *)
LEMMA ReferencesOfMoment ==
    ASSUME NEW c \in Numbers, NEW code \in Cites[c], NEW norms
    PROVE  References(Cites[c], CurrentOf(CitedCodes, norms))[code] = norms[code]
BY CitedAreSeeded DEF References, CurrentOf

LEMMA StoreKeeps ==
    ASSUME NEW k \in Checks, CaseworkInv, Store(k)
    PROVE  CaseworkInv'
<1> USE DEF CaseworkInv, KbUnchanged
<1> DEFINE check == [role    |-> verdicts[k].role,
                     results |-> [c \in Numbers |->
                         [status     |-> verdicts[k].results[c].status,
                          priority   |-> verdicts[k].results[c].priority,
                          references |-> References(Cites[c], found[k])]]]
<1>1. /\ stage[k] = "resolved"
      /\ stage' = [stage EXCEPT ![k] = "stored"]
      /\ checks' = Put(checks, k, check)
      /\ UNCHANGED <<moments, seeded, since, verdicts, found, docs, files>>
  BY DEF Store
<1>2. /\ k \notin DOMAIN checks
      /\ DOMAIN checks' = DOMAIN checks \cup {k}
      /\ checks'[k] = check
      /\ \A j \in DOMAIN checks : checks'[j] = checks[j]
  BY <1>1 DEF RequestsInv, Put
<1>3. /\ \A c \in Numbers : /\ check.results[c].status = verdicts[k].results[c].status
                            /\ check.results[c].references = References(Cites[c], found[k])
  OBVIOUS
<1> HIDE DEF check
<1>4. TypeOK'
  BY <1>1, <1>2 DEF TypeOK
<1>5. MomentsInv'
  BY <1>1 DEF MomentsInv
<1>6. RequestsInv'
  <2>1. /\ \A j \in Checks : stage'[j] # "idle" => since'[j] \in 1 .. Len(moments')
        /\ \A j \in Checks : stage'[j] \in {"evaluated", "resolved"} =>
               Graded(verdicts'[j].results)
        /\ \A j \in Checks : stage'[j] = "resolved" =>
               \E m \in since'[j] .. Len(moments') :
                   found'[j] = CurrentOf(CitedCodes, moments'[m])
    BY <1>1 DEF RequestsInv, TypeOK
  <2>2. Graded(check.results)
    BY <1>1, <1>3 DEF RequestsInv, Graded
  <2>3. \A j \in DOMAIN checks' : stage'[j] = "stored" /\ Graded(checks'[j].results)
    BY <1>1, <1>2, <2>2 DEF RequestsInv, TypeOK
  <2>4. QED
    BY <2>1, <2>3 DEF RequestsInv, Graded
<1>7. CitesOneMoment'
  <2>1. PICK m \in since[k] .. Len(moments) :
            found[k] = CurrentOf(CitedCodes, moments[m])
    BY <1>1 DEF RequestsInv
  <2>2. m \in 1 .. Len(moments)
    BY <1>1, <2>1 DEF RequestsInv, TypeOK
  <2>3. \A c \in Numbers : \A code \in Cites[c] :
            checks'[k].results[c].references[code] = moments[m][code]
    BY <1>2, <1>3, <2>1, ReferencesOfMoment
  <2>4. CitesMoment(k, m)'
    BY <2>1, <2>3, <1>1 DEF CitesMoment
  <2>5. ASSUME NEW j \in DOMAIN checks
        PROVE  \E n \in 1 .. Len(moments') : CitesMoment(j, n)'
    BY <2>5, <1>1, <1>2 DEF CitesOneMoment, CitesMoment
  <2>6. QED
    BY <2>2, <2>4, <2>5, <1>1, <1>2 DEF CitesOneMoment
<1>8. DocumentsInv'
  <2>1. ASSUME NEW d \in DOMAIN docs'
        PROVE  DocumentInv(docs[d])'
    BY <2>1, <1>1, <1>2 DEF DocumentsInv, DocumentInv
  <2>2. ASSUME NEW f \in files'
        PROVE  /\ DocumentInv(f.document)'
               /\ f.lines = Printout(f.document.content, f.format)
    BY <2>2, <1>1, <1>2 DEF DocumentsInv, DocumentInv
  <2>3. QED
    BY <2>1, <2>2 DEF DocumentsInv
<1>9. QED
  BY <1>4, <1>5, <1>6, <1>7, <1>8

(* A step on documents leaves the rest as it is. *)
LEMMA CaseKept ==
    ASSUME CaseworkInv, CaseUnchanged
    PROVE  MomentsInv' /\ RequestsInv' /\ CitesOneMoment'
BY DEF CaseworkInv, CaseUnchanged, KbUnchanged, MomentsInv, RequestsInv, Graded,
       CitesOneMoment, CitesMoment

LEMMA GenerateKeeps ==
    ASSUME NEW d \in Docs, NEW k \in Checks, NEW type \in Types,
           NEW role \in DOMAIN TypesFor, NEW form \in Forms,
           CaseworkInv, Generate(d, k, type, role, form)
    PROVE  CaseworkInv'
<1> USE DEF CaseworkInv
<1> DEFINE document == [check |-> k, type |-> type, status |-> "draft",
                        by |-> "template",
                        content |-> Render(type, checks[k], role, form)]
<1>1. /\ k \in DOMAIN checks
      /\ d \notin DOMAIN docs
      /\ docs' = Put(docs, d, document)
      /\ CaseUnchanged /\ UNCHANGED files
  BY DEF Generate
<1>2. UNCHANGED <<moments, seeded, stage, since, verdicts, found, checks>>
  BY <1>1 DEF CaseUnchanged, KbUnchanged
<1>3. /\ DOMAIN docs' = DOMAIN docs \cup {d}
      /\ docs'[d] = document
      /\ \A e \in DOMAIN docs : docs'[e] = docs[e]
  BY <1>1 DEF Put
<1>4. TypeOK'
  <2>1. document = [check |-> document.check, type |-> document.type,
                    status |-> document.status, by |-> document.by,
                    content |-> document.content]
    OBVIOUS
  <2>2. QED
    BY <1>2, <1>3, <2>1 DEF TypeOK
<1>5. DocumentsInv'
  <2>1. DocumentInv(docs[d])'
    BY <1>1, <1>2, <1>3 DEF DocumentInv
  <2>2. ASSUME NEW e \in DOMAIN docs
        PROVE  DocumentInv(docs[e])'
    BY <2>2, <1>2, <1>3 DEF DocumentsInv, DocumentInv
  <2>3. \A f \in files' : /\ DocumentInv(f.document)'
                          /\ f.lines = Printout(f.document.content, f.format)
    BY <1>1, <1>2 DEF DocumentsInv, DocumentInv
  <2>4. QED
    BY <2>1, <2>2, <2>3, <1>3 DEF DocumentsInv
<1>6. QED
  BY <1>1, <1>4, <1>5, CaseKept

LEMMA UpdateKeeps ==
    ASSUME NEW d \in Docs, NEW content, CaseworkInv, Update(d, content)
    PROVE  CaseworkInv'
<1> USE DEF CaseworkInv
<1>1. UNCHANGED <<moments, seeded, stage, since, verdicts, found, checks, files>>
  BY DEF Update, CaseUnchanged, KbUnchanged
<1>2. /\ DOMAIN docs' = DOMAIN docs
      /\ docs'[d] = [docs[d] EXCEPT !.content = content, !.by = "owner"]
      /\ \A e \in DOMAIN docs : e # d => docs'[e] = docs[e]
  BY DEF Update, TypeOK
<1>3. docs'[d] = [check |-> docs[d].check, type |-> docs[d].type,
                  status |-> docs[d].status, by |-> "owner", content |-> content]
  BY <1>2 DEF Update, TypeOK
<1>4. TypeOK'
  BY <1>1, <1>2, <1>3 DEF TypeOK
<1>5. DocumentsInv'
  <2>1. DocumentInv(docs[d])'
    <3>1. d \in DOMAIN docs
      BY DEF Update
    <3>2. docs[d].type \in Types /\ docs[d].check \in DOMAIN checks
      BY <3>1 DEF DocumentsInv, DocumentInv
    <3>3. /\ docs'[d].type = docs[d].type /\ docs'[d].check = docs[d].check
          /\ docs'[d].by = "owner"
      BY <1>3
    <3>4. QED
      BY <1>1, <3>2, <3>3 DEF DocumentInv
  <2>2. ASSUME NEW e \in DOMAIN docs, e # d
        PROVE  DocumentInv(docs[e])'
    BY <2>2, <1>1, <1>2 DEF DocumentsInv, DocumentInv
  <2>3. \A f \in files' : /\ DocumentInv(f.document)'
                          /\ f.lines = Printout(f.document.content, f.format)
    BY <1>1 DEF DocumentsInv, DocumentInv
  <2>4. QED
    BY <2>1, <2>2, <2>3, <1>2 DEF DocumentsInv
<1>6. QED
  BY <1>4, <1>5, CaseKept DEF Update

LEMMA FinalizeKeeps ==
    ASSUME NEW d \in Docs, CaseworkInv, Finalize(d)
    PROVE  CaseworkInv'
<1> USE DEF CaseworkInv
<1>1. UNCHANGED <<moments, seeded, stage, since, verdicts, found, checks, files>>
  BY DEF Finalize, CaseUnchanged, KbUnchanged
<1>2. /\ DOMAIN docs' = DOMAIN docs
      /\ docs'[d] = [docs[d] EXCEPT !.status = "finalized"]
      /\ \A e \in DOMAIN docs : e # d => docs'[e] = docs[e]
  BY DEF Finalize, TypeOK
<1>3. docs'[d] = [check |-> docs[d].check, type |-> docs[d].type,
                  status |-> "finalized", by |-> docs[d].by,
                  content |-> docs[d].content]
  BY <1>2 DEF Finalize, TypeOK
<1>4. TypeOK'
  BY <1>1, <1>2, <1>3 DEF TypeOK
<1>5. DocumentsInv'
  <2>1. DocumentInv(docs[d])'
    BY <1>1, <1>3 DEF DocumentInv, DocumentsInv, Finalize
  <2>2. ASSUME NEW e \in DOMAIN docs, e # d
        PROVE  DocumentInv(docs[e])'
    BY <2>2, <1>1, <1>2 DEF DocumentsInv, DocumentInv
  <2>3. \A f \in files' : /\ DocumentInv(f.document)'
                          /\ f.lines = Printout(f.document.content, f.format)
    BY <1>1 DEF DocumentsInv, DocumentInv
  <2>4. QED
    BY <2>1, <2>2, <2>3, <1>2 DEF DocumentsInv
<1>6. QED
  BY <1>4, <1>5, CaseKept DEF Finalize

LEMMA ExportKeeps ==
    ASSUME NEW d \in Docs, NEW format, CaseworkInv, Export(d, format)
    PROVE  CaseworkInv'
<1> USE DEF CaseworkInv
<1> DEFINE file == [document |-> docs[d], format |-> format,
                    lines |-> Printout(docs[d].content, format)]
<1>1. /\ UNCHANGED <<moments, seeded, stage, since, verdicts, found, checks, docs>>
      /\ files' = files \cup {file}
      /\ d \in DOMAIN docs
  BY DEF Export, CaseUnchanged, KbUnchanged
<1>2. TypeOK'
  BY <1>1 DEF TypeOK
<1>3. DocumentsInv'
  <2>1. /\ file.document = docs[d]
        /\ file.lines = Printout(file.document.content, file.format)
    OBVIOUS
  <2> HIDE DEF file
  <2>2. ASSUME NEW f \in files'
        PROVE  /\ DocumentInv(f.document)'
               /\ f.lines = Printout(f.document.content, f.format)
    <3>1. DocumentInv(f.document) /\ f.lines = Printout(f.document.content, f.format)
      BY <2>1, <2>2, <1>1 DEF DocumentsInv
    <3>2. QED
      BY <3>1, <1>1 DEF DocumentInv
  <2>3. \A e \in DOMAIN docs' : DocumentInv(docs[e])'
    BY <1>1 DEF DocumentsInv, DocumentInv
  <2>4. QED
    BY <2>2, <2>3 DEF DocumentsInv
<1>4. QED
  BY <1>2, <1>3, CaseKept DEF Export

(* The inductive invariant holds of every behaviour. *)
THEOREM CaseworkHolds == Spec => []CaseworkInv
<1>1. CaseworkInv /\ [Next]_vars => CaseworkInv'
  <2> SUFFICES ASSUME CaseworkInv, [Next]_vars PROVE CaseworkInv'
    OBVIOUS
  <2>1. CASE KnowledgeBaseStep
    BY <2>1, SeedKeeps, EditKeeps DEF KnowledgeBaseStep
  <2>2. ASSUME NEW k \in Checks, CheckStep(k)
        PROVE  CaseworkInv'
    BY <2>2, ReceiveKeeps, LookUpKeeps, StoreKeeps, AbandonKeeps DEF CheckStep
  <2>3. ASSUME NEW d \in Docs, DocumentStep(d)
        PROVE  CaseworkInv'
    BY <2>3, GenerateKeeps, UpdateKeeps, FinalizeKeeps, ExportKeeps DEF DocumentStep
  <2>4. CASE UNCHANGED vars
    BY <2>4 DEF vars, CaseworkInv, TypeOK, MomentsInv, RequestsInv, Graded,
               CitesOneMoment, CitesMoment, DocumentsInv, DocumentInv
  <2>5. QED
    BY <2>1, <2>2, <2>3, <2>4 DEF Next
<1>2. QED
  BY <1>1, InitHolds, PTL DEF Spec

-----------------------------------------------------------------------------
(* What the invariant implies.                                             *)

(* A check made after the seed names every norm it cites. *)
THEOREM SeededResolve == Spec => []SeededChecksResolve
<1>1. CaseworkInv => SeededChecksResolve
  <2> SUFFICES ASSUME CaseworkInv, NEW k \in DOMAIN checks,
                      seeded # 0, seeded <= since[k],
                      NEW c \in Numbers, NEW code \in Cites[c]
               PROVE  checks[k].results[c].references[code] # None
    BY DEF SeededChecksResolve
  <2>1. PICK m \in 1 .. Len(moments) : CitesMoment(k, m)
    BY DEF CaseworkInv, CitesOneMoment
  <2>2. since[k] \in 1 .. Len(moments)
    BY DEF CaseworkInv, TypeOK, RequestsInv
  <2>3. m \in seeded .. Len(moments)
    BY <2>1, <2>2 DEF CitesMoment, CaseworkInv, TypeOK
  <2>4. code \in SeedCodes
    BY CitedAreSeeded
  <2>5. moments[m][code] # None
    BY <2>3, <2>4 DEF CaseworkInv, MomentsInv
  <2>6. QED
    BY <2>1, <2>5 DEF CitesMoment
<1>2. QED
  BY <1>1, CaseworkHolds, PTL

(* No part of a document is the blank. *)
LEMMA NotBlank ==
    /\ \A n : Number(n) # Blank
    /\ \A c, status : Comment(c, status) # Blank
    /\ \A code, title : Printed(code, title) # Blank
    /\ \A w : Phrase(w) # Blank
<1>1. DOMAIN Blank = {"blank"}
  BY DEF Blank
<1>2. \A n : DOMAIN Number(n) = {"number"}
  BY DEF Number
<1>3. \A c, status : DOMAIN Comment(c, status) = {"comment"}
  BY DEF Comment
<1>4. \A code, title : DOMAIN Printed(code, title) \in {{"norm"}, {"code"}}
  BY DEF Printed, Norm, Code
<1>5. \A w : DOMAIN Phrase(w) = {"plain"}
  BY DEF Phrase
<1>6. QED
  BY <1>1, <1>2, <1>3, <1>4, <1>5

(* The lines of a list are its items. *)
LEMMA ListPrinted ==
    ASSUME NEW items
    PROVE  Blocks(List(items)) = {FormatItem(item) : item \in items}
BY DEF Blocks, Paragraphs, List

(* The items of a document about criterion c. *)
LEMMA ViolationPrinted ==
    ASSUME NEW c, NEW check
    PROVE  FormatItem([criterion_number |-> {Number(c)},
                       comment          |-> {Comment(c, check.results[c].status)},
                       references       |->
                           {Printed(code, check.results[c].references[code]) :
                               code \in Cites[c]}])
           = {Number(c), Comment(c, check.results[c].status)}
             \cup {Printed(code, check.results[c].references[code]) : code \in Cites[c]}
<1> DEFINE cited == {Printed(code, check.results[c].references[code]) : code \in Cites[c]}
           item == [criterion_number |-> {Number(c)},
                    comment          |-> {Comment(c, check.results[c].status)},
                    references       |-> cited]
<1>1. Blank \notin cited
  BY NotBlank
<1> HIDE DEF cited
<1>2. /\ DOMAIN item = {"criterion_number", "comment", "references"}
      /\ item["criterion_number"] = {Number(c)}
      /\ item["comment"] = {Comment(c, check.results[c].status)}
      /\ item["references"] = cited
  OBVIOUS
<1> HIDE DEF item
<1>3. \A f \in DOMAIN item : Blank \notin item[f]
  BY <1>1, <1>2, NotBlank
<1>4. FormatItem(item) = UNION {item[f] : f \in DOMAIN item}
  BY <1>3, ItemPrinted
<1>5. UNION {item[f] : f \in DOMAIN item}
          = {Number(c), Comment(c, check.results[c].status)} \cup cited
  BY <1>2
<1>6. QED
  BY <1>4, <1>5 DEF item, cited

(* A field without a blank is printed. *)
LEMMA FieldPrinted ==
    ASSUME NEW item, NEW f \in DOMAIN item, Blank \notin item[f]
    PROVE  item[f] \subseteq FormatItem(item)
BY DEF FormatItem, IsEmpty

(* The lines that argue criterion c in a petition, a checklist and a plan,   *)
(* when the check cites the norms of moment m.                               *)
LEMMA PetitionArgues ==
    ASSUME NEW k \in DOMAIN checks, NEW m, CitesMoment(k, m), Graded(checks[k].results),
           NEW type \in Types \ {"officer_checklist", "legalization_plan"}
    PROVE  Blocks(List(Violations(checks[k], type)))
               = {SaysOf(c, k, m, type) : c \in Concerned(k, type)}
<1> DEFINE item(c) == [criterion_number |-> {Number(c)},
                       comment |-> {Comment(c, checks[k].results[c].status)},
                       references |->
                           {Printed(code, checks[k].results[c].references[code]) :
                               code \in Cites[c]}]
<1>1. Relevant[type] \subseteq Numbers
  BY DEF Relevant, Types, Numbers
<1>2. {n \in Relevant[type] : checks[k].results[n].status \in {Violation, Attention}}
          = Concerned(k, type)
  <2>1. Passed \notin {Violation, Attention}
    BY DEF Passed, Violation, Attention
  <2>2. QED
    BY <1>1, <2>1 DEF Concerned, Graded
<1>3. Violations(checks[k], type) = {item(c) : c \in Concerned(k, type)}
  BY <1>2 DEF Violations
<1>4. ASSUME NEW c \in Concerned(k, type)
      PROVE  FormatItem(item(c)) = SaysOf(c, k, m, type)
  <2>1. c \in Numbers
    BY <1>1, <1>4 DEF Concerned
  <2>2. {Printed(code, checks[k].results[c].references[code]) : code \in Cites[c]}
            = {Printed(code, moments[m][code]) : code \in Cites[c]}
    BY <2>1 DEF CitesMoment
  <2>3. FormatItem(item(c)) = {Number(c), Comment(c, checks[k].results[c].status)}
            \cup {Printed(code, checks[k].results[c].references[code]) : code \in Cites[c]}
    BY ViolationPrinted
  <2>4. QED
    BY <2>2, <2>3 DEF SaysOf
<1> HIDE DEF item
<1>5. Blocks(List(Violations(checks[k], type)))
          = {FormatItem(item(c)) : c \in Concerned(k, type)}
  BY <1>3, ListPrinted
<1>6. QED
  BY <1>4, <1>5

LEMMA ChecklistArgues ==
    ASSUME NEW k, NEW m, NEW c \in Numbers
    PROVE  \E line \in Blocks(List(ChecklistItems(checks[k]))) :
               SaysOf(c, k, m, "officer_checklist") \subseteq line
<1> DEFINE item == [criterion_number |-> {Number(c)},
                    status           |-> {Phrase(checks[k].results[c].status)},
                    comment          |-> {Comment(c, checks[k].results[c].status)}]
<1>1. item \in ChecklistItems(checks[k])
  BY DEF ChecklistItems
<1>2. /\ {"criterion_number", "status", "comment"} = DOMAIN item
      /\ item["criterion_number"] = {Number(c)}
      /\ item["status"] = {Phrase(checks[k].results[c].status)}
      /\ item["comment"] = {Comment(c, checks[k].results[c].status)}
  OBVIOUS
<1> HIDE DEF item
<1>3. SaysOf(c, k, m, "officer_checklist") \subseteq FormatItem(item)
  BY <1>2, NotBlank, FieldPrinted DEF SaysOf
<1>4. QED
  BY <1>1, <1>3, ListPrinted

LEMMA PlanArgues ==
    ASSUME NEW k, NEW m, NEW c \in {9, 10, 11}
    PROVE  \E line \in Blocks(List(PlanStages(checks[k]))) :
               SaysOf(c, k, m, "legalization_plan") \subseteq line
<1> DEFINE stageOf(i) == [number  |-> {Number(i)},
                          comment |-> {IF i = 4 THEN Blank
                              ELSE Comment(i + 8, checks[k].results[i + 8].status)}]
           item == [number  |-> {Number(c - 8)},
                    comment |-> {Comment(c, checks[k].results[c].status)}]
<1>1. item \in PlanStages(checks[k])
  <2>1. c - 8 \in 1 .. 4 /\ c - 8 # 4 /\ (c - 8) + 8 = c
    OBVIOUS
  <2>2. stageOf(c - 8) = item
    BY <2>1
  <2>3. stageOf(c - 8) \in PlanStages(checks[k])
    BY <2>1 DEF PlanStages
  <2>4. QED
    BY <2>2, <2>3
<1>2. /\ {"number", "comment"} = DOMAIN item
      /\ item["number"] = {Number(c - 8)}
      /\ item["comment"] = {Comment(c, checks[k].results[c].status)}
  OBVIOUS
<1> HIDE DEF item
<1>3. SaysOf(c, k, m, "legalization_plan") \subseteq FormatItem(item)
  BY <1>2, NotBlank, FieldPrinted DEF SaysOf
<1>4. QED
  BY <1>1, <1>3, ListPrinted

(* A file of an untouched document makes the case of its check. *)
THEOREM FilesArgue == Spec => []FilesArgueTheCheck
<1>1. CaseworkInv => FilesArgueTheCheck
  <2> SUFFICES ASSUME CaseworkInv, NEW f \in files, f.document.by = "template"
               PROVE  LET k == f.document.check
                          type == f.document.type
                      IN  \E m \in 1 .. Len(moments) :
                /\ CitesMoment(k, m)
                /\ \A c \in Concerned(k, type) : \E line \in f.lines[ArgumentIn(type)] :
                       SaysOf(c, k, m, type) \subseteq line
                /\ ArgumentIn(type) = "violations" =>
                       \A line \in f.lines["violations"] :
                           \E c \in Concerned(k, type) : line = SaysOf(c, k, m, type)
    BY DEF FilesArgueTheCheck
  <2> DEFINE k == f.document.check
             type == f.document.type
  <2>1. /\ DocumentInv(f.document)
        /\ f.lines = Printout(f.document.content, f.format)
    BY DEF CaseworkInv, DocumentsInv
  <2>2. k \in DOMAIN checks /\ type \in Types
    BY <2>1 DEF DocumentInv
  <2>3. PICK role \in DOMAIN TypesFor, form \in Forms :
            f.document.content = Render(type, checks[k], role, form)
    BY <2>1 DEF DocumentInv
  <2>4. \A s \in Layout[type] :
            f.lines[s] = Blocks(Section(s, type, checks[k], role, form))
    BY <2>1, <2>3, FormatsAgree DEF Render
  <2>5. PICK m \in 1 .. Len(moments) : CitesMoment(k, m)
    BY <2>2 DEF CaseworkInv, CitesOneMoment
  <2>6. Graded(checks[k].results)
    BY <2>2 DEF CaseworkInv, RequestsInv
  <2> HIDE DEF k, type
  <2>7. CASE type \notin {"officer_checklist", "legalization_plan"}
    <3>1. "violations" \in Layout[type] /\ ArgumentIn(type) = "violations"
      BY <2>2, <2>7 DEF Types, Layout, Petition, ArgumentIn
    <3>2. f.lines["violations"] = Blocks(List(Violations(checks[k], type)))
      BY <2>4, <3>1 DEF Section
    <3>3. f.lines["violations"] = {SaysOf(c, k, m, type) : c \in Concerned(k, type)}
      BY <3>2, <2>2, <2>5, <2>6, <2>7, PetitionArgues
    <3>4. QED
      BY <2>5, <3>1, <3>3 DEF k, type
  <2>8. CASE type = "officer_checklist"
    <3>1. ArgumentIn(type) = "items" /\ "items" \in Layout[type]
      BY <2>8 DEF ArgumentIn, Layout
    <3>2. f.lines["items"] = Blocks(List(ChecklistItems(checks[k])))
      BY <2>4, <3>1 DEF Section
    <3>3. Concerned(k, type) = Numbers
      BY <2>8 DEF Concerned, Relevant
    <3>4. \A c \in Concerned(k, type) : \E line \in f.lines["items"] :
              SaysOf(c, k, m, type) \subseteq line
      BY <3>2, <3>3, <2>8, ChecklistArgues
    <3>5. QED
      BY <2>5, <3>1, <3>4 DEF k, type
  <2>9. CASE type = "legalization_plan"
    <3>1. ArgumentIn(type) = "stages" /\ "stages" \in Layout[type]
      BY <2>9 DEF ArgumentIn, Layout
    <3>2. f.lines["stages"] = Blocks(List(PlanStages(checks[k])))
      BY <2>4, <3>1 DEF Section
    <3>3. Concerned(k, type) = {9, 10, 11}
      BY <2>9 DEF Concerned, Relevant
    <3>4. \A c \in Concerned(k, type) : \E line \in f.lines["stages"] :
              SaysOf(c, k, m, type) \subseteq line
      BY <3>2, <3>3, <2>9, PlanArgues
    <3>5. QED
      BY <2>5, <3>1, <3>4 DEF k, type
  <2>10. QED
    BY <2>7, <2>8, <2>9
<1>2. QED
  BY <1>1, CaseworkHolds, PTL

(* Every part of a content is in its file. *)
THEOREM FilesTellAll == Spec => []FilesHideNothing
<1>1. ASSUME NEW lines, NEW value, Paragraphs(value) \subseteq lines
      PROVE  Shows(lines, value)
  <2>1. CASE value.form = "text"
    BY <1>1, <2>1 DEF Paragraphs, Shows
  <2>2. CASE value.form # "text"
    BY <1>1, <2>2, ItemSaid DEF Paragraphs, Shows
  <2>3. QED
    BY <2>1, <2>2
<1>2. CaseworkInv => FilesHideNothing
  <2> SUFFICES ASSUME CaseworkInv, NEW f \in files, NEW s \in DOMAIN f.document.content
               PROVE  LET value == f.document.content[s]
                      IN  IF value.form # "object" THEN Shows(f.lines[s], value)
                          ELSE \A key \in DOMAIN value.parts :
                                   /\ {Phrase(key)} \in f.lines[s]
                                   /\ Shows(f.lines[s], value.parts[key])
    BY DEF FilesHideNothing
  <2> DEFINE value == f.document.content[s]
  <2>1. f.lines[s] = Blocks(value)
    BY FormatsAgree DEF CaseworkInv, DocumentsInv
  <2> HIDE DEF value
  <2>2. CASE value.form # "object"
    <3>1. f.lines[s] = Paragraphs(value)
      BY <2>1, <2>2 DEF Blocks
    <3>2. QED
      BY <2>2, <3>1, <1>1 DEF value
  <2>3. CASE value.form = "object"
    <3>1. ASSUME NEW key \in DOMAIN value.parts
          PROVE  /\ {Phrase(key)} \in f.lines[s]
                 /\ Paragraphs(value.parts[key]) \subseteq f.lines[s]
      BY <2>1, <2>3 DEF Blocks
    <3>2. QED
      BY <2>3, <3>1, <1>1 DEF value
  <2>4. QED
    BY <2>2, <2>3
<1>3. QED
  BY <1>2, CaseworkHolds, PTL
=============================================================================
