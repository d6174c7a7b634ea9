----------------------------- MODULE Casework -----------------------------
(***************************************************************************)
(* From the norms to a file: a check (app/checks/service.py) stores the    *)
(* titles its norms have in the knowledge base, a document                 *)
(* (app/documents/templates) is written from the stored check, and an      *)
(* export (app/documents/export.py) prints it, while the norms go on       *)
(* changing.                                                               *)
(*                                                                         *)
(* Of the knowledge base only what a reader is shown matters here: commits *)
(* that publish contents, as VersionedStore states them.  A request that   *)
(* reads nothing another one can change between its statements is one      *)
(* action; who may send it is the subject of Documents and Journal.        *)
(***************************************************************************)
EXTENDS Criteria, Sequences, FiniteSets

CONSTANTS
    Checks,       \* the identifiers of checks
    Docs,         \* the identifiers of documents
    Cases,        \* cases[.role, .answers]: what POST /checks is sent
    Titles,       \* titles administrators publish
    Edited,       \* the codes they publish them for
    Contents,     \* contents PATCH /documents is sent
    Marked,       \* phrases that look like markup to reportlab
    MaxMoments,   \* bound on the commits to the knowledge base
    MaxFiles      \* bound on the exports

-----------------------------------------------------------------------------
(* Phrases: the smallest parts of a text that a document keeps.            *)

Phrase(s) == [plain |-> s]
Blank == [blank |-> TRUE]
Number(n) == [number |-> n]
Comment(c, status) == [comment |-> <<c, status>>]
Norm(code, title) == [norm |-> <<code, title>>]
Code(code) == [code |-> code]

\* Sections of a content: a text of some lines; a list of items, each with its
\* fields; an object.  The order of lines, items and fields is left out.
Prose(lines) == [form |-> "text", lines |-> lines]
List(items) == [form |-> "list", items |-> items]
Object(parts) == [form |-> "object", parts |-> parts]

-----------------------------------------------------------------------------
(* The norms.                                                              *)

Article(n) == "fz-ord-art" \o n

\* The legal_references of the fourteen rules.
Cites == << {Article("7"), Article("8")},
            {Article("8"), Article("9")},
            {Article("8"), Article("9")},
            {Article("8")},
            {Article("8"), "plenum-vs-2009-1"},
            {Article("8"), Article("9")},
            {Article("8"), Article("9")},
            {Article("8"), Article("12")},
            {Article("11"), "upk-art89"},
            {Article("12")},
            {Article("5"), Article("12")},
            {Article("5-ch4")},
            {Article("8"), "upk"},
            {Article("6"), "upk", "koap"} >>

CitedCodes == UNION {Cites[c] : c \in Numbers}

FederalLaw == {Article(n) : n \in {"5", "5-ch4", "6", "7", "8", "9", "11", "12"}}

\* Variant: the codices come later.
LawsOnly == FederalLaw \cup {"upk-art89", "plenum-vs-2009-1"}

\* SEED_DOCUMENTS, without the rulings of the Constitutional Court: no rule
\* cites them.
SeedCodes == FederalLaw
             \cup {"upk-art89", "upk-art81-1", "upk", "koap", "plenum-vs-2009-1"}

SeedTitle == "seed"

\* The codes a check may ask for or the knowledge base have.
Codes == CitedCodes \cup SeedCodes

ASSUME CaseworkAssumption ==
    /\ Edited \subseteq Codes
    /\ None \notin Titles \cup {SeedTitle, ""}
    /\ None \notin Cases
    /\ MaxMoments \in Nat /\ MaxFiles \in Nat

VARIABLES
    moments,   \* moments[m][code]: the current title after the m-th commit to
               \* the knowledge base, None if the code is not in it
    seeded,    \* the moment the seed script made, 0 before
    stage,     \* where the request that creates each check stands
    since,     \* the moment it came
    verdicts,  \* what evaluate_criteria made of its case
    found,     \* the norms get_by_codes_map has returned to it
    checks,    \* the committed checks with their results
    docs,      \* the committed documents
    files      \* the files exported so far, with the document they show

vars == <<moments, seeded, stage, since, verdicts, found, checks, docs, files>>

Nothing == [x \in {} |-> None]

\* f with v for x.
Put(f, x, v) == [y \in DOMAIN f \cup {x} |-> IF y = x THEN v ELSE f[y]]

Init ==
    /\ moments = << [code \in Codes |-> None] >>
    /\ seeded = 0
    /\ stage = [k \in Checks |-> "idle"]
    /\ since = [k \in Checks |-> 0]
    /\ verdicts = [k \in Checks |-> None]
    /\ found = [k \in Checks |-> Nothing]
    /\ checks = Nothing
    /\ docs = Nothing
    /\ files = {}

Now == moments[Len(moments)]

Publish(norms) ==
    /\ Len(moments) < MaxMoments
    /\ moments' = Append(moments, norms)
    /\ UNCHANGED <<stage, since, verdicts, found, checks, docs, files>>

\* The seed script commits: the codes that had no version have one.
Seed ==
    /\ seeded = 0
    /\ Publish([code \in Codes |->
           IF code \in SeedCodes /\ Now[code] = None THEN SeedTitle ELSE Now[code]])
    /\ seeded' = Len(moments) + 1

\* An administrator's POST or PUT commits; only a PUT may blank the title.
Edit(code, title) ==
    /\ title = "" => Now[code] # None
    /\ Publish([Now EXCEPT ![code] = title])
    /\ UNCHANGED seeded

-----------------------------------------------------------------------------
(* POST /checks.                                                           *)

KbUnchanged == UNCHANGED <<moments, seeded>>

\* The request comes; up to its first await it evaluates the rules.
Receive(k, case) ==
    /\ stage[k] = "idle"
    /\ stage' = [stage EXCEPT ![k] = "evaluated"]
    /\ since' = [since EXCEPT ![k] = Len(moments)]
    /\ verdicts' = [verdicts EXCEPT ![k] =
           [role |-> case.role, results |-> Evaluate(case.role, case.answers)]]
    /\ KbUnchanged /\ UNCHANGED <<found, checks, docs, files>>

\* The current rows of the codes, those that exist.
CurrentOf(codes, norms) ==
    [code \in {c \in codes : norms[c] # None} |-> norms[code]]

\* Variant: a SELECT for the federal law, then one for the other codes.
LookUpTwice(k) ==
    /\ \/ /\ stage[k] = "evaluated"
          /\ stage' = [stage EXCEPT ![k] = "halfway"]
          /\ found' = [found EXCEPT ![k] = CurrentOf(CitedCodes \cap FederalLaw, Now)]
       \/ /\ stage[k] = "halfway"
          /\ stage' = [stage EXCEPT ![k] = "resolved"]
          /\ LET rest == CurrentOf(CitedCodes \ FederalLaw, Now)
             IN  found' = [found EXCEPT ![k] =
                     [code \in DOMAIN found[k] \cup DOMAIN rest |->
                         IF code \in DOMAIN rest THEN rest[code] ELSE found[k][code]]]
    /\ KbUnchanged /\ UNCHANGED <<since, verdicts, checks, docs, files>>

\* One SELECT for the codes of all results.
LookUp(k) ==
    /\ stage[k] = "evaluated"
    /\ stage' = [stage EXCEPT ![k] = "resolved"]
    /\ found' = [found EXCEPT ![k] = CurrentOf(CitedCodes, Now)]
    /\ KbUnchanged /\ UNCHANGED <<since, verdicts, checks, docs, files>>

\* The snapshot a result keeps; a code that was not found keeps a placeholder
\* with no title.
References(codes, norms) ==
    [code \in codes |-> IF code \in DOMAIN norms THEN norms[code] ELSE None]

\* The check and its results are inserted and committed together.
Store(k) ==
    /\ stage[k] = "resolved"
    /\ stage' = [stage EXCEPT ![k] = "stored"]
    /\ checks' = Put(checks, k,
           [role    |-> verdicts[k].role,
            results |-> [c \in Numbers |->
                [status     |-> verdicts[k].results[c].status,
                 priority   |-> verdicts[k].results[c].priority,
                 references |-> References(Cites[c], found[k])]]])
    /\ KbUnchanged /\ UNCHANGED <<since, verdicts, found, docs, files>>

\* Any statement may fail: the session rolls back.
Abandon(k) ==
    /\ stage[k] \in {"evaluated", "resolved"}
    /\ stage' = [stage EXCEPT ![k] = "failed"]
    /\ KbUnchanged /\ UNCHANGED <<since, verdicts, found, checks, docs, files>>

-----------------------------------------------------------------------------
(* What a document says: build_context and the template of its type.       *)

Types == {"exclusion_motion", "court_decision_copy_request",
          "data_request_complaint", "officer_checklist", "legalization_plan"}

TypesFor ==
    [lawyer       |-> Types \ {"officer_checklist", "legalization_plan"},
     investigator |-> Types \ {"exclusion_motion", "data_request_complaint"},
     officer      |-> {"officer_checklist", "legalization_plan"},
     admin        |-> Types]

\* RELEVANT_CRITERIA.
Relevant ==
    [exclusion_motion            |-> Numbers,
     court_decision_copy_request |-> {10},
     data_request_complaint      |-> {12},
     officer_checklist           |-> Numbers,
     legalization_plan           |-> {9, 10, 11}]

\* extra_fields: a field that is blank was not given.
Fields == {"addressee", "applicant_name", "case_number"}
Forms == [Fields -> {Phrase("filled in"), Blank}]

Required ==
    [exclusion_motion            |-> Fields,
     court_decision_copy_request |-> Fields,
     data_request_complaint      |-> Fields \ {"case_number"},
     officer_checklist           |-> {},
     legalization_plan           |-> {}]

\* ref.title or ref.code
Printed(code, title) ==
    IF title \in {None, ""} THEN Code(code) ELSE Norm(code, title)

Violations(check, type) ==
    {[criterion_number |-> {Number(c)},
      comment          |-> {Comment(c, check.results[c].status)},
      references       |-> {Printed(code, check.results[c].references[code]) :
                               code \in Cites[c]}] :
        c \in {n \in Relevant[type] :
                  check.results[n].status \in {Violation, Attention}}}

ChecklistItems(check) ==
    {[criterion_number |-> {Number(c)},
      status           |-> {Phrase(check.results[c].status)},
      comment          |-> {Comment(c, check.results[c].status)}] : c \in Numbers}

\* The stages that answer criteria 9 to 11, and the last one.
PlanStages(check) ==
    {[number  |-> {Number(i)},
      comment |-> {IF i = 4 THEN Blank
                   ELSE Comment(i + 8, check.results[i + 8].status)}] : i \in 1 .. 4}

\* The sections of the template of a type.
Petition == {"addressee", "applicant_data", "case_circumstances", "violations",
             "legal_basis", "prayer", "date", "signature"}

Layout ==
    [exclusion_motion            |-> Petition \cup {"ks_rf"},
     court_decision_copy_request |-> Petition,
     data_request_complaint      |-> Petition,
     officer_checklist           |-> {"title", "items"},
     legalization_plan           |-> {"title", "stages", "legal_basis", "date",
                                      "signature"}]

\* The applicant is the user unless the form names one.
ApplicantData(role, form) ==
    {IF form["applicant_name"] = Blank THEN Phrase("full_name")
     ELSE form["applicant_name"], Phrase(role)}
    \cup ({form["case_number"]} \ {Blank})

Section(s, type, check, role, form) ==
    CASE s = "addressee"          -> Prose({form["addressee"]})
      [] s = "applicant_data"     -> Prose(ApplicantData(role, form))
      [] s = "violations"         -> List(Violations(check, type))
      [] s = "items"              -> List(ChecklistItems(check))
      [] s = "stages"             -> List(PlanStages(check))
      [] s = "ks_rf"              -> List({[number |-> {Phrase("ks_rf")}]})
      [] s = "signature"          -> Prose({Phrase("full_name")})
      [] OTHER                    -> Prose({Phrase(s)})

\* Variant: the norms are read again when the document is written.
RenderAfresh(type, check, role, form) ==
    LET current == [check EXCEPT !.results = [c \in Numbers |->
                       [check.results[c] EXCEPT !.references =
                            References(Cites[c], CurrentOf(CitedCodes, Now))]]]
    IN  [s \in Layout[type] |-> Section(s, type, current, role, form)]

Render(type, check, role, form) ==
    [s \in Layout[type] |-> Section(s, type, check, role, form)]

-----------------------------------------------------------------------------
(* Documents.                                                              *)

CaseUnchanged == KbUnchanged /\ UNCHANGED <<stage, since, verdicts, found, checks>>

\* POST /checks/{id}/documents, by the owner of the check or an administrator.
Generate(d, k, type, role, form) ==
    /\ d \notin DOMAIN docs
    /\ k \in DOMAIN checks
    /\ role \in {checks[k].role, "admin"}
    /\ type \in TypesFor[role]
    /\ \A f \in Required[type] : form[f] # Blank
    /\ docs' = Put(docs, d,
           [check |-> k, type |-> type, status |-> "draft", by |-> "template",
            content |-> Render(type, checks[k], role, form)])
    /\ CaseUnchanged /\ UNCHANGED files

\* PATCH: the owner replaces the content of a draft.
Update(d, content) ==
    /\ d \in DOMAIN docs
    /\ docs[d].status = "draft"
    /\ docs' = [docs EXCEPT ![d].content = content, ![d].by = "owner"]
    /\ CaseUnchanged /\ UNCHANGED files

Finalize(d) ==
    /\ d \in DOMAIN docs
    /\ docs[d].status = "draft"
    /\ docs' = [docs EXCEPT ![d].status = "finalized"]
    /\ CaseUnchanged /\ UNCHANGED files

-----------------------------------------------------------------------------
(* The file of a document.                                                 *)

\* Variant: what Python takes for false.
IsFalsy(value) == value \subseteq {Blank, Number(0)}

\* What _format_item leaves out: None, "", [] and {}.
IsEmpty(value) == value \subseteq {Blank}

FormatItem(item) ==
    UNION {item[f] : f \in {g \in DOMAIN item : ~IsEmpty(item[g])}}

\* The lines of a text or a list, each with the phrases it shows.
Paragraphs(value) == IF value.form = "text" THEN {{w} : w \in value.lines}
                     ELSE {FormatItem(item) : item \in value.items}

\* An object shows a line for each of its keys, and what is under it.
Blocks(value) ==
    IF value.form # "object" THEN Paragraphs(value)
    ELSE UNION {{{Phrase(key)}} \cup Paragraphs(value.parts[key]) :
                   key \in DOMAIN value.parts}

\* Variant: the string as it is.
Raw(w) == [text |-> w, escaped |-> FALSE]

\* What reportlab shows of a string, and html.escape for it.
Shown(string) == IF string.text \in Marked /\ ~string.escaped THEN Blank
                 ELSE string.text
Escaped(w) == [text |-> w, escaped |-> TRUE]

\* The file, section by section; only PDF text is parsed as markup.
Printout(content, format) ==
    [s \in DOMAIN content |->
        IF format = "docx" THEN Blocks(content[s])
        ELSE {{Shown(Escaped(w)) : w \in line} : line \in Blocks(content[s])}]

\* GET /documents/{id}/export: also of a draft.
Export(d, format) ==
    /\ d \in DOMAIN docs
    /\ Cardinality(files) < MaxFiles
    /\ files' = files \cup
           {[document |-> docs[d], format |-> format,
             lines |-> Printout(docs[d].content, format)]}
    /\ CaseUnchanged /\ UNCHANGED docs

-----------------------------------------------------------------------------

KnowledgeBaseStep == Seed \/ \E code \in Edited, title \in Titles : Edit(code, title)

CheckStep(k) == \/ \E case \in Cases : Receive(k, case)
                \/ LookUp(k) \/ Store(k) \/ Abandon(k)

DocumentStep(d) ==
    \/ \E k \in Checks, type \in Types, role \in DOMAIN TypesFor, form \in Forms :
           Generate(d, k, type, role, form)
    \/ \E content \in Contents : Update(d, content)
    \/ Finalize(d)
    \/ \E format \in {"docx", "pdf"} : Export(d, format)

Next == \/ KnowledgeBaseStep
        \/ \E k \in Checks : CheckStep(k)
        \/ \E d \in Docs : DocumentStep(d)

Spec == Init /\ [][Next]_vars

-----------------------------------------------------------------------------
(* Properties.                                                             *)

\* k cites the norms of one moment, no older than its request.
CitesMoment(k, m) ==
    /\ m \in since[k] .. Len(moments)
    /\ \A c \in Numbers : \A code \in Cites[c] :
           checks[k].results[c].references[code] = moments[m][code]

\* The norms of a check are those of one moment of its request: no check mixes
\* the versions from before and after a publication, however many criteria
\* cite the code (checks/service.py, create).
CitesOneMoment ==
    \A k \in DOMAIN checks : \E m \in 1 .. Len(moments) : CitesMoment(k, m)

\* A check that came after the seed script has a title for every norm that any
\* rule cites (rules and the seed script name the same codes).
SeededChecksResolve ==
    \A k \in DOMAIN checks :
        seeded # 0 /\ seeded <= since[k] =>
            \A c \in Numbers : \A code \in Cites[c] :
                checks[k].results[c].references[code] # None

\* What a file of an untouched document must say of criterion c of check k,
\* whose norms are those of moment m.
SaysOf(c, k, m, type) ==
    LET status == checks[k].results[c].status
    IN  CASE type = "officer_checklist" ->
                {Number(c), Comment(c, status), Phrase(status)}
          [] type = "legalization_plan" -> {Number(c - 8), Comment(c, status)}
          [] OTHER -> {Number(c), Comment(c, status)}
                      \cup {Printed(code, moments[m][code]) : code \in Cites[c]}

\* The criteria it must speak of, and the section it does so in.
Concerned(k, type) ==
    IF type \in {"officer_checklist", "legalization_plan"} THEN Relevant[type]
    ELSE {c \in Relevant[type] : checks[k].results[c].status # Passed}

ArgumentIn(type) == CASE type = "officer_checklist" -> "items"
                      [] type = "legalization_plan" -> "stages"
                      [] OTHER                      -> "violations"

\* A file of a document nobody edited makes the case of its check: a line for
\* every criterion its type is about, with the verdict and the norms of the one
\* moment at which the check was made, whatever the knowledge base says when
\* the document is written or exported; and a petition speaks of no other.
FilesArgueTheCheck ==
    \A f \in files : f.document.by = "template" =>
        LET k == f.document.check
            type == f.document.type
        IN  \E m \in 1 .. Len(moments) :
                /\ CitesMoment(k, m)
                /\ \A c \in Concerned(k, type) : \E line \in f.lines[ArgumentIn(type)] :
                       SaysOf(c, k, m, type) \subseteq line
                /\ ArgumentIn(type) = "violations" =>
                       \A line \in f.lines["violations"] :
                           \E c \in Concerned(k, type) : line = SaysOf(c, k, m, type)

\* What an item says.
Said(item) == (UNION {item[f] : f \in DOMAIN item}) \ {Blank}

\* lines show a text or a list: its lines, or each item on a line of its own.
Shows(lines, value) ==
    IF value.form = "text" THEN \A w \in value.lines : {w} \in lines
    ELSE \A item \in value.items : \E line \in lines : line \ {Blank} = Said(item)

\* Whatever a content says, template or edited by hand, both formats say: no
\* section, key, item or value is dropped but the empty ones, a zero or a false
\* is none, and no text is lost because it looks like markup.
FilesHideNothing ==
    \A f \in files : \A s \in DOMAIN f.document.content :
        LET value == f.document.content[s]
        IN  IF value.form # "object" THEN Shows(f.lines[s], value)
            ELSE \A key \in DOMAIN value.parts :
                     /\ {Phrase(key)} \in f.lines[s]
                     /\ Shows(f.lines[s], value.parts[key])

-----------------------------------------------------------------------------
(* The inductive invariant.                                                *)

TypeOK ==
    /\ moments \in Seq([Codes -> Titles \cup {SeedTitle, None}])
    /\ seeded \in 0 .. Len(moments)
    /\ DOMAIN stage = Checks
    /\ DOMAIN since = Checks
    /\ DOMAIN verdicts = Checks
    /\ DOMAIN found = Checks
    /\ DOMAIN checks \subseteq Checks
    /\ DOMAIN docs \subseteq Docs
    /\ \A d \in DOMAIN docs :
           docs[d] = [check |-> docs[d].check, type |-> docs[d].type,
                      status |-> docs[d].status, by |-> docs[d].by,
                      content |-> docs[d].content]

\* Every code of the seed is in from then on.
MomentsInv ==
    /\ Len(moments) > 0
    /\ seeded # 0 => \A m \in seeded .. Len(moments) :
                         \A code \in SeedCodes : moments[m][code] # None

Graded(results) == \A c \in Numbers : results[c].status \in {Passed, Attention, Violation}

\* A request has found the norms of one moment since it came.
RequestsInv ==
    /\ \A k \in Checks : stage[k] # "idle" => since[k] \in 1 .. Len(moments)
    /\ \A k \in Checks : stage[k] \in {"evaluated", "resolved"} =>
           Graded(verdicts[k].results)
    /\ \A k \in Checks : stage[k] = "resolved" =>
           \E m \in since[k] .. Len(moments) :
               found[k] = CurrentOf(CitedCodes, moments[m])
    /\ \A k \in DOMAIN checks : stage[k] = "stored" /\ Graded(checks[k].results)

\* An untouched document is what the template makes of its check.
DocumentInv(d) ==
    /\ d.type \in Types
    /\ d.check \in DOMAIN checks
    /\ d.by = "template" =>
           \E role \in DOMAIN TypesFor, form \in Forms :
               d.content = Render(d.type, checks[d.check], role, form)

DocumentsInv ==
    /\ \A d \in DOMAIN docs : DocumentInv(docs[d])
    /\ \A f \in files : /\ DocumentInv(f.document)
                        /\ f.lines = Printout(f.document.content, f.format)

\* What a request has found, or a stored check cites, is what the knowledge
\* base showed at one moment, and an untouched document is what the template
\* makes of the stored check (checks/service.py, create; templates).
CaseworkInv == TypeOK /\ MomentsInv /\ RequestsInv /\ CitesOneMoment /\ DocumentsInv

=============================================================================
