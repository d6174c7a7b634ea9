------------------------------ MODULE Criteria ------------------------------
(***************************************************************************)
(* The fourteen rules of app/checks/rules: how an answer is read and what  *)
(* each criterion makes of the answers it is given.                        *)
(*                                                                         *)
(* The answers to a criterion are a function from the names of fields to   *)
(* JSON values; a name out of its domain was not answered.  Comments,      *)
(* titles and recommendations follow from the verdict and are left out.    *)
(***************************************************************************)
EXTENDS Integers

CONSTANTS
    Words,   \* texts, without their outer blanks and in lower case
    None     \* Python's None

\* A JSON value that is no array or object.  num is the number it states: 0 or 1
\* for a boolean, rounded away from 0 for a number with a point ("float": both
\* 7.0 and 6.5 have 7), and 0 where none is stated.  word stands for a text; a
\* text states a number as a "numeral", which int() reads, or as an "amount",
\* which it does not: "7.0", "6,5", "7 months".
Json == {v \in [form : {"null", "bool", "int", "float", "text"},
                num : Int, word : Words] :
            /\ v.form = "null" => v.num = 0
            /\ v.form = "text" /\ v.word \notin {"numeral", "amount"} => v.num = 0}

Null == [form |-> "null", num |-> 0, word |-> "none"]
Flag(b) == [form |-> "bool", num |-> IF b THEN 1 ELSE 0, word |-> "none"]
Text(w) == [form |-> "text", num |-> 0, word |-> w]

\* What booleans of Python and JSON, and words of two languages, say yes.
YesWords == {"true", "yes", "da", "y"}

\* The values of the domain that rules compare texts with: "zhiloe",
\* "proverochnaya zakupka" and "dosmotr" of the source.
Residential == "zhiloe"
ExemptOrmTypes == {"proverochnaya zakupka", "dosmotr"}

ASSUME CriteriaAssumption ==
    /\ {"none", "converted", Residential} \cup ExemptOrmTypes \subseteq Words
    /\ None \notin Words

-----------------------------------------------------------------------------
(* base.py: reading an answer.                                             *)

\* answers.get(key): the default of every reader is also what it makes of null.
Get(a, f) == IF f \in DOMAIN a THEN a[f] ELSE Null

\* Variant: bool(value), a text is true whatever it says.
BoolOfTruthy(v) == IF v.form = "text" THEN v.word # "blank"
                   ELSE v.form # "null" /\ v.num # 0

BoolOf(v) == IF v.form = "text"
             THEN v.word \in YesWords \/ (v.word = "numeral" /\ v.num = 1)
             ELSE v.form # "null" /\ v.num # 0

\* int() refuses a text with a point or a unit, and a float is no int.
IntOf(v) == IF v.form \in {"bool", "int"} \/ (v.form = "text" /\ v.word = "numeral")
            THEN v.num ELSE 0

\* A value that is no text is converted to one, which no rule knows.
StrOf(v) == IF v.form = "null" \/ (v.form = "text" /\ v.word = "blank") THEN None
            ELSE IF v.form = "text" THEN v.word ELSE "converted"

Yes(a, f) == BoolOf(Get(a, f))
Count(a, f) == IntOf(Get(a, f))
Word(a, f) == StrOf(Get(a, f))

-----------------------------------------------------------------------------
(* The rules.                                                              *)

Passed == "passed"
Attention == "attention"
Violation == "violation"

Violated(condition) == IF condition THEN Violation ELSE Passed
Remarked(condition) == IF condition THEN Attention ELSE Passed

Criterion01(a) == Violated(~Yes(a, "has_crime_signs") \/ ~Yes(a, "has_instruction"))

Criterion02(a) ==
    Violated(\/ Yes(a, "used_48h_norm")
             \/ Yes(a, "limits_constitutional_rights") /\ ~Yes(a, "has_court_order"))

Criterion03(a) ==
    Violated(/\ Yes(a, "uses_covert_sts")
             /\ Word(a, "premises_type") = Residential
             /\ ~Yes(a, "has_residents_consent")
             /\ ~Yes(a, "has_court_order"))

Criterion04(a) == Remarked(Yes(a, "participant_consent"))

Criterion05(a) ==
    Violated(\/ Yes(a, "coercion")
             \/ Yes(a, "inducement")
             \/ Yes(a, "series_of_provocative_purchases"))

Criterion06(a) ==
    Violated(\/ Yes(a, "disguises_search")
             \/ /\ Word(a, "premises_type") = Residential
                /\ ~Yes(a, "residents_consent")
                /\ ~Yes(a, "has_court_order"))

Criterion07(a) == Violated(Count(a, "extensions_count") > 0 /\ ~Yes(a, "has_new_materials"))

Criterion08(a) == Violated(~Yes(a, "criminal_case_opened") /\ Count(a, "storage_months") > 6)

\* Variant: the investigative actions are asked for first.
Criterion09ActionsFirst(a) ==
    IF Yes(a, "investigative_actions_done") THEN Attention
    ELSE Violated(~Yes(a, "has_legalization"))

Criterion09(a) ==
    IF Yes(a, "has_legalization") THEN Passed
    ELSE IF Yes(a, "investigative_actions_done") THEN Attention
    ELSE Violation

Criterion10(a) == Remarked(~Yes(a, "has_court_order_copy"))

Criterion11(a) == Remarked(Yes(a, "person_informed"))

Criterion12(a) ==
    Remarked(/\ Yes(a, "guilt_not_established")
             /\ Yes(a, "orm_conducted")
             /\ Yes(a, "rights_violated"))

Criterion13(a) ==
    Violated(/\ Yes(a, "rights_restricted")
             /\ Word(a, "orm_type") \notin ExemptOrmTypes
             /\ ~Yes(a, "defense_attorney_provided"))

Criterion14(a) == Violated(Word(a, "detention_basis") # None /\ ~Yes(a, "has_protocol"))

-----------------------------------------------------------------------------
(* registry.py: all criteria of a case.                                    *)

Numbers == 1 .. 14

Verdict(c, a) ==
    CASE c = 1  -> Criterion01(a)
      [] c = 2  -> Criterion02(a)
      [] c = 3  -> Criterion03(a)
      [] c = 4  -> Criterion04(a)
      [] c = 5  -> Criterion05(a)
      [] c = 6  -> Criterion06(a)
      [] c = 7  -> Criterion07(a)
      [] c = 8  -> Criterion08(a)
      [] c = 9  -> Criterion09(a)
      [] c = 10 -> Criterion10(a)
      [] c = 11 -> Criterion11(a)
      [] c = 12 -> Criterion12(a)
      [] c = 13 -> Criterion13(a)
      [] c = 14 -> Criterion14(a)

Unanswered == [f \in {} |-> Null]

\* answers.get("criterion_n") or {}
AnswersTo(c, answers) == IF c \in DOMAIN answers THEN answers[c] ELSE Unanswered

PriorityByRole ==
    [lawyer       |-> {2, 5, 6, 9, 10, 13},
     investigator |-> {2, 4, 5, 6, 7},
     officer      |-> {1, 2, 3, 5, 6, 7, 8},
     admin        |-> {}]

Evaluate(role, answers) ==
    [c \in Numbers |-> [status   |-> Verdict(c, AnswersTo(c, answers)),
                        priority |-> c \in PriorityByRole[role]]]

\* From the best verdict to the worst.
Severity(verdict) == CASE verdict = Passed -> 0
                       [] verdict = Attention -> 1
                       [] verdict = Violation -> 2
=============================================================================
