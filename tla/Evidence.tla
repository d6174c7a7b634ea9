------------------------------ MODULE Evidence ------------------------------
(***************************************************************************)
(* What answers tell for and against a measure, without the readers and    *)
(* the rules of Criteria, which are judged by it.                          *)
(***************************************************************************)
EXTENDS Criteria

\* The fields a criterion reads, by what they tell: a fact in favour of the
\* measure, a fact or a number against it, a text.
For == << {"has_crime_signs", "has_instruction"},
          {"has_court_order"},
          {"has_residents_consent", "has_court_order"},
          {},
          {},
          {"residents_consent", "has_court_order"},
          {"has_new_materials"},
          {"criminal_case_opened"},
          {"has_legalization", "investigative_actions_done"},
          {"has_court_order_copy"},
          {},
          {},
          {"defense_attorney_provided"},
          {"has_protocol"} >>

Against == << {},
              {"limits_constitutional_rights", "used_48h_norm"},
              {"uses_covert_sts"},
              {"participant_consent"},
              {"coercion", "inducement", "series_of_provocative_purchases"},
              {"disguises_search"},
              {},
              {},
              {},
              {},
              {"person_informed"},
              {"guilt_not_established", "orm_conducted", "rights_violated"},
              {"rights_restricted"},
              {} >>

Counts == [c \in Numbers |-> CASE c = 7 -> {"extensions_count"}
                               [] c = 8 -> {"storage_months"}
                               [] OTHER -> {}]

Texts == [c \in Numbers |-> CASE c \in {3, 6} -> {"premises_type"}
                              [] c = 13 -> {"orm_type"}
                              [] c = 14 -> {"detention_basis"}
                              [] OTHER -> {}]

Fields(c) == For[c] \cup Against[c] \cup Counts[c] \cup Texts[c]

\* What c reads of the answers g has come as JSON.
AreJson(c, g) == \A f \in Fields(c) : Get(g, f) \in Json

-----------------------------------------------------------------------------
(* What an answer says, told without the readers of base.py.  The number a  *)
(* value states is its num; nothing is said here of a number given to a     *)
(* question that asks yes or no, but for 0 and 1.                           *)

SaysYes(v) == \/ v.form \in {"bool", "int"} /\ v.num = 1
              \/ v.form = "text" /\ v.word \in {"true", "yes", "da"}
              \/ v.form = "text" /\ v.word = "numeral" /\ v.num = 1

SaysNo(v) == \/ v.form = "null"
             \/ v.form \in {"bool", "int", "float"} /\ v.num = 0
             \/ v.form = "text" /\ v.word \in {"false", "no", "net", "blank"}
             \/ v.form = "text" /\ v.word = "numeral" /\ v.num = 0

\* A number without a point or a unit, or none.
Plain(v) == v.form # "float" /\ ~(v.form = "text" /\ v.word = "amount")

Unsaid(v) == v.form = "null" \/ (v.form = "text" /\ v.word = "blank")

Says(v, words) == v.form = "text" /\ v.word \in words

-----------------------------------------------------------------------------
(* Better answers, and answers over a limit.                               *)

\* As an answer to field f of c, w speaks at least as much for the measure as
\* v.  Of numbers only plain ones are compared; OverLimit asks of the others too.
AtLeastAsGood(c, f, v, w) ==
    /\ f \in For[c] => v = w \/ SaysNo(v) \/ SaysYes(w)
    /\ f \in Against[c] => v = w \/ SaysYes(v) \/ SaysNo(w)
    /\ f \in Counts[c] => v = w \/ (Plain(v) /\ Plain(w) /\ w.num <= v.num)
    /\ f = "premises_type" =>
           (Says(w, {Residential}) => Says(v, {Residential}))
    /\ f = "orm_type" => (Says(v, ExemptOrmTypes) => Says(w, ExemptOrmTypes))
    /\ f = "detention_basis" => (Unsaid(v) => Unsaid(w))

\* No answer to c is worse for the measure in h than in g.
NotWorse(c, g, h) == \A f \in Fields(c) : AtLeastAsGood(c, f, Get(g, f), Get(h, f))

\* What criterion_07.py and criterion_08.py call a violation: an extension
\* without new materials, recordings kept for more than six months without a
\* case.
OverLimit(c, g) ==
    CASE c = 7 -> Get(g, "extensions_count").num > 0 /\ SaysNo(Get(g, "has_new_materials"))
      [] c = 8 -> Get(g, "storage_months").num > 6 /\ SaysNo(Get(g, "criminal_case_opened"))
=============================================================================
