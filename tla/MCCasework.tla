---------------------------- MODULE MCCasework ----------------------------
(* TLC instance of Casework: two cases and what is written by hand. *)
EXTENDS Casework

CONSTANTS k1, d1

AllWords == {"none", "converted", Residential} \cup ExemptOrmTypes

Yeses(names) == [f \in names |-> Flag(TRUE)]

\* A case with nothing answered and one with a single remark.
Bare == [role |-> "lawyer", answers |-> [c \in {} |-> Unanswered]]
Clean == [role |-> "officer", answers |->
    [c \in {1, 9, 10, 12} |->
        CASE c = 1  -> Yeses({"has_crime_signs", "has_instruction"})
          [] c = 9  -> Yeses({"has_legalization"})
          [] c = 10 -> Yeses({"has_court_order_copy"})
          [] OTHER  -> Yeses({"guilt_not_established", "orm_conducted",
                              "rights_violated"})]]
BothCases == {Bare, Clean}

AnyTitles == {"new", ""}

LooksLikeMarkup == Phrase("a < b")

\* A content of every form, with an empty value, a zero and some markup.
ByHand ==
    {[remark |-> Prose({LooksLikeMarkup, Blank}),
      list   |-> List({[number |-> {Number(0)}, comment |-> {Blank}],
                       [references |-> {LooksLikeMarkup, Code("upk")}, status |-> {}]}),
      object |-> Object([inner |-> Prose({Phrase("inner text")}),
                         items |-> List({[number |-> {Number(0)}]})])]}

Markup == {LooksLikeMarkup}
=============================================================================
