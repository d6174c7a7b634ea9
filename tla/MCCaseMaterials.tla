-------------------------- MODULE MCCaseMaterials --------------------------
(* TLC instance of CaseMaterials. *)
EXTENDS CaseMaterials

\* Requests, names and identifiers are interchangeable.
Symmetry == Permutations(Txns) \cup Permutations(Names) \cup Permutations(Ids)

AnyWords == {"none", "converted", "nezhiloe", Residential, "eksperiment",
             "da", "net", "amount"}
            \cup ExemptOrmTypes

Roles == [u \in Users |-> IF u = "admin" THEN "admin" ELSE "lawyer"]

Blank == [kind |-> "other", approved |-> FALSE, orm_type |-> None,
          premises |-> "unnamed", shown |-> "unmarked"]
Resolution(approved, orm_type) ==
    [Blank EXCEPT !.kind = "resolution", !.approved = approved, !.orm_type = orm_type]
Order(premises, shown) ==
    [Blank EXCEPT !.kind = "inspection_order", !.premises = premises, !.shown = shown]
Search == [Blank EXCEPT !.kind = "search_protocol"]

Legible(documents) == [type |-> "pdf", size |-> "fits", text |-> "legible",
                       documents |-> documents]

\* A file for each refusal and each outcome of the extraction; files with
\* one known document, and with several that answer the same question.
SomeFiles ==
    {[Legible(<<>>) EXCEPT !.type = "other"],
     [Legible(<<>>) EXCEPT !.size = "too_large"],
     [Legible(<<>>) EXCEPT !.text = "unreadable"],
     [Legible(<<Search>>) EXCEPT !.text = "sparse"]}
    \cup {Legible(d) : d \in
            {<<Resolution(TRUE, "eksperiment"), Search>>,
             <<Order("residential", "unmarked")>>,
             <<Order("non_residential", "not_acquainted"), Blank,
               Resolution(FALSE, "eksperiment"), Order("unnamed", "unmarked")>>}}

\* The answers of a user who attests what the rules ask for; those of one who
\* says in words that there are no signs of a crime, and has investigated before
\* he legalized.
Attested == [c \in {1, 9} |->
               IF c = 1 THEN [f \in {"has_crime_signs", "has_instruction"} |-> Flag(TRUE)]
               ELSE One("has_legalization", Flag(TRUE))]
Denied == [c \in {1, 9} |->
             IF c = 1 THEN [f \in {"has_crime_signs", "has_instruction"} |->
                              Text(IF f = "has_instruction" THEN "da" ELSE "net")]
             ELSE [f \in {"has_legalization", "investigative_actions_done"} |-> Flag(TRUE)]]
SomePayloads == {Attested, Denied}

\* Seven months of storage, or extensions, as an integer, with a point, and with
\* a unit.
Seven == {[form |-> "int", num |-> 7, word |-> "none"],
          [form |-> "float", num |-> 7, word |-> "none"],
          [form |-> "text", num |-> 7, word |-> "amount"]}
Limits == {[c \in {8} |-> One("storage_months", v)] : v \in Seven}
          \cup {[c \in {7} |-> One("extensions_count", v)] : v \in Seven}
=============================================================================
