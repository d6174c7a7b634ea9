-------------------------- MODULE MCKnowledgeBase --------------------------
(* TLC instances of KnowledgeBase. *)
EXTENDS KnowledgeBase

\* Positions in SEED_DOCUMENTS.
Rank == [c \in Codes |-> IF c = "upk" THEN 2 ELSE 1]

\* What the seed script writes for the fields of a run.
Seeded == [f \in Fields |-> "old"]

\* Every body that changes a field, and the empty one.
NewBodies == UNION {[S -> {"new"}] : S \in SUBSET Fields}
=============================================================================
