---------------------------- MODULE MCDocuments ----------------------------
(* TLC instances of Documents. *)
EXTENDS Documents

\* A lawyer and an administrator.
RoleOf == [u \in Users |-> IF u = "ann" THEN "lawyer" ELSE "admin"]

\* One check of the lawyer, and an identifier no check has.
Owners == [c \in Checks |-> IF c = "check" THEN "ann" ELSE None]
=============================================================================
