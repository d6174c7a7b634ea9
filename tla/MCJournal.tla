----------------------------- MODULE MCJournal -----------------------------
(* TLC instance of Journal: what the requests of a run ask for. *)
EXTENDS Journal

CONSTANTS q1, q2, q3, q4

LowerOf == [s \in Spellings |-> "a@x"]

Ask(kind, by, of) == [kind |-> kind, by |-> by, of |-> of, email |-> None,
                      role |-> None, over |-> None, sort |-> None]
Account(kind, email, role) ==
    [Ask(kind, None, None) EXCEPT !.email = email, !.role = role]
List(by, over, of, sort) ==
    [Ask("list", by, of) EXCEPT !.over = over, !.sort = sort]

Four(a, b, c, d) ==
    [q \in Requests |-> CASE q = q1 -> a [] q = q2 -> b [] q = q3 -> c [] OTHER -> d]

Check == Ask("create_check", "ann", None)
Purge == Ask("purge", None, None)
Event == Ask("event", "bob", None)

\* One email, typed in two ways, asked for by three requests.
Registrations ==
    {Four(Account("register", "a@x", "lawyer"), Account("register", "A@x", role),
          Account("create_admin", "A@x", None), Purge) : role \in {"lawyer", "admin"}}

\* A check, its documents, an event of one, and the report while they happen.
Reports ==
    {Four(Check, Ask("generate", "ann", q1), third, Ask("report", by, q1)) :
         third \in {Ask("event", "root", q2), Purge, Ask("generate", "root", q1)},
         by \in {"ann", "bob"}}

\* Lists read while rows are inserted and purged.
Walks ==
    {Four(Check, Ask("create_check", by, None), Check, List("ann", "checks", None, sort)) :
         by \in {"ann", "bob"}, sort \in {Newest, Oldest}}
    \cup {Four(Event, third, Purge, List(by, "logs", of, sort)) :
         third \in {Event, Check}, by \in {"root", "bob"}, of \in {None, "bob"},
         sort \in {Newest, Oldest}}
    \cup {Four(Check, Ask("generate", "ann", q1), Ask("generate", "root", q1),
               List(by, over, q1, Newest)) :
         by \in {"root", "bob"}, over \in {"documents", "history"}}

All == Registrations \cup Reports \cup Walks
=============================================================================
