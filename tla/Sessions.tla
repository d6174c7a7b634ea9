------------------------------ MODULE Sessions ------------------------------
(***************************************************************************)
(* The sessions of app/auth: keys of Redis with a sliding and a hard limit,*)
(* used by the concurrent requests of browsers that keep their identifier  *)
(* in a cookie.                                                            *)
(*                                                                         *)
(* A member of Txns is a slot in which one request runs after the other.   *)
(* Each call to Redis or to the database is an action; a request's first   *)
(* call is joined to its arrival.  The entry an event adds to the journal  *)
(* stays in out until get_db commits, which is after the answer.           *)
(*                                                                         *)
(* Time is counted in ticks and kept as what is left of it.  The CSRF      *)
(* check keeps no state and is left out, as are broken payloads, which     *)
(* nothing in the code writes.                                             *)
(***************************************************************************)
EXTENDS Integers

CONSTANTS
    Browsers,   \* clients, each with its cookie jar
    Lenient,    \* those that send a cookie after its Max-Age: not browsers
    Users,      \* registered users
    Sids,       \* the tokens generate_token may give; bounds the sessions
    Txns,       \* slots for requests
    TTL,        \* session_ttl_seconds, in ticks
    Hard,       \* session_hard_expire_seconds, in ticks
    Faults,     \* the faults a run admits
    None        \* the absent value

\* What Redis keeps under session:{s}: the user, what is left until
\* hard_expire_at (-1 once it is over) and until the key expires.
Keys == [user : Users, left : -1 .. Hard, ttl : 1 .. TTL]

\* sid and user are None until known.  void tells whether the request came in
\* vain: its session had outlived the hard limit or its user was deactivated
\* before it arrived.
Requests == [kind : {"login", "use", "logout"}, browser : Browsers,
             sid : Sids \cup {None}, user : Users \cup {None}, void : BOOLEAN]

Entries == [event : {"UserLoggedIn", "UserLoggedOut", "LoginFailed"},
            sid : Sids \cup {None}]

\* "redelete" is the DEL of destroy_session when its GET found no payload.
Running == {"create", "drop", "load_user", "refresh", "reread", "delete",
            "redelete", "record", "raise", "commit"}

ASSUME SessionsAssumption ==
    /\ TTL \in Nat \ {0}
    /\ Hard \in Nat
    /\ Lenient \subseteq Browsers
    /\ Faults \subseteq {"audit", "crash", "loss"}
    /\ None \notin Sids \cup Users \cup Keys \cup Requests \cup Entries \cup Int

VARIABLES
    store,    \* store[s]: what Redis keeps of the session s, or None
    age,      \* age[s]: time since s was created, None before; stops after Hard
    active,   \* users.is_active
    trail,    \* the committed audit_log_entries
    jar,      \* jar[b]: the sid cookie of browser b and what is left of it
    pc,       \* where the request of each slot stands
    req,      \* the request of each slot, or None
    out       \* the entry its session has flushed, or None

vars == <<store, age, active, trail, jar, pc, req, out>>

TypeOK ==
    /\ store \in [Sids -> Keys \cup {None}]
    /\ age \in [Sids -> 0 .. Hard + 1 \cup {None}]
    /\ active \subseteq Users
    /\ trail \subseteq Entries
    /\ jar \in [Browsers -> [sid : Sids \cup {None}, left : 0 .. TTL]]
    /\ pc \in [Txns -> {"idle"} \cup Running]
    /\ req \in [Txns -> Requests \cup {None}]
    /\ out \in [Txns -> Entries \cup {None}]

NoCookie == [sid |-> None, left |-> 0]

Init ==
    /\ store = [s \in Sids |-> None]
    /\ age = [s \in Sids |-> None]
    /\ active = Users
    /\ trail = {}
    /\ jar = [b \in Browsers |-> NoCookie]
    /\ pc = [t \in Txns |-> "idle"]
    /\ req = [t \in Txns |-> None]
    /\ out = [t \in Txns |-> None]

redis == <<store, age>>
db == <<active, trail>>

-----------------------------------------------------------------------------
(* Helpers.                                                                *)

\* The cookie a client sends: a browser drops one whose Max-Age is over.
Sent(b) == IF jar[b].left > 0 \/ b \in Lenient THEN jar[b].sid ELSE None

Missing(s) == s = None \/ store[s] = None

\* Variant: only the sliding limit counts.
ExpiredNever(s) == FALSE

\* time.time() > hard_expire_at.
Expired(s) == store[s].left < 0

\* get_session_payload returns a payload.
HasPayload(s) == ~Missing(s) /\ ~Expired(s)

Goto(t, where) == pc' = [pc EXCEPT ![t] = where]

Arrives(t, r, where) ==
    /\ pc[t] = "idle"
    /\ req' = [req EXCEPT ![t] = r]
    /\ Goto(t, where)

\* The request ends and its session is closed; what it has flushed and not
\* committed is lost.
End(t) ==
    /\ Goto(t, "idle")
    /\ req' = [req EXCEPT ![t] = None]
    /\ out' = [out EXCEPT ![t] = None]

\* An answer sets the cookie of its browser, or is lost on the way.
SetsCookie(b, cookie) ==
    \/ jar' = [jar EXCEPT ![b] = cookie]
    \/ "loss" \in Faults /\ UNCHANGED jar

\* Max-Age of the cookie is session_ttl_seconds.
SessionCookie(s) == [sid |-> s, left |-> TTL]

\* publish is followed by an exception: a refused login, a deactivated user.
Refusing(r) == r.kind = "use" \/ (r.kind = "login" /\ r.sid = None)

EventOf(r) == IF r.kind # "login" THEN "UserLoggedOut"
              ELSE IF r.sid = None THEN "LoginFailed" ELSE "UserLoggedIn"

-----------------------------------------------------------------------------
(* POST /auth/login.                                                       *)

\* authenticate: the user is read; good tells whether the email is known and
\* the password right.
Login(t, b, u, good) ==
    /\ Arrives(t, [kind |-> "login", browser |-> b, sid |-> None, user |-> u,
                   void |-> FALSE],
               IF good /\ u \in active THEN "create" ELSE "record")
    /\ UNCHANGED <<redis, db, jar, out>>

\* Variant: the key is set without ex.
KeyWithoutExpiry(u) == [user |-> u, left |-> Hard, ttl |-> 0]

\* The payload of create_session and its ex.
NewKey(u) == [user |-> u, left |-> Hard, ttl |-> TTL]

\* create_session: SET of a fresh key.
CreateSession(t) ==
    /\ pc[t] = "create"
    /\ \E s \in Sids :
       /\ age[s] = None
       /\ store' = [store EXCEPT ![s] = NewKey(req[t].user)]
       /\ age' = [age EXCEPT ![s] = 0]
       /\ req' = [req EXCEPT ![t].sid = s]
    /\ Goto(t, "record")
    /\ UNCHANGED <<db, jar, out>>

-----------------------------------------------------------------------------
(* Any request that depends on CurrentUser.                                *)

\* The cookie and the GET of its key. Without either the answer is 401.
Use(t, b) ==
    LET s == Sent(b) IN
    /\ ~Missing(s)
    /\ Arrives(t, [kind |-> "use", browser |-> b, sid |-> s,
                   user |-> store[s].user,
                   void |-> age[s] > Hard \/ store[s].user \notin active],
               IF Expired(s) THEN "drop" ELSE "load_user")
    /\ UNCHANGED <<redis, db, jar, out>>

\* The hard limit is over: DEL and 401.
Drop(t) ==
    /\ pc[t] = "drop"
    /\ store' = [store EXCEPT ![req[t].sid] = None]
    /\ End(t)
    /\ UNCHANGED <<age, db, jar>>

\* Variant: is_active is not looked at.
LoadUserUnchecked(t) ==
    /\ pc[t] = "load_user"
    /\ Goto(t, "refresh")
    /\ UNCHANGED <<redis, db, jar, req, out>>

LoadUser(t) ==
    /\ pc[t] = "load_user"
    /\ Goto(t, IF req[t].user \in active THEN "refresh" ELSE "reread")
    /\ UNCHANGED <<redis, db, jar, req, out>>

\* Variant: the payload that was read is set again with a new expiry.
RefreshBySet(t) ==
    /\ pc[t] = "refresh"
    /\ store' = [store EXCEPT ![req[t].sid] =
                   [user |-> req[t].user, left |-> Hard - age[req[t].sid],
                    ttl |-> TTL]]
    /\ Goto(t, "commit")
    /\ UNCHANGED <<age, db, jar, req, out>>

\* EXPIRE, which does nothing to a missing key; the request is let through.
\* What its handler then does is not of this module.
Refresh(t) ==
    /\ pc[t] = "refresh"
    /\ store' = IF Missing(req[t].sid) THEN store
                ELSE [store EXCEPT ![req[t].sid].ttl = TTL]
    /\ Goto(t, "commit")
    /\ UNCHANGED <<age, db, jar, req, out>>

-----------------------------------------------------------------------------
(* destroy_session: for a deactivated user and in POST /auth/logout.       *)

\* The GET of the payload. A first DEL of a key over its hard limit is joined
\* to the one that follows.
DeleteNext(s) == IF HasPayload(s) THEN "delete" ELSE "redelete"

Reread(t) ==
    /\ pc[t] = "reread"
    /\ Goto(t, DeleteNext(req[t].sid))
    /\ UNCHANGED <<redis, db, jar, req, out>>

\* Without a cookie there is nothing to destroy.
Logout(t, b) ==
    /\ Sent(b) # None
    /\ Arrives(t, [kind |-> "logout", browser |-> b, sid |-> Sent(b), user |-> None,
                   void |-> FALSE], DeleteNext(Sent(b)))
    /\ UNCHANGED <<redis, db, jar, out>>

Delete(t) ==
    /\ pc[t] = "delete"
    /\ store' = [store EXCEPT ![req[t].sid] = None]
    /\ Goto(t, "record")
    /\ UNCHANGED <<age, db, jar, req, out>>

\* Nothing is published of a session that was not found.
DeleteAgain(t) ==
    /\ pc[t] = "redelete"
    /\ store' = [store EXCEPT ![req[t].sid] = None]
    /\ IF req[t].kind = "use" THEN Goto(t, "raise") /\ UNCHANGED jar
       ELSE Goto(t, "commit") /\ SetsCookie(req[t].browser, NoCookie)
    /\ UNCHANGED <<age, db, req, out>>

-----------------------------------------------------------------------------
(* The event and the end of a request.                                     *)

\* After publish a request raises or answers, with its session's cookie or none.
AfterPublish(t) ==
    IF Refusing(req[t]) THEN Goto(t, "raise") /\ UNCHANGED jar
    ELSE /\ Goto(t, "commit")
         /\ SetsCookie(req[t].browser, IF req[t].kind = "login"
                                       THEN SessionCookie(req[t].sid) ELSE NoCookie)

\* The audit subscriber flushes its entry in the request's session.
Record(t) ==
    /\ pc[t] = "record"
    /\ out' = [out EXCEPT ![t] = [event |-> EventOf(req[t]), sid |-> req[t].sid]]
    /\ AfterPublish(t)
    /\ UNCHANGED <<redis, db, req>>

\* The flush fails, which the bus hides, and the transaction is rolled back.
\* A login then reads its expired user, which raises; a logout answers.
RecordFails(t) ==
    /\ pc[t] = "record" /\ "audit" \in Faults
    /\ IF EventOf(req[t]) = "UserLoggedIn" THEN Goto(t, "raise") /\ UNCHANGED jar
       ELSE AfterPublish(t)
    /\ UNCHANGED <<redis, db, req, out>>

\* An exception: get_db rolls back, the entry is lost with it.
RollBack(t) ==
    /\ pc[t] = "raise"
    /\ End(t)
    /\ UNCHANGED <<redis, db, jar>>

\* get_db commits, after the answer.
Commit(t) ==
    /\ pc[t] = "commit"
    /\ trail' = trail \cup ({out[t]} \ {None})
    /\ End(t)
    /\ UNCHANGED <<redis, active, jar>>

\* A call fails or the process dies.
Fail(t) ==
    /\ pc[t] # "idle" /\ "crash" \in Faults
    /\ End(t)
    /\ UNCHANGED <<redis, db, jar>>

-----------------------------------------------------------------------------
(* Time and the administrator of the database.                             *)

Sooner(n) == IF n = 0 THEN 0 ELSE n - 1

\* Time passes; a key or a cookie whose time is over is gone.
Tick ==
    /\ store' = [s \in Sids |->
                   IF Missing(s) \/ store[s].ttl = 1 THEN None
                   ELSE [store[s] EXCEPT !.ttl = @ - 1,
                                         !.left = IF @ < 0 THEN @ ELSE @ - 1]]
    /\ age' = [s \in Sids |-> IF age[s] = None \/ age[s] > Hard THEN age[s]
                              ELSE age[s] + 1]
    /\ jar' = [b \in Browsers |-> [jar[b] EXCEPT !.left = Sooner(@)]]
    /\ UNCHANGED <<db, pc, req, out>>

\* No endpoint does it: is_active is cleared in the database.
Deactivate(u) ==
    /\ u \in active
    /\ active' = active \ {u}
    /\ UNCHANGED <<redis, trail, jar, pc, req, out>>

Arrive(t) == \E b \in Browsers :
    \/ \E u \in Users, good \in BOOLEAN : Login(t, b, u, good)
    \/ Use(t, b) \/ Logout(t, b)

Step(t) == \/ CreateSession(t) \/ Drop(t) \/ LoadUser(t) \/ Refresh(t)
           \/ Reread(t) \/ Delete(t) \/ DeleteAgain(t)
           \/ Record(t) \/ RecordFails(t) \/ RollBack(t) \/ Commit(t) \/ Fail(t)

Next == \/ Tick
        \/ \E u \in Users : Deactivate(u)
        \/ \E t \in Txns : Arrive(t) \/ Step(t)

Spec == Init /\ [][Next]_vars

\* Time passes; nothing is assumed of requests.
FairSpec == Spec /\ WF_vars(Tick)

-----------------------------------------------------------------------------
(* Properties.                                                             *)

\* A session that has ended, by logout, expiry or deactivation, never comes
\* back, although requests that have read it go on to extend it.
SessionsEndForGood ==
    [][\A s \in Sids : age[s] # None /\ store[s] = None => store'[s] = None]_vars

\* A request is let through only if, when it arrived, its session was within
\* its hard limit and its user active.
VoidNeverServed ==
    \A t \in Txns : pc[t] = "commit" /\ req[t].kind = "use" => ~req[t].void

\* When the journal says that a session was logged out, it cannot be used.
RecordedLogoutEnded ==
    \A s \in Sids : [event |-> "UserLoggedOut", sid |-> s] \in trail => store[s] = None

\* However busily it is used, every session ends.
EverySessionEnds == \A s \in Sids : store[s] # None ~> store[s] = None

-----------------------------------------------------------------------------
(* What the documentation says, and the code does not keep.                *)

\* The sliding limit is that of the cookie too: a browser loses the cookie of
\* its session only when the session is over.
CookieFollowsSession ==
    \A b \in Browsers : jar[b].sid # None /\ jar[b].left = 0 => store[jar[b].sid] = None

\* A login that is refused leaves its entry in the journal. For a run without
\* faults.
LoginFailuresRecorded ==
    [][\A t \in Txns : /\ pc[t] = "raise" /\ req[t].kind = "login"
                       /\ pc'[t] = "idle"
                       => [event |-> "LoginFailed", sid |-> None] \in trail']_vars

-----------------------------------------------------------------------------
(* The inductive invariant behind the safety properties.                   *)

\* What Redis keeps agrees with the age of the session; a token not given yet
\* has no key.
KeyAged(s) == store[s] # None => age[s] # None /\ store[s].left = Hard - age[s]

\* An ended session.
Ended(s) == s # None /\ age[s] # None /\ store[s] = None

\* By where a request stands: its kind and what it knows of its session.
RequestShape(t) ==
    /\ pc[t] # "idle" => req[t] # None
    /\ pc[t] = "create" => req[t].kind = "login" /\ req[t].user # None
    /\ pc[t] \in {"drop", "load_user", "refresh", "reread"} =>
         req[t].kind = "use" /\ req[t].sid # None
    /\ pc[t] \in {"delete", "redelete"} =>
         req[t].kind # "login" /\ req[t].sid # None
    /\ pc[t] = "delete" => age[req[t].sid] # None
    /\ out[t] # None => /\ pc[t] \in {"raise", "commit"}
                        /\ out[t].sid = req[t].sid

\* A session is reported as logged out only when it has ended.
ReportsTrue(t) ==
    \/ pc[t] = "record" /\ req[t].kind # "login"
    \/ out[t] # None /\ out[t].event = "UserLoggedOut"
    => Ended(req[t].sid)

\* A request that comes in vain gets no further than its user.
StoppedInTime(t) ==
    pc[t] # "idle" /\ req[t].kind = "use" /\ req[t].void =>
        /\ pc[t] \notin {"refresh", "commit"}
        /\ pc[t] = "load_user" => req[t].user \notin active

JournalTrue ==
    \A s \in Sids : [event |-> "UserLoggedOut", sid |-> s] \in trail => Ended(s)

SessionInv ==
    /\ TypeOK
    /\ \A s \in Sids : KeyAged(s)
    /\ \A t \in Txns : RequestShape(t) /\ ReportsTrue(t) /\ StoppedInTime(t)
    /\ JournalTrue
=============================================================================
