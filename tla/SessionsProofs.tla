--------------------------- MODULE SessionsProofs ---------------------------
(* What TLAPS proves of Sessions, for any number of browsers, users,       *)
(* sessions and requests and any length of the two limits.                 *)
EXTENDS Sessions, TLAPS

\* The part of SessionInv that speaks of one request.
RequestInv(t) == RequestShape(t) /\ ReportsTrue(t) /\ StoppedInTime(t)

-----------------------------------------------------------------------------
(* Types.                                                                  *)

\* A new key and the two cookies have their types.
LEMMA NewValues ==
    /\ \A u \in Users : NewKey(u) \in Keys
    /\ NoCookie \in [sid : Sids \cup {None}, left : 0 .. TTL]
    /\ \A s \in Sids : SessionCookie(s) \in [sid : Sids \cup {None}, left : 0 .. TTL]
    BY SessionsAssumption DEF NewKey, Keys, NoCookie, SessionCookie

\* What a browser sends is None or a token.
LEMMA SentType == ASSUME TypeOK, NEW b \in Browsers PROVE Sent(b) \in Sids \cup {None}
    BY DEF TypeOK, Sent

\* The arrival of a well-formed request keeps the types of the requests.
LEMMA ArrivesType ==
    ASSUME TypeOK, NEW t \in Txns, NEW r \in Requests,
           NEW w \in {"idle"} \cup Running, Arrives(t, r, w)
    PROVE  /\ pc' \in [Txns -> {"idle"} \cup Running]
           /\ req' \in [Txns -> Requests \cup {None}]
    BY DEF TypeOK, Arrives, Goto

\* The end of a request keeps the types of the requests.
LEMMA EndType ==
    ASSUME TypeOK, NEW t \in Txns, End(t)
    PROVE  /\ pc' \in [Txns -> {"idle"} \cup Running]
           /\ req' \in [Txns -> Requests \cup {None}]
           /\ out' \in [Txns -> Entries \cup {None}]
    BY DEF TypeOK, End, Goto

\* An answer keeps the types of the cookies.
LEMMA CookieType ==
    ASSUME TypeOK, NEW b \in Browsers,
           NEW c \in [sid : Sids \cup {None}, left : 0 .. TTL], SetsCookie(b, c)
    PROVE  jar' \in [Browsers -> [sid : Sids \cup {None}, left : 0 .. TTL]]
    BY DEF TypeOK, SetsCookie

\* The initial state has its types.
LEMMA InitType == Init => TypeOK
<1> SUFFICES ASSUME Init PROVE TypeOK
    OBVIOUS
<1>1. jar \in [Browsers -> [sid : Sids \cup {None}, left : 0 .. TTL]]
    BY NewValues DEF Init
<1> QED
    BY <1>1 DEF Init, TypeOK

\* Every step keeps the types. That a running request is known is RequestShape.
LEMMA TypeStep ==
    ASSUME TypeOK, \A t \in Txns : RequestShape(t), [Next]_vars
    PROVE  TypeOK'
<1>1. CASE UNCHANGED vars
    BY <1>1 DEF vars, TypeOK
<1>2. CASE Tick
  <2>1. store' \in [Sids -> Keys \cup {None}]
    <3>1. ASSUME NEW s \in Sids, ~Missing(s), store[s].ttl # 1
          PROVE  [store[s] EXCEPT !.ttl = @ - 1, !.left = IF @ < 0 THEN @ ELSE @ - 1]
                 \in Keys
      <4>1. store[s] \in [user : Users, left : -1 .. Hard, ttl : 1 .. TTL]
          BY <3>1 DEF TypeOK, Missing, Keys
      <4>2. store[s].ttl - 1 \in 1 .. TTL
          BY <3>1, <4>1, SessionsAssumption
      <4>3. (IF store[s].left < 0 THEN store[s].left ELSE store[s].left - 1) \in -1 .. Hard
          BY <4>1, SessionsAssumption
      <4> QED
          BY <4>1, <4>2, <4>3 DEF Keys
    <3> QED
        BY <1>2, <3>1 DEF Tick
  <2>2. age' \in [Sids -> 0 .. Hard + 1 \cup {None}]
    <3>1. ASSUME NEW s \in Sids, age[s] # None, ~(age[s] > Hard)
          PROVE  age[s] + 1 \in 0 .. Hard + 1
        BY <3>1, SessionsAssumption DEF TypeOK
    <3> QED
        BY <1>2, <3>1 DEF Tick, TypeOK
  <2>3. jar' \in [Browsers -> [sid : Sids \cup {None}, left : 0 .. TTL]]
    <3>1. \A n \in 0 .. TTL : Sooner(n) \in 0 .. TTL
        BY SessionsAssumption DEF Sooner
    <3> QED
        BY <1>2, <3>1 DEF Tick, TypeOK
  <2> QED
      BY <1>2, <2>1, <2>2, <2>3 DEF Tick, TypeOK, db
<1>3. ASSUME NEW u \in Users, Deactivate(u) PROVE TypeOK'
    BY <1>3 DEF Deactivate, TypeOK, redis
<1>4. ASSUME NEW t \in Txns, Arrive(t) PROVE TypeOK'
  <2> PICK b \in Browsers : \/ \E u \in Users, good \in BOOLEAN : Login(t, b, u, good)
                            \/ Use(t, b) \/ Logout(t, b)
      BY <1>4 DEF Arrive
  <2>1. ASSUME NEW u \in Users, NEW good \in BOOLEAN, Login(t, b, u, good)
        PROVE  TypeOK'
    <3>1. PICK w \in Running :
            Arrives(t, [kind |-> "login", browser |-> b, sid |-> None, user |-> u,
                        void |-> FALSE], w)
        BY <2>1 DEF Login, Running
    <3> QED
        BY <2>1, <3>1, ArrivesType DEF Login, TypeOK, Requests, redis, db
  <2>2. CASE Use(t, b)
    <3> DEFINE r == [kind |-> "use", browser |-> b, sid |-> Sent(b),
                     user |-> store[Sent(b)].user,
                     void |-> age[Sent(b)] > Hard
                              \/ store[Sent(b)].user \notin active]
    <3>1. Sent(b) \in Sids /\ store[Sent(b)] \in Keys
        BY <2>2, SentType DEF Use, Missing, TypeOK
    <3>2. r \in Requests
        BY <3>1 DEF Requests, Keys
    <3>3. PICK w \in Running : Arrives(t, r, w)
        BY <2>2 DEF Use, Running
    <3> QED
        BY <2>2, <3>2, <3>3, ArrivesType DEF Use, TypeOK, redis, db
  <2>3. CASE Logout(t, b)
    <3> DEFINE r == [kind |-> "logout", browser |-> b, sid |-> Sent(b),
                     user |-> None, void |-> FALSE]
    <3>1. r \in Requests
        BY SentType DEF Requests
    <3>2. PICK w \in Running : Arrives(t, r, w)
        BY <2>3 DEF Logout, DeleteNext, Running
    <3> QED
        BY <2>3, <3>1, <3>2, ArrivesType DEF Logout, TypeOK, redis, db
  <2> QED
      BY <2>1, <2>2, <2>3
<1>5. ASSUME NEW t \in Txns, Step(t) PROVE TypeOK'
  <2> USE <1>5
  <2>0. pc[t] # "idle" => req[t] \in Requests
      BY DEF RequestShape, TypeOK
  <2>1. CASE CreateSession(t)
    <3>1. PICK s \in Sids :
            /\ store' = [store EXCEPT ![s] = NewKey(req[t].user)]
            /\ age' = [age EXCEPT ![s] = 0]
            /\ req' = [req EXCEPT ![t].sid = s]
        BY <2>1 DEF CreateSession
    <3>2. NewKey(req[t].user) \in Keys
      <4>1. req[t].user \in Users
          BY <2>0, <2>1 DEF CreateSession, RequestShape, Requests
      <4> QED
          BY <4>1, NewValues
    <3>3. store' \in [Sids -> Keys \cup {None}]
        BY <3>1, <3>2 DEF TypeOK
    <3>4. age' \in [Sids -> 0 .. Hard + 1 \cup {None}]
        BY <3>1, SessionsAssumption DEF TypeOK
    <3>5. req' \in [Txns -> Requests \cup {None}]
        BY <2>0, <2>1, <3>1 DEF CreateSession, TypeOK, Requests
    <3> QED
        BY <2>1, <3>3, <3>4, <3>5 DEF CreateSession, Goto, TypeOK, Running, db
  <2>2. CASE Drop(t)
      BY <2>2, EndType DEF Drop, TypeOK, db
  <2>3. CASE LoadUser(t)
      BY <2>3 DEF LoadUser, Goto, TypeOK, Running, redis, db
  <2>4. CASE Refresh(t)
    <3>1. ASSUME ~Missing(req[t].sid)
          PROVE  [store EXCEPT ![req[t].sid].ttl = TTL] \in [Sids -> Keys \cup {None}]
      <4>1. req[t].sid \in Sids
          BY <2>0, <2>4, <3>1 DEF Refresh, Requests, Missing
      <4>2. store[req[t].sid] \in Keys
          BY <3>1, <4>1 DEF TypeOK, Missing
      <4>3. [store[req[t].sid] EXCEPT !.ttl = TTL] \in Keys
          BY <4>2, SessionsAssumption DEF Keys
      <4> QED
          BY <4>1, <4>3 DEF TypeOK
    <3> QED
        BY <2>4, <3>1 DEF Refresh, Goto, TypeOK, Running, db
  <2>5. CASE Reread(t)
      BY <2>5 DEF Reread, DeleteNext, Goto, TypeOK, Running, redis, db
  <2>6. CASE Delete(t)
      BY <2>6 DEF Delete, Goto, TypeOK, Running, db
  <2>7. ASSUME pc[t] # "idle",
               \/ UNCHANGED jar
               \/ SetsCookie(req[t].browser, NoCookie)
               \/ req[t].sid # None /\ SetsCookie(req[t].browser, SessionCookie(req[t].sid))
        PROVE  jar' \in [Browsers -> [sid : Sids \cup {None}, left : 0 .. TTL]]
    <3>1. req[t].browser \in Browsers /\ req[t].sid \in Sids \cup {None}
        BY <2>0, <2>7 DEF Requests
    <3> QED
        BY <2>7, <3>1, NewValues, CookieType DEF TypeOK
  <2>8. CASE DeleteAgain(t)
    <3>1. jar' \in [Browsers -> [sid : Sids \cup {None}, left : 0 .. TTL]]
        BY <2>7, <2>8 DEF DeleteAgain
    <3>2. pc' \in [Txns -> {"idle"} \cup Running]
        BY <2>8 DEF DeleteAgain, Goto, TypeOK, Running
    <3> QED
        BY <2>8, <3>1, <3>2 DEF DeleteAgain, TypeOK, db
  <2>9. ASSUME pc[t] # "idle", AfterPublish(t)
        PROVE  /\ jar' \in [Browsers -> [sid : Sids \cup {None}, left : 0 .. TTL]]
               /\ pc' \in [Txns -> {"idle"} \cup Running]
    <3>1. jar' \in [Browsers -> [sid : Sids \cup {None}, left : 0 .. TTL]]
        BY <2>7, <2>9 DEF AfterPublish, Refusing
    <3>2. pc' \in [Txns -> {"idle"} \cup Running]
        BY <2>9 DEF AfterPublish, Goto, TypeOK, Running
    <3> QED
        BY <3>1, <3>2
  <2>10. CASE Record(t)
    <3>1. [event |-> EventOf(req[t]), sid |-> req[t].sid] \in Entries
        BY <2>0, <2>10 DEF Record, EventOf, Entries, Requests
    <3> QED
        BY <2>9, <2>10, <3>1 DEF Record, TypeOK, redis, db
  <2>11. CASE RecordFails(t)
    <3>1. CASE AfterPublish(t)
        BY <2>9, <2>11, <3>1 DEF RecordFails, TypeOK, redis, db
    <3>2. CASE Goto(t, "raise") /\ UNCHANGED jar
        BY <2>11, <3>2 DEF RecordFails, Goto, TypeOK, Running, redis, db
    <3> QED
        BY <2>11, <3>1, <3>2 DEF RecordFails
  <2>12. CASE RollBack(t) \/ Fail(t)
      BY <2>12, EndType DEF RollBack, Fail, TypeOK, redis, db
  <2>13. CASE Commit(t)
    <3>1. trail' \subseteq Entries
        BY <2>13 DEF Commit, TypeOK
    <3> QED
        BY <2>13, <3>1, EndType DEF Commit, TypeOK, redis
  <2> QED
      BY <2>1, <2>2, <2>3, <2>4, <2>5, <2>6, <2>8, <2>10, <2>11, <2>12, <2>13 DEF Step
<1> QED
    BY <1>1, <1>2, <1>3, <1>4, <1>5 DEF Next

-----------------------------------------------------------------------------
(* What any step does to a session.                                        *)

\* What one step may do to a session: nothing brings an ended session back or
\* makes it young again, and its key goes on to agree with its age.
Evolves(s) ==
    /\ KeyAged(s)'
    /\ age[s] # None => age'[s] # None
    /\ age[s] # None /\ store[s] = None => store'[s] = None

\* A step that leaves Redis alone.
LEMMA RedisUnchanged ==
    ASSUME \A s \in Sids : KeyAged(s), UNCHANGED redis
    PROVE  \A s \in Sids : Evolves(s)
    BY DEF Evolves, KeyAged, redis

\* A DEL.
LEMMA DelEvolves ==
    ASSUME TypeOK, \A s \in Sids : KeyAged(s), NEW k,
           store' = [store EXCEPT ![k] = None], UNCHANGED age
    PROVE  \A s \in Sids : Evolves(s)
    BY DEF Evolves, KeyAged, TypeOK

\* Every step.
LEMMA SessionsEvolve ==
    ASSUME TypeOK, \A s \in Sids : KeyAged(s), [Next]_vars
    PROVE  \A s \in Sids : Evolves(s)
<1>1. CASE UNCHANGED vars
    BY <1>1, RedisUnchanged DEF vars, redis
<1>2. CASE Tick
  <2> TAKE s \in Sids
  <2>1. age'[s] # None <=> age[s] # None
    <3>1. age[s] # None => age[s] + 1 \in Int
        BY SessionsAssumption DEF TypeOK
    <3>2. age[s] # None => age[s] + 1 # None
        BY <3>1, SessionsAssumption
    <3> QED
        BY <1>2, <3>2 DEF Tick
  <2>2. age[s] # None /\ store[s] = None => store'[s] = None
      BY <1>2 DEF Tick, Missing
  <2>3. ASSUME store'[s] # None
        PROVE  age'[s] # None /\ store'[s].left = Hard - age'[s]
    <3>1. store[s] # None
        BY <1>2, <2>3 DEF Tick, Missing
    <3>2. /\ store[s] \in [user : Users, left : -1 .. Hard, ttl : 1 .. TTL]
          /\ age[s] \in 0 .. Hard + 1
          /\ store[s].left = Hard - age[s]
        BY <3>1 DEF TypeOK, KeyAged, Keys
    <3>3. store'[s].left = IF store[s].left < 0 THEN store[s].left
                           ELSE store[s].left - 1
        BY <1>2, <2>3, <3>2 DEF Tick
    <3>4. age[s] # None
        BY <3>1 DEF KeyAged
    <3>5. age'[s] = IF age[s] > Hard THEN age[s] ELSE age[s] + 1
        BY <1>2, <3>4 DEF Tick
    <3> QED
        BY <2>1, <3>2, <3>3, <3>4, <3>5, SessionsAssumption
  <2> QED
      BY <2>1, <2>2, <2>3 DEF Evolves, KeyAged
<1>3. ASSUME NEW u \in Users, Deactivate(u) PROVE \A s \in Sids : Evolves(s)
    BY <1>3, RedisUnchanged DEF Deactivate
<1>4. ASSUME NEW t \in Txns, Arrive(t) PROVE \A s \in Sids : Evolves(s)
    BY <1>4, RedisUnchanged DEF Arrive, Login, Use, Logout
<1>5. ASSUME NEW t \in Txns, Step(t) PROVE \A s \in Sids : Evolves(s)
  <2>1. CASE CreateSession(t)
    <3> TAKE s \in Sids
    <3> PICK n \in Sids :
          /\ age[n] = None
          /\ store' = [store EXCEPT ![n] = NewKey(req[t].user)]
          /\ age' = [age EXCEPT ![n] = 0]
        BY <2>1 DEF CreateSession
    <3>1. CASE s = n
        BY <3>1, SessionsAssumption DEF Evolves, KeyAged, NewKey, TypeOK
    <3>2. CASE s # n
        BY <3>2 DEF Evolves, KeyAged, TypeOK
    <3> QED
        BY <3>1, <3>2
  <2>2. CASE Refresh(t)
    <3> TAKE s \in Sids
    <3>1. CASE Missing(req[t].sid)
        BY <2>2, <3>1 DEF Refresh, Evolves, KeyAged
    <3>2. CASE ~Missing(req[t].sid)
      <4>1. store' = [store EXCEPT ![req[t].sid].ttl = TTL] /\ age' = age
          BY <2>2, <3>2 DEF Refresh
      <4>2. CASE s = req[t].sid
        <5>1. store[s] \in Keys
            BY <3>2, <4>2 DEF Missing, TypeOK
        <5> QED
            BY <4>1, <4>2, <5>1, <3>2 DEF Evolves, KeyAged, Keys, TypeOK, Missing
      <4>3. CASE s # req[t].sid
          BY <4>1, <4>3 DEF Evolves, KeyAged, TypeOK
      <4> QED
          BY <4>2, <4>3
    <3> QED
        BY <3>1, <3>2
  <2>3. CASE Drop(t) \/ Delete(t) \/ DeleteAgain(t)
      BY <2>3, DelEvolves DEF Drop, Delete, DeleteAgain
  <2>4. CASE \/ LoadUser(t) \/ Reread(t) \/ Record(t) \/ RecordFails(t)
             \/ RollBack(t) \/ Commit(t) \/ Fail(t)
      BY <2>4, RedisUnchanged
         DEF LoadUser, Reread, Record, RecordFails, RollBack, Commit, Fail
  <2> QED
      BY <1>5, <2>1, <2>2, <2>3, <2>4 DEF Step
<1> QED
    BY <1>1, <1>2, <1>3, <1>4, <1>5 DEF Next

\* An ended session stays ended, whatever else is known.
LEMMA EndedStays ==
    ASSUME NEW s \in Sids \cup {None}, \A x \in Sids : Evolves(x), Ended(s)
    PROVE  Ended(s)'
    BY DEF Ended, Evolves

-----------------------------------------------------------------------------
(* What a step does to the requests that do not take it.                   *)

\* A request that stands still keeps its part of the invariant.
LEMMA OthersKeep ==
    ASSUME TypeOK, NEW t \in Txns, RequestInv(t), \A s \in Sids : Evolves(s),
           pc'[t] = pc[t], req'[t] = req[t], out'[t] = out[t],
           active' \subseteq active
    PROVE  RequestInv(t)'
<1>1. req[t] # None => req[t].sid \in Sids \cup {None}
    BY DEF TypeOK, Requests
<1>2. RequestShape(t)'
  <2>1. pc[t] = "delete" => age'[req[t].sid] # None
      BY <1>1 DEF RequestInv, RequestShape, Evolves
  <2> QED
      BY <2>1 DEF RequestInv, RequestShape
<1>3. ReportsTrue(t)'
  <2>1. ASSUME \/ pc[t] = "record" /\ req[t].kind # "login"
               \/ out[t] # None /\ out[t].event = "UserLoggedOut"
        PROVE  Ended(req[t].sid)'
    <3>1. Ended(req[t].sid) /\ req[t] # None
        BY <2>1 DEF RequestInv, ReportsTrue, RequestShape
    <3>2. Ended(req[t].sid)' <=> (/\ req[t].sid # None /\ age'[req[t].sid] # None
                                  /\ store'[req[t].sid] = None)
        BY DEF Ended
    <3> QED
        BY <1>1, <3>1, <3>2 DEF Ended, Evolves
  <2> QED
      BY <2>1 DEF ReportsTrue, Ended
<1>4. StoppedInTime(t)'
    BY DEF RequestInv, StoppedInTime
<1> QED
    BY <1>2, <1>3, <1>4 DEF RequestInv

-----------------------------------------------------------------------------
(* What a step does to the request that takes it.                          *)

\* A request that has just ended.
LEMMA EndKeeps ==
    ASSUME TypeOK, NEW t \in Txns, End(t)
    PROVE  RequestInv(t)'
<1>1. pc'[t] = "idle" /\ out'[t] = None
    BY DEF TypeOK, End, Goto
<1> QED
    BY <1>1 DEF RequestInv, RequestShape, ReportsTrue, StoppedInTime

\* A request is not the absent value.
LEMMA RequestKnown == \A r \in Requests : r # None
    BY SessionsAssumption

\* A request that has just arrived.
LEMMA ArrivalKeeps ==
    ASSUME TypeOK, \A s \in Sids : KeyAged(s), NEW t \in Txns, RequestInv(t), Arrive(t)
    PROVE  RequestInv(t)'
<1> PICK b \in Browsers : \/ \E u \in Users, good \in BOOLEAN : Login(t, b, u, good)
                          \/ Use(t, b) \/ Logout(t, b)
    BY DEF Arrive
<1>0. pc[t] = "idle" /\ out[t] = None /\ out' = out
    BY DEF Login, Use, Logout, Arrives, RequestInv, RequestShape
<1>1. ASSUME NEW u \in Users, NEW good \in BOOLEAN, Login(t, b, u, good)
      PROVE  RequestInv(t)'
  <2>1. /\ req'[t].kind = "login" /\ req'[t].user = u /\ req'[t] # None
        /\ pc'[t] \in {"create", "record"}
    <3> DEFINE r == [kind |-> "login", browser |-> b, sid |-> None, user |-> u,
                     void |-> FALSE]
    <3>1. r \in Requests
        BY DEF Requests
    <3>2. req'[t] = r /\ pc'[t] \in {"create", "record"}
        BY <1>1 DEF Login, Arrives, Goto, TypeOK
    <3>3. r # None
        BY <3>1, RequestKnown
    <3> QED
        BY <3>2, <3>3
  <2>2. u # None
      BY SessionsAssumption
  <2> QED
      BY <1>0, <2>1, <2>2
         DEF RequestInv, RequestShape, ReportsTrue, StoppedInTime
<1>2. CASE Use(t, b)
  <2> DEFINE s == Sent(b)
             r == [kind |-> "use", browser |-> b, sid |-> s, user |-> store[s].user,
                   void |-> age[s] > Hard \/ store[s].user \notin active]
  <2>1. s \in Sids /\ s # None /\ store[s] # None /\ store[s] \in Keys
      BY <1>2, SentType DEF Use, Missing, TypeOK
  <2>2. r \in Requests
      BY <2>1 DEF Requests, Keys
  <2>3. req'[t] = r /\ pc'[t] = IF Expired(s) THEN "drop" ELSE "load_user"
      BY <1>2 DEF Use, Arrives, Goto, TypeOK
  <2>4. ~Expired(s) => ~(age[s] > Hard)
    <3>1. store[s].left = Hard - age[s] /\ age[s] \in 0 .. Hard + 1
        BY <2>1 DEF KeyAged, TypeOK
    <3> QED
        BY <3>1, SessionsAssumption DEF Expired
  <2>5. RequestShape(t)'
      BY <1>0, <2>1, <2>2, <2>3, RequestKnown DEF RequestShape
  <2>6. ReportsTrue(t)'
      BY <1>0, <2>3 DEF ReportsTrue
  <2>7. StoppedInTime(t)'
    <3>1. active' = active
        BY <1>2 DEF Use, db
    <3>2. ASSUME r.void, ~Expired(s) PROVE store[s].user \notin active
        BY <2>4, <3>2
    <3> QED
        BY <2>3, <3>1, <3>2 DEF StoppedInTime
  <2> QED
      BY <2>5, <2>6, <2>7 DEF RequestInv
<1>3. CASE Logout(t, b)
  <2> DEFINE s == Sent(b)
             r == [kind |-> "logout", browser |-> b, sid |-> s, user |-> None,
                   void |-> FALSE]
  <2>1. s \in Sids /\ s # None
      BY <1>3, SentType DEF Logout
  <2>2. r \in Requests
      BY <2>1 DEF Requests
  <2>3. req'[t] = r /\ pc'[t] = DeleteNext(s)
      BY <1>3 DEF Logout, Arrives, Goto, TypeOK
  <2>4. DeleteNext(s) = "delete" => age[s] # None
      BY <2>1 DEF DeleteNext, HasPayload, Missing, KeyAged
  <2>5. RequestShape(t)'
    <3>1. DeleteNext(s) \in {"delete", "redelete"}
        BY DEF DeleteNext
    <3>2. age' = age
        BY <1>3 DEF Logout, redis
    <3>3. req'[t].kind = "logout" /\ req'[t].sid = s /\ req'[t] # None
      <4>1. r # None
          BY <2>2, RequestKnown
      <4>2. r.kind = "logout" /\ r.sid = s
          OBVIOUS
      <4> QED
          BY <2>3, <4>1, <4>2
    <3>4. pc'[t] \in {"delete", "redelete"}
        BY <2>3, <3>1
    <3>5. pc'[t] = "delete" => age'[req'[t].sid] # None
        BY <2>3, <2>4, <3>2, <3>3
    <3> QED
        BY <1>0, <2>1, <3>3, <3>4, <3>5 DEF RequestShape
  <2>6. ReportsTrue(t)'
      BY <1>0, <2>3 DEF ReportsTrue, DeleteNext
  <2>7. StoppedInTime(t)'
      BY <2>3 DEF StoppedInTime
  <2> QED
      BY <2>5, <2>6, <2>7 DEF RequestInv
<1> QED
    BY <1>1, <1>2, <1>3

\* What AfterPublish makes of a request: a refused one is about to be rolled
\* back, another has been answered and is no request for a CurrentUser.
LEMMA AfterPublishGoes ==
    ASSUME TypeOK, NEW t \in Txns, AfterPublish(t)
    PROVE  /\ pc'[t] \in {"raise", "commit"}
           /\ pc'[t] = "commit" => req[t].kind # "use"
    BY DEF AfterPublish, Refusing, Goto, TypeOK

\* A request that has taken a step.
LEMMA StepKeeps ==
    ASSUME TypeOK, \A s \in Sids : KeyAged(s), NEW t \in Txns, RequestInv(t), Step(t),
           \A s \in Sids : Evolves(s)
    PROVE  RequestInv(t)'
<1>0. pc[t] # "idle" => req[t] \in Requests /\ req[t] # None
    BY DEF RequestInv, RequestShape, TypeOK
<1> USE DEF RequestInv
<1>1. CASE CreateSession(t)
  <2> PICK s \in Sids : req' = [req EXCEPT ![t].sid = s]
      BY <1>1 DEF CreateSession
  <2>1. /\ pc[t] = "create" /\ pc'[t] = "record"
        /\ out' = out
      BY <1>1 DEF CreateSession, Goto, TypeOK
  <2>2. req'[t] \in Requests /\ req'[t] # None /\ req'[t].kind = "login"
    <3>1. req'[t] \in Requests
        BY <1>0, <2>1 DEF Requests, TypeOK
    <3>2. req'[t].kind = "login"
        BY <1>0, <2>1 DEF RequestShape, Requests, TypeOK
    <3> QED
        BY <3>1, <3>2, SessionsAssumption
  <2>3. out'[t] = None
      BY <2>1 DEF RequestShape
  <2> QED
      BY <2>1, <2>2, <2>3 DEF RequestShape, ReportsTrue, StoppedInTime
<1>2. CASE Drop(t) \/ RollBack(t) \/ Commit(t) \/ Fail(t)
    BY <1>2, EndKeeps DEF Drop, RollBack, Commit, Fail
<1>3. CASE LoadUser(t)
  <2>1. /\ pc[t] = "load_user" /\ pc'[t] \in {"refresh", "reread"}
        /\ pc'[t] = "refresh" => req[t].user \in active
        /\ UNCHANGED <<req, age, out>>
      BY <1>3 DEF LoadUser, Goto, TypeOK, redis
  <2>2. out[t] = None
      BY <2>1 DEF RequestShape
  <2> QED
      BY <2>1, <2>2 DEF RequestShape, ReportsTrue, StoppedInTime
<1>4. CASE Refresh(t)
  <2>1. pc[t] = "refresh" /\ pc'[t] = "commit" /\ UNCHANGED <<req, out>>
      BY <1>4 DEF Refresh, Goto, TypeOK
  <2>2. out[t] = None
      BY <2>1 DEF RequestShape
  <2> QED
      BY <2>1, <2>2 DEF RequestShape, ReportsTrue, StoppedInTime
<1>5. CASE Reread(t)
  <2>1. /\ pc[t] = "reread" /\ pc'[t] \in {"delete", "redelete"}
        /\ pc'[t] = "delete" => store[req[t].sid] # None
        /\ UNCHANGED <<req, age, out>>
      BY <1>5 DEF Reread, DeleteNext, HasPayload, Missing, Goto, TypeOK, redis
  <2>2. req[t].kind = "use" /\ req[t].sid # None /\ req[t].sid \in Sids /\ out[t] = None
      BY <1>0, <2>1 DEF RequestShape, Requests
  <2>3. pc'[t] = "delete" => age[req[t].sid] # None
      BY <2>1, <2>2 DEF KeyAged
  <2> QED
      BY <1>0, <2>1, <2>2, <2>3 DEF RequestShape, ReportsTrue, StoppedInTime
<1>6. CASE Delete(t)
  <2>1. /\ pc[t] = "delete" /\ pc'[t] = "record"
        /\ store' = [store EXCEPT ![req[t].sid] = None]
        /\ UNCHANGED <<req, age, out>>
      BY <1>6 DEF Delete, Goto, TypeOK
  <2>2. /\ req[t].sid # None /\ req[t].sid \in Sids /\ age[req[t].sid] # None
        /\ out[t] = None
      BY <1>0, <2>1 DEF RequestShape, Requests
  <2>3. Ended(req[t].sid)'
      BY <2>1, <2>2 DEF Ended, TypeOK
  <2> QED
      BY <1>0, <2>1, <2>2, <2>3 DEF RequestShape, ReportsTrue, StoppedInTime
<1>7. CASE DeleteAgain(t)
  <2>1. /\ pc[t] = "redelete" /\ pc'[t] \in {"raise", "commit"}
        /\ pc'[t] = "commit" => req[t].kind # "use"
        /\ UNCHANGED <<req, out>>
      BY <1>7 DEF DeleteAgain, Goto, TypeOK
  <2>2. out[t] = None
      BY <2>1 DEF RequestShape
  <2> QED
      BY <1>0, <2>1, <2>2 DEF RequestShape, ReportsTrue, StoppedInTime
<1>8. CASE Record(t)
  <2>1. /\ pc[t] = "record" /\ pc'[t] \in {"raise", "commit"}
        /\ pc'[t] = "commit" => req[t].kind # "use"
        /\ req' = req /\ UNCHANGED <<store, age>>
      BY <1>8, AfterPublishGoes DEF Record, redis
  <2>2. out'[t] = [event |-> EventOf(req[t]), sid |-> req[t].sid]
      BY <1>8 DEF Record, TypeOK
  <2>3. out'[t].event = "UserLoggedOut" => Ended(req[t].sid)
      BY <2>1, <2>2 DEF ReportsTrue, EventOf
  <2>4. Ended(req[t].sid) => Ended(req[t].sid)'
      BY <2>1 DEF Ended
  <2> QED
      BY <1>0, <2>1, <2>2, <2>3, <2>4 DEF RequestShape, ReportsTrue, StoppedInTime
<1>9. CASE RecordFails(t)
  <2>1. /\ pc[t] = "record" /\ pc'[t] \in {"raise", "commit"}
        /\ pc'[t] = "commit" => req[t].kind # "use"
        /\ UNCHANGED <<req, out>>
    <3>1. CASE AfterPublish(t)
        BY <1>9, <3>1, AfterPublishGoes DEF RecordFails
    <3>2. CASE Goto(t, "raise")
        BY <1>9, <3>2 DEF RecordFails, Goto, TypeOK
    <3> QED
        BY <1>9, <3>1, <3>2 DEF RecordFails
  <2>2. out[t] = None
      BY <2>1 DEF RequestShape
  <2> QED
      BY <1>0, <2>1, <2>2 DEF RequestShape, ReportsTrue, StoppedInTime
<1> QED
    BY <1>1, <1>2, <1>3, <1>4, <1>5, <1>6, <1>7, <1>8, <1>9 DEF Step

-----------------------------------------------------------------------------
(* The invariant.                                                          *)

\* Only a commit adds to the journal, and what it adds is true.
LEMMA JournalKeeps ==
    ASSUME TypeOK, JournalTrue, \A t \in Txns : RequestInv(t), [Next]_vars,
           \A s \in Sids : Evolves(s)
    PROVE  JournalTrue'
<1>1. ASSUME NEW s \in Sids, [event |-> "UserLoggedOut", sid |-> s] \in trail',
             [event |-> "UserLoggedOut", sid |-> s] \notin trail
      PROVE  Ended(s)
  <2>1. PICK t \in Txns : Commit(t)
      BY <1>1 DEF Next, vars, Tick, Deactivate, Arrive, Login, Use, Logout, Step,
                  CreateSession, Drop, LoadUser, Refresh, Reread, Delete,
                  DeleteAgain, Record, RecordFails, RollBack, Fail, db
  <2>2. out[t] = [event |-> "UserLoggedOut", sid |-> s] /\ out[t] # None
      BY <1>1, <2>1 DEF Commit
  <2> QED
      BY <2>2 DEF RequestInv, RequestShape, ReportsTrue
<1>2. \A s \in Sids : Ended(s) => Ended(s)'
    BY EndedStays
<1> QED
    BY <1>1, <1>2 DEF JournalTrue

\* A step of one request leaves the others alone, and no step makes a user
\* active.
LEMMA Frame ==
    ASSUME TypeOK, [Next]_vars
    PROVE  /\ active' \subseteq active
           /\ \/ UNCHANGED <<pc, req, out>>
              \/ \E t \in Txns : /\ Arrive(t) \/ Step(t)
                                 /\ \A u \in Txns \ {t} : /\ pc'[u] = pc[u]
                                                          /\ req'[u] = req[u]
                                                          /\ out'[u] = out[u]
<1>1. CASE UNCHANGED vars
    BY <1>1 DEF vars
<1>2. CASE Tick
    BY <1>2 DEF Tick, db
<1>3. ASSUME NEW u \in Users, Deactivate(u) PROVE active' \subseteq active /\ UNCHANGED <<pc, req, out>>
    BY <1>3 DEF Deactivate
<1>4. ASSUME NEW t \in Txns, Arrive(t)
      PROVE  /\ active' \subseteq active
             /\ \A u \in Txns \ {t} : /\ pc'[u] = pc[u] /\ req'[u] = req[u]
                                      /\ out'[u] = out[u]
    BY <1>4 DEF Arrive, Login, Use, Logout, Arrives, Goto, TypeOK, db
<1>5. ASSUME NEW t \in Txns, Step(t)
      PROVE  /\ active' \subseteq active
             /\ \A u \in Txns \ {t} : /\ pc'[u] = pc[u] /\ req'[u] = req[u]
                                      /\ out'[u] = out[u]
  <2>1. CASE \/ CreateSession(t) \/ LoadUser(t) \/ Refresh(t) \/ Reread(t)
             \/ Delete(t) \/ DeleteAgain(t)
      BY <2>1 DEF CreateSession, LoadUser, Refresh, Reread, Delete, DeleteAgain,
                  Goto, TypeOK, db
  <2>2. CASE Record(t) \/ RecordFails(t)
      BY <2>2 DEF Record, RecordFails, AfterPublish, Goto, TypeOK, db
  <2>3. CASE Drop(t) \/ RollBack(t) \/ Commit(t) \/ Fail(t)
      BY <2>3 DEF Drop, RollBack, Commit, Fail, End, Goto, TypeOK, db
  <2> QED
      BY <1>5, <2>1, <2>2, <2>3 DEF Step
<1> QED
    BY <1>1, <1>2, <1>3, <1>4, <1>5 DEF Next

\* The invariant holds before the first request.
LEMMA InitInv == Init => SessionInv
<1> SUFFICES ASSUME Init PROVE SessionInv
    OBVIOUS
<1>1. \A s \in Sids : KeyAged(s)
    BY DEF Init, KeyAged
<1>2. \A t \in Txns : RequestShape(t) /\ ReportsTrue(t) /\ StoppedInTime(t)
    BY DEF Init, RequestShape, ReportsTrue, StoppedInTime
<1>3. JournalTrue
    BY DEF Init, JournalTrue
<1> QED
    BY <1>1, <1>2, <1>3, InitType DEF SessionInv

\* Every step preserves it.
LEMMA NextInv == SessionInv /\ [Next]_vars => SessionInv'
<1> SUFFICES ASSUME SessionInv, [Next]_vars PROVE SessionInv'
    OBVIOUS
<1>1. /\ TypeOK /\ JournalTrue
      /\ \A s \in Sids : KeyAged(s)
      /\ \A t \in Txns : RequestShape(t)
      /\ \A t \in Txns : RequestInv(t)
    BY DEF SessionInv, RequestInv
<1>2. TypeOK'
    BY <1>1, TypeStep
<1>3. \A s \in Sids : Evolves(s)
    BY <1>1, SessionsEvolve
<1>4. \A t \in Txns : RequestInv(t)'
  <2> TAKE t \in Txns
  <2>1. CASE Arrive(t)
      BY <1>1, <2>1, ArrivalKeeps
  <2>2. CASE Step(t)
      BY <1>1, <1>3, <2>2, StepKeeps
  <2>3. CASE pc'[t] = pc[t] /\ req'[t] = req[t] /\ out'[t] = out[t]
    <3>1. active' \subseteq active
        BY <1>1, Frame
    <3> QED
        BY <1>1, <1>3, <2>3, <3>1, OthersKeep
  <2> QED
      BY <1>1, <2>1, <2>2, <2>3, Frame
<1>5. JournalTrue'
    BY <1>1, <1>3, JournalKeeps
<1>6. \A s \in Sids : KeyAged(s)'
    BY <1>3 DEF Evolves
<1>7. (\A t \in Txns : RequestShape(t) /\ ReportsTrue(t) /\ StoppedInTime(t))'
    BY <1>4 DEF RequestInv
<1> QED
    BY <1>2, <1>5, <1>6, <1>7 DEF SessionInv

-----------------------------------------------------------------------------
(* The theorems.                                                           *)

\* In every reachable state the keys agree with the age of their sessions, a
\* request in vain is stopped at its user, and what is or will be reported as
\* logged out has ended.
THEOREM SessionsInvariant == Spec => []SessionInv
<1> QED
    BY InitInv, NextInv, PTL DEF Spec

\* A session that has ended never comes back.
THEOREM EndedForGood == Spec => SessionsEndForGood
<1>1. SessionInv /\ [Next]_vars
        => \A s \in Sids : age[s] # None /\ store[s] = None => store'[s] = None
  <2> SUFFICES ASSUME SessionInv, [Next]_vars PROVE \A s \in Sids : Evolves(s)
      BY DEF Evolves
  <2> QED
      BY SessionsEvolve DEF SessionInv
<1> QED
    BY <1>1, SessionsInvariant, PTL DEF Spec, SessionsEndForGood

\* No request is let through that arrived after the hard limit of its session
\* or the deactivation of its user.
THEOREM LimitsHold == Spec => []VoidNeverServed
<1>1. SessionInv => VoidNeverServed
    BY DEF SessionInv, StoppedInTime, VoidNeverServed
<1> QED
    BY <1>1, SessionsInvariant, PTL

\* A session that the journal says was logged out is gone.
THEOREM JournalCorrect == Spec => []RecordedLogoutEnded
<1>1. SessionInv => RecordedLogoutEnded
    BY DEF SessionInv, JournalTrue, Ended, RecordedLogoutEnded
<1> QED
    BY <1>1, SessionsInvariant, PTL
=============================================================================
