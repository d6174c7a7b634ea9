----------------------------- MODULE RateLimit -----------------------------
(***************************************************************************)
(* The fixed-window limiter of login and registration                      *)
(* (app/core/rate_limit.py): one Redis counter of one address and scope,   *)
(* shared by concurrent requests and by all instances of the application.  *)
(* Counters of different keys share nothing.                               *)
(*                                                                         *)
(* INCR and EXPIRE are two calls to Redis.  What a request does with the   *)
(* reply of INCR touches nothing shared, so it is decided in Incr.         *)
(* Time is counted in ticks; a key with ttl n lives for n more of them.    *)
(***************************************************************************)
EXTENDS Naturals

CONSTANTS
    Txns,       \* requests under way at one time
    Limit,      \* limit: the requests let through in a window
    Window,     \* window_seconds, in ticks
    MaxCount,   \* bound on the counter
    Faults      \* whether a request may fail between its two calls

ASSUME RateLimitAssumption ==
    /\ Limit \in Nat \ {0}
    /\ Window \in Nat \ {0}
    /\ MaxCount \in Nat /\ Limit < MaxCount
    /\ Faults \in BOOLEAN

VARIABLES
    count,      \* the counter, 0 when the key does not exist
    ttl,        \* what is left of its life, 0 when it has no expiry
    pc,         \* where each request stands
    passed,     \* passed[a]: the requests let through a ticks ago
    lost        \* whether the EXPIRE of the key has failed

vars == <<count, ttl, pc, passed, lost>>

Ages == 0 .. Window - 1

TypeOK ==
    /\ count \in 0 .. MaxCount
    /\ ttl \in 0 .. Window
    /\ pc \in [Txns -> {"idle", "expire"}]
    /\ passed \in [Ages -> Nat]
    /\ lost \in BOOLEAN

Init ==
    /\ count = 0
    /\ ttl = 0
    /\ pc = [t \in Txns |-> "idle"]
    /\ passed = [a \in Ages |-> 0]
    /\ lost = FALSE

-----------------------------------------------------------------------------
\* Variant: one more than the limit passes.
LetsThroughOneMore(n) == n <= Limit + 1

\* count > limit is refused.
LetsThrough(n) == n <= Limit

\* Variant: every request starts the window anew.
StartsWindowAlways(n) == TRUE

\* count == 1: the request that has created the key gives it its expiry.
StartsWindow(n) == n = 1

Incr(t) ==
    /\ pc[t] = "idle"
    /\ count < MaxCount                   \* bound on the counter
    /\ count' = count + 1
    /\ passed' = IF LetsThrough(count') THEN [passed EXCEPT ![0] = @ + 1] ELSE passed
    /\ pc' = IF StartsWindow(count') THEN [pc EXCEPT ![t] = "expire"] ELSE pc
    /\ UNCHANGED <<ttl, lost>>

\* Variant: the counter is looked at again before the expiry is set.
ExpireIfAlone(t) ==
    /\ pc[t] = "expire"
    /\ ttl' = IF count = 1 THEN Window ELSE ttl
    /\ pc' = [pc EXCEPT ![t] = "idle"]
    /\ UNCHANGED <<count, passed, lost>>

\* EXPIRE does nothing to a key that does not exist.
Expire(t) ==
    /\ pc[t] = "expire"
    /\ ttl' = IF count > 0 THEN Window ELSE ttl
    /\ pc' = [pc EXCEPT ![t] = "idle"]
    /\ UNCHANGED <<count, passed, lost>>

\* The connection to Redis drops, the client goes away or the process dies
\* before the EXPIRE.
Fail(t) ==
    /\ pc[t] = "expire" /\ Faults
    /\ pc' = [pc EXCEPT ![t] = "idle"]
    /\ lost' = TRUE
    /\ UNCHANGED <<count, ttl, passed>>

\* Time passes; a key whose time is over is gone.
Tick ==
    /\ ttl' = IF ttl = 0 THEN 0 ELSE ttl - 1
    /\ count' = IF ttl = 1 THEN 0 ELSE count
    /\ passed' = [a \in Ages |-> IF a = 0 THEN 0 ELSE passed[a - 1]]
    /\ UNCHANGED <<pc, lost>>

Next == Tick \/ \E t \in Txns : Incr(t) \/ Expire(t) \/ Fail(t)

Spec == Init /\ [][Next]_vars

\* Time passes, and a request that runs on reaches its second call.
FairSpec == Spec /\ WF_vars(Tick) /\ \A t \in Txns : WF_vars(Expire(t))

-----------------------------------------------------------------------------
(* Properties.                                                             *)

\* The requests let through in the last n ticks.
PassedWithin[n \in 0 .. Window] ==
    IF n = 0 THEN 0 ELSE PassedWithin[n - 1] + passed[n - 1]

\* Two windows meet in the middle of an interval of the length of one, but
\* never three: in any such interval at most twice the limit passes, however
\* late the EXPIRE of a window comes.
AtMostTwiceTheLimit == PassedWithin[Window] <= 2 * Limit

\* The window is fixed: once it runs no request makes it longer.
WindowNotExtended == [][ttl > 0 => ttl' < ttl \/ ttl' = ttl]_vars

\* Unless the one request that starts a window fails, the window ends: whoever
\* is refused waits for a window and no longer.
WindowEnds == count > 0 ~> count = 0 \/ lost

-----------------------------------------------------------------------------
(* The inductive invariant behind AtMostTwiceTheLimit and WindowNotExtended. *)

\* Whoever is about to call EXPIRE has created the key, which has no expiry
\* yet, and is alone in this; a key without expiry has such a request or has
\* lost it.
OneStartsTheWindow ==
    /\ \A t \in Txns : pc[t] = "expire" => count > 0 /\ ttl = 0
    /\ \A t, u \in Txns : pc[t] = "expire" /\ pc[u] = "expire" => t = u
    /\ ttl > 0 => count > 0
    /\ count > 0 /\ ttl = 0 => lost \/ \E t \in Txns : pc[t] = "expire"

\* Within the last Window ticks there are two windows at most: the one that runs
\* has begun s ticks ago, and what lies before it has passed in the window before.
\* A window with an expiry is at least as old as the part of it that is over.
TwoWindows ==
    \E s \in 1 .. Window :
        /\ PassedWithin[s] <= count /\ PassedWithin[s] <= Limit
        /\ PassedWithin[Window] <= PassedWithin[s] + Limit
        /\ ttl > 0 => Window - ttl < s

RateInv == TypeOK /\ OneStartsTheWindow /\ TwoWindows
=============================================================================
