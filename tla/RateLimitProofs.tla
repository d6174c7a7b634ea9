-------------------------- MODULE RateLimitProofs --------------------------
(* What TLAPS proves of RateLimit, for any limit, window and number of     *)
(* requests.                                                               *)
EXTENDS RateLimit, FiniteSetTheorems, TLAPS

(* Induction over the ticks of a window, by way of the least number that    *)
(* fails: it is below no other in the ordering of the sets 0 .. n.          *)

LEMMA LeastNatural ==
    ASSUME NEW S \in SUBSET Nat, S # {}
    PROVE  \E m \in S : \A k \in S : m <= k
<1> DEFINE T == {0 .. n : n \in S}
<1>1. T \subseteq FiniteSubsetsOf(Nat)
  <2> SUFFICES ASSUME NEW n \in S PROVE 0 .. n \in FiniteSubsetsOf(Nat)
      OBVIOUS
  <2>1. IsFiniteSet(0 .. n)
      BY FS_Interval
  <2> QED
      BY <2>1 DEF FiniteSubsetsOf
<1>2. T # {}
    OBVIOUS
<1> HIDE DEF T
<1>3. PICK x \in T : \A y \in T : <<y, x>> \notin StrictSubsetOrdering(Nat)
    BY <1>1, <1>2, FS_StrictSubsetOrderingWellFounded, WFMin
<1>4. PICK m \in S : x = 0 .. m
    BY DEF T
<1>5. ASSUME NEW k \in S, k < m PROVE FALSE
  <2>1. m \in 0 .. m /\ m \notin 0 .. k
      BY <1>5
  <2>2. 0 .. k \subseteq 0 .. m /\ 0 .. k # 0 .. m
      BY <1>5, <2>1
  <2>3. <<0 .. k, 0 .. m>> \in StrictSubsetOrdering(Nat)
      BY <2>2 DEF StrictSubsetOrdering
  <2>4. 0 .. k \in T
      BY DEF T
  <2> QED
      BY <1>3, <1>4, <2>3, <2>4
<1> QED
    BY <1>5

LEMMA InductionUpTo ==
    ASSUME NEW N \in Nat, NEW P, 0 \in P,
           \A n \in 0 .. N : n \in P /\ n < N => n + 1 \in P
    PROVE  \A n \in 0 .. N : n \in P
<1> DEFINE Failing == {n \in 0 .. N : n \notin P}
<1> SUFFICES ASSUME Failing # {} PROVE FALSE
    OBVIOUS
<1>1. Failing \in SUBSET Nat
    OBVIOUS
<1>2. \E m \in Failing : \A k \in Failing : m <= k
  <2> HIDE DEF Failing
  <2> QED
      BY <1>1, LeastNatural
<1>3. PICK m \in Failing : \A k \in Failing : m <= k
    BY <1>2
<1>4. m # 0 /\ m - 1 \in 0 .. N /\ m - 1 < N
    BY <1>3
<1>5. m - 1 \in P
    BY <1>3, <1>4
<1> QED
    BY <1>3, <1>4, <1>5

-----------------------------------------------------------------------------
(* Sums of requests let through.                                            *)

IsSum(g, p, N) ==
    g = [n \in 0 .. N |-> IF n = 0 THEN 0 ELSE g[n - 1] + p[n - 1]]

Sum(p) == CHOOSE g : IsSum(g, p, Window)

\* The sums are well defined.
LEMMA SumExists ==
    ASSUME NEW p, NEW N \in Nat
    PROVE  \E g : IsSum(g, p, N)
<1> DEFINE P == {n \in 0 .. N : \E g : IsSum(g, p, n)}
<1>1. 0 \in P
  <2>1. IsSum([n \in 0 .. 0 |-> 0], p, 0)
      BY DEF IsSum
  <2> QED
      BY <2>1
<1>2. ASSUME NEW n \in 0 .. N, n \in P, n < N PROVE n + 1 \in P
  <2>1. PICK g : IsSum(g, p, n)
      BY <1>2
  <2> DEFINE h == [k \in 0 .. n + 1 |-> IF k = n + 1 THEN g[n] + p[n] ELSE g[k]]
  <2>2. \A k \in 0 .. n : g[k] = IF k = 0 THEN 0 ELSE g[k - 1] + p[k - 1]
      BY <2>1 DEF IsSum
  <2>3. \A k \in 0 .. n + 1 : h[k] = IF k = 0 THEN 0 ELSE h[k - 1] + p[k - 1]
    <3> TAKE k \in 0 .. n + 1
    <3>1. CASE k = n + 1
        BY <3>1
    <3>2. CASE k \in 0 .. n
        BY <2>2, <3>2
    <3> QED
        BY <3>1, <3>2
  <2>4. IsSum(h, p, n + 1)
      BY <2>3 DEF IsSum
  <2> QED
      BY <1>2, <2>4
<1> HIDE DEF P
<1>3. \A n \in 0 .. N : n \in P
    BY <1>1, <1>2, InductionUpTo
<1> QED
    BY <1>3 DEF P

\* What they are, tick by tick.
LEMMA SumSteps ==
    ASSUME NEW p \in [Ages -> Nat]
    PROVE  /\ Sum(p)[0] = 0
           /\ \A n \in 1 .. Window : Sum(p)[n] = Sum(p)[n - 1] + p[n - 1]
           /\ \A n \in 0 .. Window : Sum(p)[n] \in Nat
<1> USE RateLimitAssumption
<1> DEFINE g == Sum(p)
           P == {n \in 0 .. Window : g[n] \in Nat}
<1>1. IsSum(g, p, Window)
    BY SumExists DEF Sum
<1> HIDE DEF g
<1>2. g[0] = 0 /\ \A n \in 1 .. Window : g[n] = g[n - 1] + p[n - 1]
    BY <1>1 DEF IsSum
<1>3. 0 \in P
    BY <1>2
<1>4. ASSUME NEW n \in 0 .. Window, n \in P, n < Window PROVE n + 1 \in P
  <2>1. n + 1 \in 1 .. Window /\ n \in Ages
      BY <1>4 DEF Ages
  <2>2. g[n + 1] = g[n] + p[n]
      BY <1>2, <2>1
  <2> QED
      BY <1>4, <2>1, <2>2
<1> HIDE DEF P
<1>5. \A n \in 0 .. Window : n \in P
    BY <1>3, <1>4, InductionUpTo
<1> QED
    BY <1>2, <1>5 DEF P, g

\* A tick later everything is one tick older.
LEMMA SumShift ==
    ASSUME NEW p \in [Ages -> Nat], NEW q \in [Ages -> Nat], q[0] = 0,
           \A a \in Ages \ {0} : q[a] = p[a - 1]
    PROVE  \A n \in 1 .. Window : Sum(q)[n] = Sum(p)[n - 1]
<1> USE RateLimitAssumption
<1> DEFINE P == {n \in 0 .. Window : n > 0 => Sum(q)[n] = Sum(p)[n - 1]}
<1>1. 0 \in P
    OBVIOUS
<1>2. ASSUME NEW n \in 0 .. Window, n \in P, n < Window PROVE n + 1 \in P
  <2>1. n + 1 \in 1 .. Window /\ n \in Ages
      BY <1>2 DEF Ages
  <2>2. Sum(q)[n + 1] = Sum(q)[n] + q[n]
      BY <2>1, SumSteps
  <2>3. CASE n = 0
      BY <2>1, <2>2, <2>3, SumSteps
  <2>4. CASE n > 0
    <3>1. q[n] = p[n - 1] /\ n \in 1 .. Window
        BY <2>1, <2>4
    <3>2. Sum(p)[n] = Sum(p)[n - 1] + p[n - 1]
        BY <3>1, SumSteps
    <3>3. Sum(q)[n] = Sum(p)[n - 1]
        BY <1>2, <2>4
    <3> QED
        BY <2>1, <2>2, <3>1, <3>2, <3>3
  <2> QED
      BY <2>3, <2>4
<1> HIDE DEF P
<1>3. \A n \in 0 .. Window : n \in P
    BY <1>1, <1>2, InductionUpTo
<1> QED
    BY <1>3 DEF P

\* A request let through now counts in every sum.
LEMMA SumBump ==
    ASSUME NEW p \in [Ages -> Nat], NEW q \in [Ages -> Nat], q[0] = p[0] + 1,
           \A a \in Ages \ {0} : q[a] = p[a]
    PROVE  \A n \in 1 .. Window : Sum(q)[n] = Sum(p)[n] + 1
<1> USE RateLimitAssumption
<1> DEFINE P == {n \in 0 .. Window : n > 0 => Sum(q)[n] = Sum(p)[n] + 1}
<1>1. 0 \in P
    OBVIOUS
<1>2. ASSUME NEW n \in 0 .. Window, n \in P, n < Window PROVE n + 1 \in P
  <2>1. n + 1 \in 1 .. Window /\ n \in Ages /\ n \in 0 .. Window
      BY <1>2 DEF Ages
  <2>2. Sum(q)[n + 1] = Sum(q)[n] + q[n] /\ Sum(p)[n + 1] = Sum(p)[n] + p[n]
      BY <2>1, SumSteps
  <2>3. Sum(p)[n] \in Nat /\ p[n] \in Nat
      BY <2>1, SumSteps
  <2>4. CASE n = 0
      BY <2>1, <2>2, <2>3, <2>4, SumSteps
  <2>5. CASE n > 0
      BY <1>2, <2>1, <2>2, <2>3, <2>5
  <2> QED
      BY <2>4, <2>5
<1> HIDE DEF P
<1>3. \A n \in 0 .. Window : n \in P
    BY <1>1, <1>2, InductionUpTo
<1> QED
    BY <1>3 DEF P

\* Before the first request every sum is 0.
LEMMA SumOfNothing ==
    ASSUME NEW p \in [Ages -> Nat], \A a \in Ages : p[a] = 0
    PROVE  \A n \in 0 .. Window : Sum(p)[n] = 0
<1> USE RateLimitAssumption
<1> DEFINE P == {n \in 0 .. Window : Sum(p)[n] = 0}
<1>1. 0 \in P
    BY SumSteps
<1>2. ASSUME NEW n \in 0 .. Window, n \in P, n < Window PROVE n + 1 \in P
  <2>1. n + 1 \in 1 .. Window /\ n \in Ages
      BY <1>2 DEF Ages
  <2>2. Sum(p)[n + 1] = Sum(p)[n] + p[n]
      BY <2>1, SumSteps
  <2> QED
      BY <1>2, <2>1, <2>2
<1> HIDE DEF P
<1>3. \A n \in 0 .. Window : n \in P
    BY <1>1, <1>2, InductionUpTo
<1> QED
    BY <1>3 DEF P

\* A longer stretch of time has let through no less.
LEMMA SumGrows ==
    ASSUME NEW p \in [Ages -> Nat], NEW n \in 1 .. Window
    PROVE  Sum(p)[n - 1] <= Sum(p)[n]
<1> USE RateLimitAssumption
<1>1. n - 1 \in Ages /\ n - 1 \in 0 .. Window
    BY DEF Ages
<1> QED
    BY <1>1, SumSteps

\* The sums of the model.
LEMMA PassedIsSum == PassedWithin = Sum(passed)
    BY DEF PassedWithin, Sum, IsSum

-----------------------------------------------------------------------------
(* The invariant.                                                           *)

\* The two windows of the last Window ticks, in terms of the sums alone.
SplitAt(s, p, c, l) ==
    /\ Sum(p)[s] <= c /\ Sum(p)[s] <= Limit
    /\ Sum(p)[Window] <= Sum(p)[s] + Limit
    /\ l > 0 => Window - l < s

LEMMA TwoWindowsSplit ==
    TwoWindows <=> \E s \in 1 .. Window : SplitAt(s, passed, count, ttl)
    BY PassedIsSum DEF TwoWindows, SplitAt

LEMMA TwoWindowsSplitNext ==
    TwoWindows' <=> \E s \in 1 .. Window : SplitAt(s, passed', count', ttl')
<1>1. PassedWithin' = Sum(passed')
    BY DEF PassedWithin, Sum, IsSum
<1> QED
    BY <1>1 DEF TwoWindows, SplitAt

\* The invariant holds before the first request.
LEMMA InitRateInv == Init => RateInv
<1> SUFFICES ASSUME Init PROVE TypeOK /\ OneStartsTheWindow /\ TwoWindows
    BY DEF RateInv
<1>1. TypeOK
  <2>1. count \in 0 .. MaxCount /\ ttl \in 0 .. Window
      BY RateLimitAssumption DEF Init
  <2>2. lost \in BOOLEAN
      BY DEF Init
  <2>3. pc \in [Txns -> {"idle", "expire"}] /\ passed \in [Ages -> Nat]
      BY DEF Init
  <2> QED
      BY <2>1, <2>2, <2>3 DEF TypeOK
<1>2. OneStartsTheWindow
    BY DEF Init, OneStartsTheWindow
<1>3. TwoWindows
  <2>1. passed \in [Ages -> Nat] /\ \A a \in Ages : passed[a] = 0
      BY DEF Init
  <2>2. \A n \in 0 .. Window : Sum(passed)[n] = 0
      BY <2>1, SumOfNothing
  <2>3. 1 \in 1 .. Window /\ Sum(passed)[1] = 0 /\ Sum(passed)[Window] = 0
      BY <2>2, RateLimitAssumption
  <2>4. SplitAt(1, passed, count, ttl)
      BY <2>3, RateLimitAssumption DEF SplitAt, Init
  <2> QED
      BY <2>3, <2>4, TwoWindowsSplit
<1> QED
    BY <1>1, <1>2, <1>3

\* Counting a request keeps the invariant: the first one finds no key and no
\* other request about to set its expiry, and one that is let through is within
\* the limit of the window that runs.
LEMMA IncrStep ==
    ASSUME RateInv, NEW t \in Txns, Incr(t)
    PROVE  RateInv'
<1> USE RateLimitAssumption
<1>1. /\ count' = count + 1 /\ count' \in 0 .. MaxCount
      /\ ttl' = ttl /\ lost' = lost /\ pc[t] = "idle"
    BY DEF Incr, RateInv, TypeOK
<1>2. TypeOK'
  <2>1. passed' \in [Ages -> Nat]
      BY DEF Incr, RateInv, TypeOK, Ages
  <2>2. pc' \in [Txns -> {"idle", "expire"}]
      BY DEF Incr, RateInv, TypeOK
  <2> QED
      BY <1>1, <2>1, <2>2 DEF RateInv, TypeOK
<1>3. OneStartsTheWindow'
  <2>1. CASE count = 0
    <3>1. \A u \in Txns : pc[u] = "idle"
        BY <2>1 DEF RateInv, TypeOK, OneStartsTheWindow
    <3>2. ttl = 0
        BY <2>1 DEF RateInv, TypeOK, OneStartsTheWindow
    <3>3. pc' = [pc EXCEPT ![t] = "expire"]
        BY <1>1, <2>1 DEF Incr, StartsWindow
    <3> QED
        BY <1>1, <2>1, <3>1, <3>2, <3>3 DEF RateInv, TypeOK, OneStartsTheWindow
  <2>2. CASE count # 0
    <3>1. pc' = pc
        BY <1>1, <2>2 DEF Incr, StartsWindow, RateInv, TypeOK
    <3> QED
        BY <1>1, <2>2, <3>1 DEF RateInv, TypeOK, OneStartsTheWindow
  <2> QED
      BY <2>1, <2>2
<1>4. TwoWindows'
  <2>1. passed \in [Ages -> Nat] /\ count \in Nat /\ ttl \in Nat
      BY DEF RateInv, TypeOK
  <2>2. PICK s \in 1 .. Window : SplitAt(s, passed, count, ttl)
      BY TwoWindowsSplit DEF RateInv
  <2>3. s \in 0 .. Window /\ Window \in 1 .. Window
      OBVIOUS
  <2>4. Sum(passed)[s] \in Nat /\ Sum(passed)[Window] \in Nat
      BY <2>1, <2>3, SumSteps
  <2>5. CASE LetsThrough(count')
    <3>1. passed' = [passed EXCEPT ![0] = @ + 1] /\ count + 1 <= Limit
        BY <1>1, <2>5 DEF Incr, LetsThrough
    <3>2. /\ passed' \in [Ages -> Nat]
          /\ passed'[0] = passed[0] + 1
          /\ \A a \in Ages \ {0} : passed'[a] = passed[a]
        BY <2>1, <3>1 DEF Ages
    <3>3. \A n \in 1 .. Window : Sum(passed')[n] = Sum(passed)[n] + 1
        BY <2>1, <3>2, SumBump
    <3>4. /\ Sum(passed')[s] = Sum(passed)[s] + 1
          /\ Sum(passed')[Window] = Sum(passed)[Window] + 1
        BY <2>3, <3>3
    <3>5. /\ Sum(passed)[s] <= count
          /\ Sum(passed)[Window] <= Sum(passed)[s] + Limit
          /\ ttl > 0 => Window - ttl < s
        BY <2>2 DEF SplitAt
    <3>6. /\ Sum(passed')[s] <= count' /\ Sum(passed')[s] <= Limit
          /\ Sum(passed')[Window] <= Sum(passed')[s] + Limit
      <4> HIDE DEF SplitAt
      <4> QED
          BY <1>1, <2>1, <2>4, <3>1, <3>4, <3>5
    <3>7. SplitAt(s, passed', count', ttl')
        BY <1>1, <3>5, <3>6 DEF SplitAt
    <3> QED
        BY <3>7, TwoWindowsSplitNext
  <2>6. CASE ~LetsThrough(count')
    <3>1. passed' = passed
        BY <2>6 DEF Incr
    <3>2. SplitAt(s, passed', count', ttl')
        BY <1>1, <2>1, <2>2, <2>4, <3>1 DEF SplitAt
    <3> QED
        BY <3>2, TwoWindowsSplitNext
  <2> QED
      BY <2>5, <2>6
<1> QED
    BY <1>2, <1>3, <1>4 DEF RateInv

\* A tick keeps the two windows: the one that runs is a tick older, and when it
\* ends it has begun so long ago that nothing lies before it any more.
LEMMA TickTwoWindows ==
    ASSUME RateInv, Tick
    PROVE  TwoWindows'
<1> USE RateLimitAssumption
<1>1. passed \in [Ages -> Nat] /\ count \in Nat /\ ttl \in 0 .. Window
    BY DEF RateInv, TypeOK
<1>2. PICK s \in 1 .. Window : SplitAt(s, passed, count, ttl)
    BY TwoWindowsSplit DEF RateInv
<1>3. /\ passed' \in [Ages -> Nat]
      /\ passed'[0] = 0
      /\ \A a \in Ages \ {0} : passed'[a] = passed[a - 1]
    BY <1>1 DEF Tick, Ages
<1>4. \A n \in 1 .. Window : Sum(passed')[n] = Sum(passed)[n - 1]
    BY <1>1, <1>3, SumShift
<1>5. /\ Window \in 1 .. Window
      /\ Sum(passed)[Window - 1] <= Sum(passed)[Window]
    BY <1>1, SumGrows
<1>6. \A n \in 0 .. Window : Sum(passed)[n] \in Nat
    BY <1>1, SumSteps
<1>7. CASE ttl = 1
  <2>1. s = Window
      BY <1>2, <1>7 DEF SplitAt
  <2>2. Sum(passed)[Window] <= Limit
      BY <1>2, <2>1 DEF SplitAt
  <2>3. /\ Sum(passed')[1] = 0
        /\ Sum(passed')[Window] = Sum(passed)[Window - 1]
      BY <1>1, <1>4, <1>5, SumSteps
  <2>4. ttl' = 0 /\ count' = 0
      BY <1>7 DEF Tick
  <2>5. Sum(passed)[Window - 1] \in Nat /\ Sum(passed)[Window] \in Nat
      BY <1>6
  <2>6. SplitAt(1, passed', count', ttl')
      BY <1>5, <2>2, <2>3, <2>4, <2>5 DEF SplitAt
  <2> QED
      BY <2>6, TwoWindowsSplitNext
<1>8. CASE ttl # 1 /\ s < Window
  <2>1. s + 1 \in 1 .. Window /\ s \in 0 .. Window
      BY <1>8
  <2>2. /\ Sum(passed')[s + 1] = Sum(passed)[s]
        /\ Sum(passed')[Window] = Sum(passed)[Window - 1]
      BY <1>4, <1>5, <2>1
  <2>3. count' = count /\ ttl' = IF ttl = 0 THEN 0 ELSE ttl - 1
      BY <1>8 DEF Tick
  <2>4. Sum(passed)[s] \in Nat /\ Sum(passed)[Window - 1] \in Nat /\ Sum(passed)[Window] \in Nat
      BY <1>6, <2>1
  <2>5. SplitAt(s + 1, passed', count', ttl')
      BY <1>1, <1>2, <1>5, <2>2, <2>3, <2>4 DEF SplitAt
  <2> QED
      BY <2>1, <2>5, TwoWindowsSplitNext
<1>9. CASE ttl # 1 /\ s = Window
  <2>1. Sum(passed')[Window] = Sum(passed)[Window - 1]
      BY <1>4, <1>5
  <2>2. count' = count /\ ttl' = IF ttl = 0 THEN 0 ELSE ttl - 1
      BY <1>9 DEF Tick
  <2>3. Sum(passed)[Window - 1] \in Nat /\ Sum(passed)[Window] \in Nat
      BY <1>6
  <2>4. ttl' > 0 => Window - ttl' < Window
      BY <1>1, <2>2
  <2>5. SplitAt(Window, passed', count', ttl')
      BY <1>1, <1>2, <1>5, <1>9, <2>1, <2>2, <2>3, <2>4 DEF SplitAt
  <2> QED
      BY <1>5, <2>5, TwoWindowsSplitNext
<1> QED
    BY <1>7, <1>8, <1>9

\* An EXPIRE, late as it may be, starts the counting down at the full length:
\* the window that runs is older than the nothing that is over of it.
LEMMA QuietTwoWindows ==
    ASSUME RateInv, passed' = passed, count' = count, ttl' \in {ttl, Window}
    PROVE  TwoWindows'
<1> USE RateLimitAssumption
<1>1. PICK s \in 1 .. Window : SplitAt(s, passed, count, ttl)
    BY TwoWindowsSplit DEF RateInv
<1>2. SplitAt(s, passed', count', ttl')
    BY <1>1 DEF SplitAt
<1> QED
    BY <1>2, TwoWindowsSplitNext

\* Every step keeps the invariant.
LEMMA NextRateInv == RateInv /\ [Next]_vars => RateInv'
<1> SUFFICES ASSUME RateInv, [Next]_vars PROVE RateInv'
    OBVIOUS
<1> USE RateLimitAssumption
<1>1. CASE Tick
  <2>1. TypeOK'
      BY <1>1 DEF Tick, RateInv, TypeOK, Ages
  <2>2. OneStartsTheWindow'
      BY <1>1 DEF Tick, RateInv, TypeOK, OneStartsTheWindow
  <2> QED
      BY <1>1, <2>1, <2>2, TickTwoWindows DEF RateInv
<1>2. ASSUME NEW t \in Txns, Incr(t) PROVE RateInv'
    BY <1>2, IncrStep
<1>3. ASSUME NEW t \in Txns, Expire(t) PROVE RateInv'
  <2>1. TypeOK'
      BY <1>3 DEF Expire, RateInv, TypeOK
  <2>2. OneStartsTheWindow'
      BY <1>3 DEF Expire, RateInv, TypeOK, OneStartsTheWindow
  <2>3. TwoWindows'
      BY <1>3, QuietTwoWindows DEF Expire
  <2> QED
      BY <2>1, <2>2, <2>3 DEF RateInv
<1>4. ASSUME NEW t \in Txns, Fail(t) PROVE RateInv'
  <2>1. TypeOK'
      BY <1>4 DEF Fail, RateInv, TypeOK
  <2>2. OneStartsTheWindow'
      BY <1>4 DEF Fail, RateInv, TypeOK, OneStartsTheWindow
  <2>3. TwoWindows'
      BY <1>4, QuietTwoWindows DEF Fail
  <2> QED
      BY <2>1, <2>2, <2>3 DEF RateInv
<1>5. CASE UNCHANGED vars
  <2>1. TypeOK' /\ OneStartsTheWindow'
      BY <1>5 DEF vars, RateInv, TypeOK, OneStartsTheWindow
  <2>2. TwoWindows'
      BY <1>5, QuietTwoWindows DEF vars
  <2> QED
      BY <2>1, <2>2 DEF RateInv
<1> QED
    BY <1>1, <1>2, <1>3, <1>4, <1>5 DEF Next

\* The counter, its expiry and the requests keep their types, at most one
\* request is about to start the window, and two windows at most share the
\* time of one.
THEOREM RateLimitInvariant == Spec => []RateInv
    BY InitRateInv, NextRateInv, PTL DEF Spec

\* In the time of one window at most twice the limit passes, whatever the
\* limit and the window, however many requests there are and however late the
\* EXPIRE of a window comes, or fails.
THEOREM TwiceTheLimit == Spec => []AtMostTwiceTheLimit
<1>1. RateInv => AtMostTwiceTheLimit
  <2> SUFFICES ASSUME RateInv PROVE AtMostTwiceTheLimit
      OBVIOUS
  <2> USE RateLimitAssumption
  <2>1. passed \in [Ages -> Nat]
      BY DEF RateInv, TypeOK
  <2>2. PICK s \in 1 .. Window : SplitAt(s, passed, count, ttl)
      BY TwoWindowsSplit DEF RateInv
  <2>3. s \in 0 .. Window /\ Window \in 0 .. Window
      OBVIOUS
  <2>4. Sum(passed)[s] \in Nat /\ Sum(passed)[Window] \in Nat
      BY <2>1, <2>3, SumSteps
  <2>5. Sum(passed)[Window] <= 2 * Limit
      BY <2>2, <2>4 DEF SplitAt
  <2> QED
      BY <2>5, PassedIsSum DEF AtMostTwiceTheLimit
<1> QED
    BY <1>1, RateLimitInvariant, PTL

\* A window that runs is never made longer, in whatever order the calls of
\* concurrent requests reach Redis.
THEOREM WindowIsFixed == Spec => WindowNotExtended
<1>1. RateInv /\ [Next]_vars => [ttl > 0 => ttl' < ttl \/ ttl' = ttl]_vars
  <2> SUFFICES ASSUME RateInv, [Next]_vars, ttl > 0
               PROVE  ttl' < ttl \/ ttl' = ttl
      OBVIOUS
  <2>1. CASE Tick
      BY <2>1 DEF Tick, RateInv, TypeOK
  <2>2. ASSUME NEW t \in Txns, Incr(t) \/ Expire(t) \/ Fail(t) PROVE ttl' = ttl
      BY <2>2 DEF Incr, Expire, Fail, RateInv, TypeOK, OneStartsTheWindow
  <2> QED
      BY <2>1, <2>2 DEF Next, vars
<1> QED
    BY <1>1, RateLimitInvariant, PTL DEF Spec, WindowNotExtended
=============================================================================
