--------------------------- MODULE EvidenceProofs ---------------------------
(***************************************************************************)
(* Proofs about Evidence, for any answers: first what the readers of       *)
(* base.py make of a value, then each criterion as a function of what is   *)
(* read.                                                                   *)
(***************************************************************************)
EXTENDS Evidence, TLAPS

-----------------------------------------------------------------------------
(* Reading.                                                                *)

\* The readers take a clear yes for one, a clear no for none, and a plain number
\* for itself.
LEMMA Reading ==
    ASSUME NEW v \in Json
    PROVE  /\ SaysYes(v) => BoolOf(v)
           /\ SaysNo(v) => ~BoolOf(v)
           /\ Plain(v) => IntOf(v) = v.num
           /\ IntOf(v) \in Int
  BY DEF Json, BoolOf, IntOf, SaysYes, SaysNo, Plain, YesWords

\* A text reader gives None exactly for what says nothing, and a word only for
\* a text of that word.
LEMMA ReadingText ==
    ASSUME NEW v \in Json
    PROVE  /\ StrOf(v) = None <=> Unsaid(v)
           /\ StrOf(v) = Residential <=> Says(v, {Residential})
           /\ StrOf(v) \in ExemptOrmTypes <=> Says(v, ExemptOrmTypes)
<1>1. v.word \in Words
  BY DEF Json
<1>2. /\ None # "converted" /\ None # v.word
      /\ None # Residential /\ None \notin ExemptOrmTypes
  BY <1>1, CriteriaAssumption
<1> QED
  BY <1>2 DEF Json, StrOf, Unsaid, Says, Residential, ExemptOrmTypes

-----------------------------------------------------------------------------
(* One criterion, before and after.                                        *)

\* A fact in favour, once affirmed, stays so.
LEMMA ForRead ==
    ASSUME NEW c \in Numbers, NEW g, NEW h,
           AreJson(c, g), AreJson(c, h), NotWorse(c, g, h), NEW f \in For[c]
    PROVE  Yes(g, f) => Yes(h, f)
<1>1. f \in Fields(c) /\ Get(g, f) \in Json /\ Get(h, f) \in Json
  BY DEF Fields, AreJson
<1>2. Get(g, f) = Get(h, f) \/ SaysNo(Get(g, f)) \/ SaysYes(Get(h, f))
  BY <1>1 DEF NotWorse, AtLeastAsGood
<1> QED
  BY <1>1, <1>2, Reading DEF Yes

\* A fact against, once denied, stays so.
LEMMA AgainstRead ==
    ASSUME NEW c \in Numbers, NEW g, NEW h,
           AreJson(c, g), AreJson(c, h), NotWorse(c, g, h), NEW f \in Against[c]
    PROVE  Yes(h, f) => Yes(g, f)
<1>1. f \in Fields(c) /\ Get(g, f) \in Json /\ Get(h, f) \in Json
  BY DEF Fields, AreJson
<1>2. Get(g, f) = Get(h, f) \/ SaysYes(Get(g, f)) \/ SaysNo(Get(h, f))
  BY <1>1 DEF NotWorse, AtLeastAsGood
<1> QED
  BY <1>1, <1>2, Reading DEF Yes

\* A count does not grow.
LEMMA CountRead ==
    ASSUME NEW c \in Numbers, NEW g, NEW h,
           AreJson(c, g), AreJson(c, h), NotWorse(c, g, h), NEW f \in Counts[c]
    PROVE  /\ Count(g, f) \in Int
           /\ Count(h, f) \in Int
           /\ Count(h, f) <= Count(g, f)
<1>1. f \in Fields(c) /\ Get(g, f) \in Json /\ Get(h, f) \in Json
  BY DEF Fields, AreJson
<1>2. Get(g, f) = Get(h, f) \/ (Plain(Get(g, f)) /\ Plain(Get(h, f)) /\ Get(h, f).num <= Get(g, f).num)
  BY <1>1 DEF NotWorse, AtLeastAsGood
<1> QED
  BY <1>1, <1>2, Reading DEF Count

\* Premises do not become residential, an exempt measure stays exempt, a
\* detention does not appear.
LEMMA TextRead ==
    ASSUME NEW c \in Numbers, NEW g, NEW h,
           AreJson(c, g), AreJson(c, h), NotWorse(c, g, h), NEW f \in Texts[c]
    PROVE  /\ f = "premises_type" =>
                (Word(h, f) = Residential => Word(g, f) = Residential)
           /\ f = "orm_type" =>
                (Word(g, f) \in ExemptOrmTypes => Word(h, f) \in ExemptOrmTypes)
           /\ f = "detention_basis" => (Word(g, f) = None => Word(h, f) = None)
<1>1. f \in Fields(c) /\ Get(g, f) \in Json /\ Get(h, f) \in Json
  BY DEF Fields, AreJson
<1>2. AtLeastAsGood(c, f, Get(g, f), Get(h, f))
  BY <1>1 DEF NotWorse
<1>3. Word(g, f) = StrOf(Get(g, f)) /\ Word(h, f) = StrOf(Get(h, f))
  BY DEF Word
<1> QED
  BY <1>1, <1>2, <1>3, ReadingText DEF AtLeastAsGood

-----------------------------------------------------------------------------
(* The criteria.                                                           *)

\* No criterion is judged worse on answers none of which is worse.
THEOREM VerdictMonotone ==
    ASSUME NEW c \in Numbers, NEW g, NEW h,
           AreJson(c, g), AreJson(c, h), NotWorse(c, g, h)
    PROVE  Severity(Verdict(c, h)) <= Severity(Verdict(c, g))
<1> USE DEF Numbers
<1>f. \A f \in For[c] : Yes(g, f) => Yes(h, f)
  BY ForRead
<1>a. \A f \in Against[c] : Yes(h, f) => Yes(g, f)
  BY AgainstRead
<1>n. \A f \in Counts[c] : /\ Count(g, f) \in Int
                           /\ Count(h, f) \in Int
                           /\ Count(h, f) <= Count(g, f)
  BY CountRead
<1>t. \A f \in Texts[c] :
        /\ f = "premises_type" =>
             (Word(h, f) = Residential => Word(g, f) = Residential)
        /\ f = "orm_type" =>
             (Word(g, f) \in ExemptOrmTypes => Word(h, f) \in ExemptOrmTypes)
        /\ f = "detention_basis" => (Word(g, f) = None => Word(h, f) = None)
  BY TextRead
<1> USE DEF Severity, Passed, Attention, Violation, Violated, Remarked
<1>1. CASE c = 1
  BY <1>1, <1>f DEF Verdict, Criterion01, For
<1>2. CASE c = 2
  BY <1>2, <1>f, <1>a DEF Verdict, Criterion02, For, Against
<1>3. CASE c = 3
  BY <1>3, <1>f, <1>a, <1>t DEF Verdict, Criterion03, For, Against, Texts
<1>4. CASE c = 4
  BY <1>4, <1>a DEF Verdict, Criterion04, Against
<1>5. CASE c = 5
  BY <1>5, <1>a DEF Verdict, Criterion05, Against
<1>6. CASE c = 6
  BY <1>6, <1>f, <1>a, <1>t DEF Verdict, Criterion06, For, Against, Texts
<1>7. CASE c = 7
  BY <1>7, <1>f, <1>n DEF Verdict, Criterion07, For, Counts
<1>8. CASE c = 8
  BY <1>8, <1>f, <1>n DEF Verdict, Criterion08, For, Counts
<1>9. CASE c = 9
  BY <1>9, <1>f DEF Verdict, Criterion09, For
<1>10. CASE c = 10
  BY <1>10, <1>f DEF Verdict, Criterion10, For
<1>11. CASE c = 11
  BY <1>11, <1>a DEF Verdict, Criterion11, Against
<1>12. CASE c = 12
  BY <1>12, <1>a DEF Verdict, Criterion12, Against
<1>13. CASE c = 13
  BY <1>13, <1>f, <1>a, <1>t DEF Verdict, Criterion13, For, Against, Texts
<1>14. CASE c = 14
  BY <1>14, <1>f, <1>t DEF Verdict, Criterion14, For, Texts
<1>15. c \in 1 .. 14
  OBVIOUS
<1> HIDE DEF Severity, Passed, Attention, Violation, Violated, Remarked
<1> QED
  BY <1>1, <1>2, <1>3, <1>4, <1>5, <1>6, <1>7, <1>8, <1>9, <1>10, <1>11,
     <1>12, <1>13, <1>14, <1>15
=============================================================================
