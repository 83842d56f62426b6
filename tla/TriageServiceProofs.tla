------------------------ MODULE TriageServiceProofs ------------------------
(***************************************************************************)
(* AgentGuard-X for any number of requests, agents and sessions, any       *)
(* limits, windows and number of Redis faults: the aggregate of stage 8    *)
(* for every vector of scores, then what /triage and /execute keep.        *)
(*                                                                         *)
(* The leaves about scores name the SMT backend: the numerals are large    *)
(* for the others.                                                         *)
(***************************************************************************)
EXTENDS TriageService, FiniteSetTheorems, SequenceTheorems, TLAPS

----------------------------------------------------------------------------
(* The aggregate: raising a score never weakens the routing, and no single *)
(* stage can block by itself.                                              *)

LEMMA RangeFacts ==
    ASSUME NEW x \in Scores
    PROVE  x \in Int /\ 0 <= x /\ x <= 10000
BY SMT DEF Scores

LEMMA ScoreFacts ==
    ASSUME NEW s \in Vectors, NEW i \in Weighted
    PROVE  s[i] \in Int /\ 0 <= s[i] /\ s[i] <= 10000
<1>1. s[i] \in Scores
  BY SMT DEF Vectors
<1>2. QED
  BY SMT, <1>1, RangeFacts

LEMMA SumFacts ==
    ASSUME NEW s \in Vectors
    PROVE  WeightedSum(s) \in Int /\ 0 <= WeightedSum(s) /\ WeightedSum(s) <= 1000000
<1>1. 2 \in Weighted /\ 4 \in Weighted /\ 5 \in Weighted /\ 7 \in Weighted
  BY SMT DEF Weighted
<1>2. /\ s[2] \in Int /\ 0 <= s[2] /\ s[2] <= 10000 /\ s[4] \in Int /\ 0 <= s[4] /\ s[4] <= 10000
      /\ s[5] \in Int /\ 0 <= s[5] /\ s[5] <= 10000 /\ s[7] \in Int /\ 0 <= s[7] /\ s[7] <= 10000
  BY SMT, <1>1, ScoreFacts
<1>3. QED
  BY SMT, <1>2 DEF WeightedSum

\* The multiplier raises, keeps the order, and stays within one.
LEMMA BoostFacts ==
    ASSUME NEW x \in Int, NEW y \in Int, 0 <= x, x <= y, y <= 1000000
    PROVE  /\ Boost(x) \in Int /\ x <= Boost(x)
           /\ Boost(y) \in Int /\ Boost(x) <= Boost(y)
<1>1. /\ (5 * x) \div 4 \in Int /\ x <= (5 * x) \div 4
      /\ (5 * y) \div 4 \in Int /\ (5 * x) \div 4 <= (5 * y) \div 4
  BY SMT
<1>2. QED
  BY SMT, <1>1 DEF Boost

\* The aggregate before it is rounded.
Raw(s) == IF Corroborated(s) THEN Boost(WeightedSum(s)) ELSE WeightedSum(s)

LEMMA RawMonotone ==
    ASSUME NEW s \in Vectors, NEW t \in Vectors, \A i \in Weighted : s[i] <= t[i]
    PROVE  Raw(s) \in Int /\ Raw(t) \in Int /\ Raw(s) <= Raw(t)
<1>1. WeightedSum(s) <= WeightedSum(t)
  <2>1. 2 \in Weighted /\ 4 \in Weighted /\ 5 \in Weighted /\ 7 \in Weighted
    BY SMT DEF Weighted
  <2>2. /\ s[2] \in Int /\ s[4] \in Int /\ s[5] \in Int /\ s[7] \in Int
        /\ t[2] \in Int /\ t[4] \in Int /\ t[5] \in Int /\ t[7] \in Int
        /\ s[2] <= t[2] /\ s[4] <= t[4] /\ s[5] <= t[5] /\ s[7] <= t[7]
    BY SMT, <2>1, ScoreFacts
  <2>3. QED
    BY SMT, <2>2 DEF WeightedSum
<1>2. Corroborated(s) => Corroborated(t)
  <2>1. SUFFICES ASSUME NEW i \in Weighted, NEW j \in Weighted, i # j, s[i] > 5000, s[j] > 5000
                 PROVE  t[i] > 5000 /\ t[j] > 5000
    BY SMT DEF Corroborated
  <2>2. s[i] \in Int /\ s[j] \in Int /\ t[i] \in Int /\ t[j] \in Int
    BY SMT, ScoreFacts
  <2>3. QED
    BY SMT, <2>1, <2>2
<1>3. /\ WeightedSum(s) \in Int /\ 0 <= WeightedSum(s) /\ WeightedSum(s) <= 1000000
      /\ WeightedSum(t) \in Int /\ 0 <= WeightedSum(t) /\ WeightedSum(t) <= 1000000
  BY SMT, SumFacts
<1>4. /\ Boost(WeightedSum(s)) \in Int /\ WeightedSum(s) <= Boost(WeightedSum(s))
      /\ Boost(WeightedSum(t)) \in Int /\ WeightedSum(t) <= Boost(WeightedSum(t)) /\ Boost(WeightedSum(s)) <= Boost(WeightedSum(t))
  BY SMT, <1>1, <1>3, BoostFacts
<1>5. QED
  BY SMT, <1>1, <1>2, <1>3, <1>4 DEF Raw

LEMMA FinalFacts ==
    ASSUME NEW s \in Vectors
    PROVE  /\ FinalScore(s) = (Raw(s) + 50) \div 100
           /\ Raw(s) \in Int /\ FinalScore(s) \in Int
<1>1. \A i \in Weighted : s[i] <= s[i]
  BY SMT, ScoreFacts
<1>2. Raw(s) \in Int
  BY SMT, <1>1, RawMonotone
<1>3. FinalScore(s) = (Raw(s) + 50) \div 100
  BY SMT DEF FinalScore, Raw
<1>4. QED
  BY SMT, <1>2, <1>3

\* However the other stages scored, a higher score of a stage never leads to a weaker
\* routing (aggregator.aggregate: weights, corroboration multiplier and thresholds).
THEOREM RoutingMonotone ==
    ASSUME NEW s \in Vectors, NEW t \in Vectors, \A i \in Weighted : s[i] <= t[i]
    PROVE  Severity(Routing(s)) <= Severity(Routing(t))
<1>1. Raw(s) <= Raw(t)
  BY SMT, RawMonotone
<1>2. FinalScore(s) \in Int /\ FinalScore(t) \in Int /\ FinalScore(s) <= FinalScore(t)
  BY SMT, <1>1, FinalFacts
<1>3. ASSUME NEW u \in Vectors
      PROVE  /\ FinalScore(u) >= 8000 => Severity(Routing(u)) = 2
             /\ FinalScore(u) < 3000 => Severity(Routing(u)) = 0
             /\ ~(FinalScore(u) >= 8000) /\ ~(FinalScore(u) < 3000) => Severity(Routing(u)) = 1
  <2>1. FinalScore(u) \in Int
    BY SMT, FinalFacts
  <2>2. CASE FinalScore(u) >= 8000
    <3>1. ~(FinalScore(u) < 3000)
      BY SMT, <2>1, <2>2
    <3>2. Routing(u) = "BLOCK"
      BY SMT, <2>2, <3>1 DEF Routing
    <3>3. QED
      BY SMT, <2>2, <3>1, <3>2 DEF Severity
  <2>3. CASE FinalScore(u) < 3000
    <3>1. ~(FinalScore(u) >= 8000)
      BY SMT, <2>1, <2>3
    <3>2. Routing(u) = "FAST_PATH"
      BY SMT, <2>3, <3>1 DEF Routing
    <3>3. QED
      BY SMT, <2>3, <3>1, <3>2 DEF Severity
  <2>4. CASE ~(FinalScore(u) >= 8000) /\ ~(FinalScore(u) < 3000)
    <3>1. Routing(u) = "SANDBOX"
      BY SMT, <2>4 DEF Routing
    <3>2. QED
      BY SMT, <2>4, <3>1 DEF Severity
  <2>5. QED
    BY SMT, <2>2, <2>3, <2>4
<1>4. QED
  BY SMT, <1>2, <1>3

\* No stage blocks a call by its weighted score alone: the aggregate reaches the block
\* threshold only if two stages are above 0.5 (the categorical stages apart).
THEOREM BlockTakesTwo ==
    ASSUME NEW s \in Vectors, Routing(s) = "BLOCK"
    PROVE  Corroborated(s)
<1>1. SUFFICES ASSUME ~Corroborated(s) PROVE FinalScore(s) < 8000
  <2>1. FinalScore(s) >= 8000
    BY SMT DEF Routing
  <2>2. QED
    BY SMT, <2>1, FinalFacts
<1>2. /\ s[2] \in Int /\ 0 <= s[2] /\ s[2] <= 10000 /\ s[4] \in Int /\ 0 <= s[4] /\ s[4] <= 10000
      /\ s[5] \in Int /\ 0 <= s[5] /\ s[5] <= 10000 /\ s[7] \in Int /\ 0 <= s[7] /\ s[7] <= 10000
  <2>1. 2 \in Weighted /\ 4 \in Weighted /\ 5 \in Weighted /\ 7 \in Weighted
    BY SMT DEF Weighted
  <2>2. QED
    BY SMT, <2>1, ScoreFacts
<1>3. /\ ~(s[2] > 5000 /\ s[4] > 5000) /\ ~(s[2] > 5000 /\ s[5] > 5000)
      /\ ~(s[2] > 5000 /\ s[7] > 5000) /\ ~(s[4] > 5000 /\ s[5] > 5000)
      /\ ~(s[4] > 5000 /\ s[7] > 5000) /\ ~(s[5] > 5000 /\ s[7] > 5000)
  BY SMT, <1>1 DEF Corroborated, Weighted
<1>4. WeightedSum(s) \in Int /\ WeightedSum(s) <= 675000
  BY SMT, <1>2, <1>3 DEF WeightedSum
<1>5. Raw(s) = WeightedSum(s)
  BY SMT, <1>1 DEF Raw
<1>6. QED
  BY SMT, <1>4, <1>5, FinalFacts

\* Stage 5 on what get_session and get_baseline give when Redis is out: no signal, so 0.
LEMMA NothingRead ==
    ASSUME NEW e
    PROVE  DriftScore(Signals(<<>>, <<>>, e)) = 0
<1>1. PICK none : none = <<>> /\ none \in Seq({}) /\ Len(none) = 0 /\ DOMAIN none = {}
  <2>1. <<>> \in Seq({}) /\ Len(<<>>) = 0
    BY EmptySeq
  <2>2. DOMAIN <<>> = 1..Len(<<>>)
    BY <2>1, LenProperties
  <2>3. 1..0 = {}
    OBVIOUS
  <2>4. QED
    BY Zenon, <2>1, <2>2, <2>3
<1>2. ASSUME NEW n \in Nat \ {0} PROVE LastEvents(none, n) = none
  <2>1. LastEvents(none, n) = SubSeq(none, 1, 0)
    BY <1>1 DEF LastEvents
  <2>2. QED
    BY <1>1, <2>1, SubSeqEmpty
<1>3. Cardinality({}) = 0 /\ IsFiniteSet({})
  BY FS_EmptySet
<1>4. ASSUME NEW tool PROVE Calls(none, tool) = 0
  <2>1. {i \in DOMAIN none : none[i].tool = tool} = {}
    BY <1>1
  <2>2. QED
    BY <1>3, <2>1 DEF Calls
<1>5. LastEvents(none, 10) = none /\ LastEvents(none, 3) = none
  BY <1>2
<1>6. ~FrequencyDrift(none, none, e.tool)
  BY <1>1 DEF FrequencyDrift
<1>7. /\ ~(Calls(none, "read_file") > 0) /\ ~(Calls(none, "web_search") >= 2)
      /\ ~(Calls(none, e.tool) >= 5) /\ ~(Len(none) >= 5)
  <2>1. /\ Calls(none, "read_file") = 0 /\ Calls(none, "web_search") = 0
        /\ Calls(none, e.tool) = 0
    BY <1>4
  <2>2. QED
    BY <1>1, <2>1
<1>8. ~(Cardinality({none[i].raw : i \in {j \in DOMAIN none : none[j].tool = "read_file"}} \cup {e.raw}) >= 3)
  <2>1. {none[i].raw : i \in {j \in DOMAIN none : none[j].tool = "read_file"}} \cup {e.raw} = {e.raw}
    BY <1>1
  <2>2. Cardinality({e.raw}) = 1
    BY FS_Singleton
  <2>3. QED
    BY <2>1, <2>2
<1>9. Signals(none, none, e) = {}
  BY <1>5, <1>6, <1>7, <1>8 DEF Signals
<1>10. DriftScore({}) = 0
  BY <1>3 DEF DriftScore
<1>11. QED
  BY Zenon, <1>1, <1>9, <1>10

\* With the knowledge base and Redis both out, what is left of the aggregate is the signature
\* stage: stage 4 finds nothing or times out, stage 5 reads nothing or times out, and stage 7 fails
\* to zero.  Three neutral scores of 0.5 at most cannot corroborate anything, so the call is on the
\* fast path below a fixed weight of signatures, and where the two fail fast up to 0.8569.
THEOREM OutagesPass ==
    ASSUME NEW s \in Vectors, NEW e,
           s[4] \in {NoHit, RagTimeout}, s[5] \in {DriftScore(Signals(<<>>, <<>>, e)), 5000},
           s[7] = 0
    PROVE  /\ Routing(s) = "FAST_PATH" <=> 35 * s[2] + 30 * s[4] + 20 * s[5] < 299950
           /\ s[4] = NoHit /\ s[5] # 5000 => (Routing(s) = "FAST_PATH" <=> s[2] <= 8569)
<1>1. /\ s[2] \in Int /\ 0 <= s[2] /\ s[2] <= 10000
      /\ s[4] \in {0, 5000} /\ s[5] \in {0, 5000} /\ NoHit = 0
  <2>1. 2 \in Weighted
    BY SMT DEF Weighted
  <2>2. s[2] \in Int /\ 0 <= s[2] /\ s[2] <= 10000
    BY SMT, <2>1, ScoreFacts
  <2>3. QED
    BY <2>2, NothingRead DEF NoHit, RagTimeout
<1>2. WeightedSum(s) = 35 * s[2] + 30 * s[4] + 20 * s[5]
  BY SMT, <1>1 DEF WeightedSum
<1>3. ~Corroborated(s)
  BY SMT, <1>1 DEF Corroborated, Weighted
<1>4. Raw(s) = 35 * s[2] + 30 * s[4] + 20 * s[5]
  BY SMT, <1>2, <1>3 DEF Raw
<1>5. FinalScore(s) \in Int /\ (FinalScore(s) < 3000 <=> Raw(s) < 299950)
  <2>1. FinalScore(s) = (Raw(s) + 50) \div 100 /\ Raw(s) \in Int
    BY FinalFacts
  <2>2. QED
    BY SMT, <2>1
<1>6. Routing(s) = "FAST_PATH" <=> FinalScore(s) < 3000
  <2>1. FinalScore(s) >= 8000 => ~(FinalScore(s) < 3000)
    BY SMT, <1>5
  <2>2. QED
    BY SMT, <2>1 DEF Routing
<1>7. Routing(s) = "FAST_PATH" <=> 35 * s[2] + 30 * s[4] + 20 * s[5] < 299950
  BY <1>4, <1>5, <1>6
<1>8. ASSUME s[4] = NoHit, s[5] # 5000
      PROVE  35 * s[2] + 30 * s[4] + 20 * s[5] < 299950 <=> s[2] <= 8569
  BY SMT, <1>1, <1>8
<1>9. QED
  BY <1>7, <1>8

----------------------------------------------------------------------------
(* The window of a session: the tail of what was appended to it.           *)

LEMMA LastEventsFacts ==
    ASSUME NEW S, NEW s \in Seq(S), NEW n \in Nat
    PROVE  /\ LastEvents(s, n) \in Seq(S)
           /\ Len(LastEvents(s, n)) = IF Len(s) > n THEN n ELSE Len(s)
           /\ \A i \in 1..Len(LastEvents(s, n)) :
                 LastEvents(s, n)[i] = s[i + Len(s) - Len(LastEvents(s, n))]
<1>1. Len(s) \in Nat /\ \A i \in 1..Len(s) : s[i] \in S
  BY ElementOfSeq, LenProperties
<1>a. PICK len \in Nat : len = Len(s)
  BY <1>1
<1>b. PICK m : m = IF len > n THEN len - n + 1 ELSE 1
  OBVIOUS
<1>c. PICK k : k = IF m <= len THEN len - m + 1 ELSE 0
  OBVIOUS
<1>2. /\ m \in Int /\ m >= 1 /\ k \in Nat /\ k = IF len > n THEN n ELSE len
      /\ \A i \in m..len : i \in 1..len
      /\ \A i \in 1..k : i \in 1..(len - m + 1) /\ m + i - 1 = i + len - k
  BY SMT, <1>b, <1>c
<1>3. LastEvents(s, n) = SubSeq(s, m, len)
  BY <1>a, <1>b DEF LastEvents
<1> DEFINE t == SubSeq(s, m, len)
<1>4. t \in Seq(S) /\ Len(t) = k /\ \A i \in 1..(len - m + 1) : t[i] = s[m + i - 1]
  BY <1>1, <1>2, <1>a, <1>c, SubSeqProperties
<1>5. ASSUME NEW i \in 1..k PROVE t[i] = s[i + len - k]
  BY <1>2, <1>4, <1>5
<1>6. QED
  BY <1>2, <1>3, <1>4, <1>5, <1>a

\* Trimming before an append loses nothing that the trimming after it would have kept.
LEMMA TrimmedTwice ==
    ASSUME NEW S, NEW s \in Seq(S), NEW e \in S, NEW n \in Nat
    PROVE  LastEvents(Append(LastEvents(s, n), e), n) = LastEvents(Append(s, e), n)
<1> DEFINE t == LastEvents(s, n)
           u == Append(t, e)
           v == Append(s, e)
<1>1. /\ t \in Seq(S) /\ Len(t) = IF Len(s) > n THEN n ELSE Len(s)
      /\ \A i \in 1..Len(t) : t[i] = s[i + Len(s) - Len(t)]
  BY LastEventsFacts
<1>2. Len(s) \in Nat /\ Len(t) \in Nat
  BY <1>1, LenProperties
<1> HIDE DEF t
<1>3. /\ u \in Seq(S) /\ Len(u) = Len(t) + 1 /\ \A i \in 1..Len(t) : u[i] = t[i]
      /\ u[Len(t) + 1] = e
  BY <1>1, AppendProperties
<1>4. /\ v \in Seq(S) /\ Len(v) = Len(s) + 1 /\ \A i \in 1..Len(s) : v[i] = s[i]
      /\ v[Len(s) + 1] = e
  BY AppendProperties
<1> HIDE DEF u, v
<1>5. /\ LastEvents(u, n) \in Seq(S) /\ Len(LastEvents(u, n)) = IF Len(u) > n THEN n ELSE Len(u)
      /\ \A i \in 1..Len(LastEvents(u, n)) :
            LastEvents(u, n)[i] = u[i + Len(u) - Len(LastEvents(u, n))]
  BY <1>3, LastEventsFacts
<1>6. /\ LastEvents(v, n) \in Seq(S) /\ Len(LastEvents(v, n)) = IF Len(v) > n THEN n ELSE Len(v)
      /\ \A i \in 1..Len(LastEvents(v, n)) :
            LastEvents(v, n)[i] = v[i + Len(v) - Len(LastEvents(v, n))]
  BY <1>4, LastEventsFacts
<1>7. Len(LastEvents(u, n)) = Len(LastEvents(v, n))
  BY SMT, <1>1, <1>2, <1>3, <1>4, <1>5, <1>6
<1>8. ASSUME NEW i \in 1..Len(LastEvents(u, n))
      PROVE  LastEvents(u, n)[i] = LastEvents(v, n)[i]
  <2> DEFINE k == Len(LastEvents(u, n))
             j == i + Len(u) - k
  <2>1. k \in Nat /\ k <= Len(u) /\ j \in 1..(Len(t) + 1)
    BY SMT, <1>2, <1>3, <1>5
  <2>2. i + Len(v) - k = j + Len(s) - Len(t)
    BY SMT, <1>2, <1>3, <1>4, <2>1
  <2>3. LastEvents(u, n)[i] = u[j] /\ LastEvents(v, n)[i] = v[j + Len(s) - Len(t)]
    BY <1>5, <1>6, <1>7, <2>2
  <2> HIDE DEF j, k
  <2>4. CASE j \in 1..Len(t)
    <3>1. j + Len(s) - Len(t) \in 1..Len(s)
      BY <1>1, <1>2, <2>4
    <3>a. u[j] = s[j + Len(s) - Len(t)]
      BY <1>1, <1>3, <2>4
    <3>2. QED
      BY <1>4, <2>3, <3>1, <3>a
  <2>5. CASE j = Len(t) + 1
    <3>1. u[j] = e /\ j + Len(s) - Len(t) = Len(s) + 1
      BY SMT, <1>2, <1>3, <2>5
    <3>2. QED
      BY <1>4, <2>3, <3>1
  <2>6. QED
    BY SMT, <1>2, <2>1, <2>4, <2>5
<1>9. LastEvents(u, n) = LastEvents(v, n)
  BY <1>5, <1>6, <1>7, <1>8, SeqEqual
<1>10. QED
  BY <1>9 DEF t, u, v

\* What LPUSH and LTRIM leave.
LEMMA PushedFacts ==
    ASSUME NEW S, NEW x \in S, NEW list \in Seq(S), NEW max \in Nat \ {0}
    PROVE  /\ Pushed(x, list, max) \in Seq(S)
           /\ Len(list) < max => Len(Pushed(x, list, max)) = Len(list) + 1
           /\ ~(Len(list) < max) => Len(Pushed(x, list, max)) = max
           /\ \A i \in 1..Len(Pushed(x, list, max)) :
                 Pushed(x, list, max)[i] = IF i = 1 THEN x ELSE list[i - 1]
<1>0. Len(list) \in Nat
  BY LenProperties
<1>m. PICK m : m = IF Len(list) < max THEN Len(list) + 1 ELSE max
  OBVIOUS
<1>1. /\ m \in Nat /\ 1 \in Int /\ m \in Int /\ 1 <= m /\ m <= Len(list) + 1
      /\ m - 1 + 1 = m /\ \A i \in 1..m : 1 + i - 1 = i /\ i \in 1..(Len(list) + 1)
  BY SMT, <1>0, <1>m
<1>2. PICK one \in Seq(S) : one = <<x>> /\ Len(one) = 1 /\ one[1] = x
  <2>1. <<x>> \in Seq(S) /\ Len(<<x>>) = 1 /\ <<x>>[1] = x
    OBVIOUS
  <2>2. QED
    BY <2>1
<1>3. /\ one \o list \in Seq(S) /\ Len(one \o list) = 1 + Len(list)
      /\ \A i \in 1..(1 + Len(list)) : (one \o list)[i] = IF i <= 1 THEN one[i] ELSE list[i - 1]
  BY <1>2, ConcatProperties
<1>4. PICK all \in Seq(S) :
          /\ all = one \o list /\ Len(all) = Len(list) + 1
          /\ \A i \in 1..(Len(list) + 1) : all[i] = IF i <= 1 THEN one[i] ELSE list[i - 1]
  <2>1. 1 + Len(list) = Len(list) + 1
    BY <1>0
  <2>2. QED
    BY Zenon, <1>3, <2>1
<1>5. PICK new : /\ new = SubSeq(all, 1, m) /\ new \in Seq(S) /\ Len(new) = m
                 /\ \A i \in 1..m : new[i] = all[i]
  <2>1. \A i \in 1..m : all[i] \in S
    BY <1>0, <1>1, <1>4, ElementOfSeq
  <2>2. PICK new : new = SubSeq(all, 1, m)
    OBVIOUS
  <2>3. /\ new \in Seq(S) /\ Len(new) = IF 1 <= m THEN m - 1 + 1 ELSE 0
        /\ \A i \in 1..(m - 1 + 1) : new[i] = all[1 + i - 1]
    BY <1>1, <2>1, <2>2, SubSeqProperties
  <2>4. Len(new) = m /\ \A i \in 1..m : new[i] = all[i]
    BY <1>1, <2>3
  <2>5. QED
    BY Zenon, <2>2, <2>3, <2>4
<1>6. Pushed(x, list, max) = new
  BY <1>2, <1>4, <1>5, <1>m DEF Pushed
<1>7. \A i \in 1..m : new[i] = IF i = 1 THEN x ELSE list[i - 1]
  BY <1>0, <1>1, <1>2, <1>4, <1>5
<1>8. QED
  BY Zenon, <1>5, <1>6, <1>7, <1>m

LEMMA PushedWithin ==
    ASSUME NEW S, NEW x \in S, NEW list \in Seq(S), NEW max \in Nat \ {0}
    PROVE  Pushed(x, list, max) \in Seq(S) /\ Len(Pushed(x, list, max)) <= max
<1>1. Len(list) \in Nat
  BY LenProperties
<1>2. Pushed(x, list, max) \in Seq(S)
  BY PushedFacts
<1>3. CASE Len(list) < max
  <2>1. Len(Pushed(x, list, max)) = Len(list) + 1
    BY <1>3, PushedFacts
  <2>2. QED
    BY <1>1, <1>2, <1>3, <2>1
<1>4. CASE ~(Len(list) < max)
  <2>1. Len(Pushed(x, list, max)) = max
    BY <1>4, PushedFacts
  <2>2. QED
    BY <1>2, <2>1
<1>5. QED
  BY <1>3, <1>4

LEMMA ExceptType ==
    ASSUME NEW D, NEW R, NEW f \in [D -> R], NEW d \in D, NEW x \in R
    PROVE  [f EXCEPT ![d] = x] \in [D -> R]
OBVIOUS

----------------------------------------------------------------------------
(* What the decision log and an agent's session keep of its verdicts.      *)

Told == [verdict : Verdicts, at : 0..MaxTime]

LEMMA OneMore ==
    ASSUME NEW n \in Nat, NEW i \in 1..n, NEW j \in i..(n + 1)
    PROVE  j # n + 1 => j \in i..n /\ j \in 1..n
OBVIOUS

LEMMA AppendTold ==
    ASSUME NEW all \in Seq(Told), NEW x \in Told
    PROVE  /\ Append(all, x) \in Seq(Told) /\ Len(all) \in Nat
           /\ Len(Append(all, x)) = Len(all) + 1
           /\ \A i \in 1..Len(all) : Append(all, x)[i] = all[i]
           /\ Append(all, x)[Len(all) + 1] = x
           /\ \A i \in 1..Len(all) : all[i] \in Told
BY AppendProperties, LenProperties, ElementOfSeq

\* LPUSH and LTRIM keep the log newest first, as far back as the cap.
LEMMA LogKeeps ==
    ASSUME NEW log \in Seq(Verdicts), NEW all \in Seq(Told), NEW x \in Told,
           NewestFirst(log, all)
    PROVE  NewestFirst(Pushed(x.verdict, log, LogMax), Append(all, x))
<1> DEFINE n == Len(all)
           m == Len(log)
<1>1. PICK more : /\ more = Append(all, x) /\ Len(more) = n + 1 /\ more[n + 1] = x
                  /\ \A i \in 1..n : more[i] = all[i]
  <2>1. /\ Len(Append(all, x)) = n + 1 /\ Append(all, x)[n + 1] = x
        /\ \A i \in 1..n : Append(all, x)[i] = all[i]
    BY AppendTold
  <2>2. QED
    BY Zenon, <2>1
<1>2. LogMax \in Nat \ {0} /\ x.verdict \in Verdicts
  BY ServiceAssumption DEF ServiceAssumption, Told
<1>3. PICK new : /\ new = Pushed(x.verdict, log, LogMax)
                 /\ m < LogMax => Len(new) = m + 1
                 /\ ~(m < LogMax) => Len(new) = LogMax
                 /\ \A i \in 1..Len(new) : new[i] = IF i = 1 THEN x.verdict ELSE log[i - 1]
  <2>1. /\ m < LogMax => Len(Pushed(x.verdict, log, LogMax)) = m + 1
        /\ ~(m < LogMax) => Len(Pushed(x.verdict, log, LogMax)) = LogMax
        /\ \A i \in 1..Len(Pushed(x.verdict, log, LogMax)) :
              Pushed(x.verdict, log, LogMax)[i] = IF i = 1 THEN x.verdict ELSE log[i - 1]
    <3>1. PICK v \in Verdicts : v = x.verdict
      BY <1>2
    <3>2. LogMax \in Nat \ {0}
      BY <1>2
    <3>3. m < LogMax => Len(Pushed(v, log, LogMax)) = m + 1
      BY <3>2, PushedFacts
    <3>4. ~(m < LogMax) => Len(Pushed(v, log, LogMax)) = LogMax
      BY <3>2, PushedFacts
    <3>5. \A i \in 1..Len(Pushed(v, log, LogMax)) :
             Pushed(v, log, LogMax)[i] = IF i = 1 THEN v ELSE log[i - 1]
      BY <3>2, PushedFacts
    <3>6. QED
      BY Zenon, <3>1, <3>3, <3>4, <3>5
  <2>2. QED
    BY Zenon, <2>1
<1>4. n \in Nat /\ m \in Nat
  BY LenProperties
<1>5. m = (IF n < LogMax THEN n ELSE LogMax) /\ \A i \in 1..m : log[i] = all[n + 1 - i].verdict
  BY DEF NewestFirst
<1> HIDE DEF n, m
<1>6. Len(new) = IF n + 1 < LogMax THEN n + 1 ELSE LogMax
  BY <1>2, <1>3, <1>4, <1>5
<1>7. ASSUME NEW i \in 1..Len(new) PROVE new[i] = more[n + 1 + 1 - i].verdict
  <2>1. CASE i = 1
    <3>1. n + 1 + 1 - i = n + 1
      BY <1>4, <2>1
    <3>2. QED
      BY <1>1, <1>3, <2>1, <3>1
  <2>2. CASE i # 1
    <3>1. /\ i - 1 \in 1..m /\ n + 1 - (i - 1) = n + 1 + 1 - i
          /\ n + 1 + 1 - i \in 1..n
      BY <1>2, <1>4, <1>5, <1>6, <2>2
    <3>2. new[i] = log[i - 1] /\ log[i - 1] = all[n + 1 - (i - 1)].verdict
      BY <1>3, <1>5, <2>2, <3>1
    <3>3. QED
      BY <1>1, <3>1, <3>2
  <2>3. QED
    BY <2>1, <2>2
<1>8. Len(more) = n + 1
  BY <1>1
<1>9. NewestFirst(new, more)
  BY <1>6, <1>7, <1>8 DEF NewestFirst
<1>10. QED
  BY Zenon, <1>1, <1>3, <1>9

\* Where nothing was said since, the silence after the last verdict is the only one to grow.
LEMMA SilenceGrows ==
    ASSUME NEW all \in Seq(Told), NEW t \in Nat, NEW i \in 1..Len(all)
    PROVE  /\ Silence(all, i, t) \in Int /\ Silence(all, i, t + 1) \in Int
           /\ Silence(all, i, t + 1) = Silence(all, i, t) + (IF i = Len(all) THEN 1 ELSE 0)
           /\ Silence(all, Len(all), t) = t - all[Len(all)].at
<1>1. PICK n \in Nat : n = Len(all)
  BY LenProperties
<1>2. \A j \in 1..n : all[j].at \in Nat
  <2>1. \A j \in 1..n : all[j] \in Told
    BY Zenon, <1>1, ElementOfSeq
  <2>2. QED
    BY <2>1, ServiceAssumption DEF Told, ServiceAssumption
<1>3. i \in 1..n /\ (i # n => i + 1 \in 1..n)
  BY <1>1
<1>4. /\ Silence(all, i, t) = (IF i = n THEN t ELSE all[i + 1].at) - all[i].at
      /\ Silence(all, i, t + 1) = (IF i = n THEN t + 1 ELSE all[i + 1].at) - all[i].at
      /\ Silence(all, n, t) = t - all[n].at
  BY <1>1 DEF Silence
<1>5. PICK a \in Int, b \in Int, z \in Int :
          /\ a = all[i].at /\ (i # n => b = all[i + 1].at) /\ z = all[n].at /\ (i = n => z = a)
  BY <1>2, <1>3
<1>6. /\ Silence(all, i, t) = (IF i = n THEN t ELSE b) - a
      /\ Silence(all, i, t + 1) = (IF i = n THEN t + 1 ELSE b) - a
      /\ Silence(all, n, t) = t - z
  BY Zenon, <1>4, <1>5
<1>7. /\ Silence(all, i, t) \in Int /\ Silence(all, i, t + 1) \in Int
      /\ Silence(all, i, t + 1) = Silence(all, i, t) + (IF i = n THEN 1 ELSE 0)
  BY <1>6
<1>8. QED
  BY Zenon, <1>1, <1>4, <1>7

\* A verdict stored now ends no silence that the session has not seen the end of.
LEMMA SessionKeeps ==
    ASSUME NEW held \in Seq(Verdicts), NEW all \in Seq(Told), NEW v \in Verdicts,
           NEW t \in 0..MaxTime, SinceSilence(held, all, t)
    PROVE  SinceSilence(Append(held, v), Append(all, [verdict |-> v, at |-> t]), t)
<1>1. PICK x \in Told : x = [verdict |-> v, at |-> t] /\ x.verdict = v /\ x.at = t
  <2>1. [verdict |-> v, at |-> t] \in Told
    BY DEF Told
  <2>2. QED
    BY <2>1
<1>2. PICK n \in Nat : n = Len(all)
  BY LenProperties
<1>3. PICK h \in Nat : h = Len(held)
  BY LenProperties
<1>4. PICK more : /\ more = Append(all, x) /\ Len(more) = n + 1 /\ more[n + 1] = x
                  /\ \A i \in 1..n : more[i] = all[i]
  <2>1. /\ Len(Append(all, x)) = n + 1 /\ Append(all, x)[n + 1] = x
        /\ \A i \in 1..n : Append(all, x)[i] = all[i]
    BY <1>2, AppendTold
  <2>2. QED
    BY Zenon, <2>1
<1>5. PICK holds : /\ holds = Append(held, v) /\ Len(holds) = h + 1 /\ holds[h + 1] = v
                   /\ \A i \in 1..h : holds[i] = held[i]
  <2>1. /\ Len(Append(held, v)) = h + 1 /\ Append(held, v)[h + 1] = v
        /\ \A i \in 1..h : Append(held, v)[i] = held[i]
    BY <1>3, AppendProperties
  <2>2. QED
    BY Zenon, <2>1
<1>6. SessionTTL \in Nat \ {0} /\ t \in Nat /\ \A j \in 1..n : all[j].at \in Nat
  <2>1. \A j \in 1..n : all[j] \in Told
    BY Zenon, <1>2, ElementOfSeq
  <2>2. QED
    BY <2>1, ServiceAssumption DEF Told, ServiceAssumption
<1>7. /\ n - h >= 0 /\ \A i \in 1..h : held[i] = all[n - h + i].verdict
      /\ \A i \in 1..n : i > n - h <=> \A j \in i..n : Silence(all, j, t) < SessionTTL
  BY <1>2, <1>3 DEF SinceSilence
<1>8. Silence(more, n + 1, t) = 0 /\ \A j \in 1..n : Silence(more, j, t) = Silence(all, j, t)
  <2>1. Silence(more, n + 1, t) = t - x.at
    BY <1>4 DEF Silence
  <2>2. ASSUME NEW j \in 1..n PROVE Silence(more, j, t) = Silence(all, j, t)
    <3>1. /\ Silence(more, j, t) = more[j + 1].at - more[j].at
          /\ Silence(all, j, t) = (IF j = n THEN t ELSE all[j + 1].at) - all[j].at
      BY <1>2, <1>4 DEF Silence
    <3>2. more[j + 1].at = IF j = n THEN t ELSE all[j + 1].at
      BY <1>1, <1>4
    <3>3. QED
      BY <1>4, <3>1, <3>2
  <2>3. QED
    BY <1>1, <1>6, <2>1, <2>2
<1>9. ASSUME NEW i \in 1..(n + 1)
      PROVE  i > n - h <=> \A j \in i..(n + 1) : Silence(more, j, t) < SessionTTL
  <2>1. CASE i = n + 1
    BY <1>6, <1>7, <1>8, <2>1
  <2>2. CASE i \in 1..n
    <3>1. \A j \in i..(n + 1) : j # n + 1 => j \in i..n /\ j \in 1..n
      BY Zenon, <2>2, OneMore
    <3>2. \A j \in i..n : j \in i..(n + 1) /\ j \in 1..n
      BY <2>2
    <3>3. 0 < SessionTTL
      BY <1>6
    <3>4. (\A j \in i..(n + 1) : Silence(more, j, t) < SessionTTL)
            <=> \A j \in i..n : Silence(all, j, t) < SessionTTL
      BY Zenon, <1>8, <3>1, <3>2, <3>3
    <3>5. QED
      BY Zenon, <1>7, <2>2, <3>4
  <2>3. QED
    BY <2>1, <2>2
<1>10. ASSUME NEW i \in 1..(h + 1) PROVE holds[i] = more[n - h + i].verdict
  <2>1. CASE i = h + 1
    <3>1. n - h + i = n + 1
      BY <2>1
    <3>2. QED
      BY <1>1, <1>4, <1>5, <2>1, <3>1
  <2>2. CASE i \in 1..h
    <3>1. n - h + i \in 1..n
      BY <1>7, <2>2
    <3>2. QED
      BY <1>4, <1>5, <1>7, <2>2, <3>1
  <2>3. QED
    BY <2>1, <2>2
<1>11. n + 1 - (h + 1) = n - h
  OBVIOUS
<1>12. SinceSilence(holds, more, t)
  <2>1. Len(more) = n + 1 /\ Len(holds) = h + 1
    BY Zenon, <1>4, <1>5
  <2>2. \A a, b : a = n + 1 /\ b = h + 1 => a - b = n - h
    BY <1>11
  <2>3. Len(more) - Len(holds) = n - h
    BY <2>1, <2>2
  <2>4. n - h >= 0
    BY Zenon, <1>7
  <2>5. QED
    BY Zenon, <1>9, <1>10, <2>1, <2>3, <2>4 DEF SinceSilence
<1>13. QED
  BY Zenon, <1>1, <1>4, <1>5, <1>12

\* A second passes: the session is kept while its key has not expired, and gone with it.
LEMMA SessionLasts ==
    ASSUME NEW held \in Seq(Verdicts), NEW all \in Seq(Told), NEW t \in Nat,
           SinceSilence(held, all, t)
    PROVE  /\ held = <<>> \/ (all # <<>> /\ t + 1 < all[Len(all)].at + SessionTTL)
                 => SinceSilence(held, all, t + 1)
           /\ all # <<>> /\ t + 1 = all[Len(all)].at + SessionTTL
                 => SinceSilence(<<>>, all, t + 1)
<1>1. PICK n \in Nat : n = Len(all) /\ (all # <<>> => n > 0)
  BY LenProperties, EmptySeq
<1>2. PICK h \in Nat : h = Len(held) /\ (held = <<>> => h = 0)
  BY LenProperties, EmptySeq
<1>3. SessionTTL \in Nat \ {0} /\ \A j \in 1..n : all[j].at \in Nat
  <2>1. \A j \in 1..n : all[j] \in Told
    BY Zenon, <1>1, ElementOfSeq
  <2>2. QED
    BY <2>1, ServiceAssumption DEF Told, ServiceAssumption
<1>4. /\ n - h >= 0 /\ \A i \in 1..h : held[i] = all[n - h + i].verdict
      /\ \A i \in 1..n : i > n - h <=> \A j \in i..n : Silence(all, j, t) < SessionTTL
  BY <1>1, <1>2 DEF SinceSilence
<1>5. \A i \in 1..n :
         /\ Silence(all, i, t) \in Int
         /\ Silence(all, i, t + 1) = Silence(all, i, t) + (IF i = n THEN 1 ELSE 0)
  BY <1>1, SilenceGrows
<1>6. n > 0 => Silence(all, n, t + 1) = t + 1 - all[n].at
  <2>1. ASSUME n > 0 PROVE Silence(all, n, t) = t - all[n].at
    <3>1. 1 \in 1..n
      BY <2>1
    <3>2. Silence(all, Len(all), t) = t - all[Len(all)].at
      BY Zenon, <1>1, <3>1, SilenceGrows
    <3>3. QED
      BY Zenon, <1>1, <3>2
  <2>2. QED
    BY <1>3, <1>5, <2>1
<1>7. ASSUME held = <<>> \/ (all # <<>> /\ t + 1 < all[n].at + SessionTTL)
      PROVE  SinceSilence(held, all, t + 1)
  <2>1. ASSUME NEW i \in 1..n
        PROVE  i > n - h <=> \A j \in i..n : Silence(all, j, t + 1) < SessionTTL
    <3>1. CASE held = <<>>
      <4>1. PICK j \in i..n : ~(Silence(all, j, t) < SessionTTL)
        BY <1>2, <1>4, <3>1
      <4>2. ~(Silence(all, j, t + 1) < SessionTTL)
        BY <1>3, <1>5, <4>1
      <4>3. ~(i > n - h)
        BY <1>2, <3>1
      <4>4. QED
        BY <4>1, <4>2, <4>3
    <3>2. CASE all # <<>> /\ t + 1 < all[n].at + SessionTTL
      <4>1. n \in 1..n /\ all[n].at \in Nat /\ t + 1 - all[n].at < SessionTTL
        BY <1>1, <1>3, <3>2
      <4>2. Silence(all, n, t + 1) < SessionTTL /\ Silence(all, n, t) < SessionTTL
        <5>1. n > 0
          BY <4>1
        <5>2. Silence(all, n, t + 1) = t + 1 - all[n].at
          BY Zenon, <1>6, <5>1
        <5>3. Silence(all, n, t + 1) < SessionTTL
          BY Zenon, <4>1, <5>2
        <5>4. Silence(all, n, t) \in Int /\ Silence(all, n, t + 1) = Silence(all, n, t) + 1
          BY Zenon, <1>5, <4>1
        <5>5. SessionTTL \in Nat
          BY <1>3
        <5>6. QED
          BY <5>3, <5>4, <5>5
      <4>3. ASSUME NEW j \in i..n
            PROVE  Silence(all, j, t + 1) < SessionTTL <=> Silence(all, j, t) < SessionTTL
        <5>1. CASE j = n
          BY Zenon, <4>2, <5>1
        <5>2. CASE j # n
          <6>1. j \in 1..n
            BY <2>1
          <6>2. Silence(all, j, t) \in Int /\ Silence(all, j, t + 1) = Silence(all, j, t) + 0
            BY Zenon, <1>5, <5>2, <6>1
          <6>3. QED
            BY <6>2
        <5>3. QED
          BY Zenon, <5>1, <5>2
      <4>4. QED
        BY Zenon, <1>4, <4>3
    <3>3. QED
      BY <1>7, <3>1, <3>2
  <2>2. QED
    BY Zenon, <1>1, <1>2, <1>4, <2>1 DEF SinceSilence
<1>8. ASSUME all # <<>>, t + 1 = all[n].at + SessionTTL
      PROVE  SinceSilence(<<>>, all, t + 1)
  <2>1. n \in 1..n /\ ~(Silence(all, n, t + 1) < SessionTTL)
    BY <1>1, <1>3, <1>6, <1>8
  <2>2. ASSUME NEW i \in 1..n
        PROVE  i > n - 0 <=> \A j \in i..n : Silence(all, j, t + 1) < SessionTTL
    <3>1. ~(i > n - 0) /\ n \in i..n
      OBVIOUS
    <3>2. QED
      BY Zenon, <2>1, <3>1
  <2>3. n - 0 >= 0 /\ 1..0 = {}
    OBVIOUS
  <2>4. PICK none \in Seq(Verdicts) : none = <<>> /\ Len(none) = 0
    BY EmptySeq
  <2>5. SinceSilence(none, all, t + 1)
    BY Zenon, <1>1, <2>2, <2>3, <2>4 DEF SinceSilence
  <2>6. QED
    BY Zenon, <2>4, <2>5
<1>9. QED
  BY Zenon, <1>1, <1>7, <1>8

----------------------------------------------------------------------------
(* Types.  TypeOK says nothing of what the sequences hold, and the length  *)
(* of a session follows from the trimming of every append.                 *)

USE ServiceAssumption

Events ==
    [tool : {ToolOf[r] : r \in Requests}, raw : {RawOf[r] : r \in Requests} \cup {""},
     time : 0..MaxTime]

SessionsOK ==
    /\ opened \subseteq Sessions
    /\ session \in [Sessions -> Seq(Events)] /\ ledger \in [Sessions -> Seq(Events)]
    /\ \A s \in Sessions : Len(session[s]) <= SessionWindow

RecordsOK ==
    /\ reply \in [Requests -> Verdicts \cup {"none"}] /\ faults \in 0..MaxFaults
    /\ counters \in [Verdicts -> Nat]
    /\ agentSession \in [Agents -> Seq(Verdicts)] /\ decisions \in [Agents -> Seq(Verdicts)]
    /\ agentExpire \in [Agents -> Nat]
    /\ \A a \in Agents : Len(decisions[a]) <= LogMax
    /\ told \in [Agents -> Seq(Told)]
    /\ SessionsOK

Shape ==
    /\ TypeOK /\ RecordsOK
    /\ arrived \in [Requests -> 0..MaxTime]
    /\ rated \in [Requests -> 0..MaxTime] /\ budgeted \in [Requests -> 0..MaxTime]
    /\ denied \subseteq Requests

LEMMA EventTypes ==
    ASSUME Shape, NEW r \in Requests
    PROVE  /\ DriftEvent(r) \in Events
           /\ arrived' \in [Requests -> 0..MaxTime] => ReplyEvent(r) \in Events
<1>1. now \in 0..MaxTime
  BY DEF Shape, TypeOK
<1>2. QED
  BY <1>1 DEF Shape, Events, DriftEvent, ReplyEvent

LEMMA RecordTypes ==
    ASSUME Shape, NEW s \in Sessions, NEW e \in Events, Record(s, e)
    PROVE  SessionsOK'
<1>1. Append(session[s], e) \in Seq(Events) /\ Append(ledger[s], e) \in Seq(Events)
  BY AppendProperties DEF Shape, RecordsOK, SessionsOK
<1>2. /\ AppendEvent(session[s], e) \in Seq(Events)
      /\ Len(AppendEvent(session[s], e)) <= SessionWindow
  <2>1. SessionWindow \in Nat
    BY DEF SessionWindow
  <2>2. /\ AppendEvent(session[s], e) \in Seq(Events)
        /\ Len(AppendEvent(session[s], e)) = IF Len(Append(session[s], e)) > SessionWindow
                                             THEN SessionWindow ELSE Len(Append(session[s], e))
    BY <1>1, <2>1, LastEventsFacts DEF AppendEvent
  <2>3. Len(Append(session[s], e)) \in Nat
    BY <1>1, LenProperties
  <2>4. QED
    BY <2>1, <2>2, <2>3
<1>3. QED
  BY <1>1, <1>2 DEF Shape, RecordsOK, SessionsOK, Record

\* What a write that fails adds to the faults.
LEMMA WritesFinite ==
    ASSUME NEW r, NEW screened, NEW done \in SUBSET Writes(r, screened)
    PROVE  /\ IsFiniteSet(Writes(r, screened) \ done)
           /\ Cardinality(Writes(r, screened) \ done) \in Nat
           /\ Cardinality(Writes(r, screened) \ done) = 0 => done = Writes(r, screened)
<1> DEFINE All == {"agentSession", "counter", "decision", "stream", "session"}
<1>1. IsFiniteSet({"agentSession"} \cup {"counter"} \cup {"decision"} \cup {"stream"} \cup {"session"})
  BY FS_EmptySet, FS_AddElement, FS_Singleton, FS_Union
<1>2. IsFiniteSet(All)
  <2>1. All = {"agentSession"} \cup {"counter"} \cup {"decision"} \cup {"stream"} \cup {"session"}
    OBVIOUS
  <2>2. QED
    BY <1>1, <2>1
<1>3. Writes(r, screened) \ done \subseteq All
  BY DEF Writes
<1>4. IsFiniteSet(Writes(r, screened) \ done)
  BY <1>2, <1>3, FS_Subset
<1>5. Cardinality(Writes(r, screened) \ done) = 0 => Writes(r, screened) \ done = {}
  BY <1>4, FS_EmptySet
<1>6. QED
  BY <1>4, <1>5, FS_CardinalityType

LEMMA AnswerTypes ==
    ASSUME Shape, NEW r \in Requests, NEW verdict \in Verdicts, NEW screened \in BOOLEAN,
           arrived' \in [Requests -> 0..MaxTime], Answer(r, verdict, screened)
    PROVE  RecordsOK'
<1> DEFINE a == AgentOf[r]
<1>1. reply' \in [Requests -> Verdicts \cup {"none"}]
  BY DEF Shape, TypeOK, Answer
<1>2. PICK done \in SUBSET Writes(r, screened) :
          /\ faults' = faults + Cardinality(Writes(r, screened) \ done)
          /\ faults' <= MaxFaults
          /\ IF "agentSession" \in done THEN StoreAgentSession(a, verdict)
             ELSE UNCHANGED <<agentSession, agentExpire>>
          /\ counters' = IF "counter" \in done
                         THEN [counters EXCEPT ![verdict] = @ + 1] ELSE counters
          /\ decisions' = IF "decision" \in done
                          THEN [decisions EXCEPT ![a] = Pushed(verdict, @, LogMax)] ELSE decisions
          /\ IF "session" \in done THEN Record(SessionOf[r], ReplyEvent(r))
             ELSE UNCHANGED <<session, opened, ledger>>
  BY DEF Answer
<1>3. faults' \in 0..MaxFaults
  <2>1. Cardinality(Writes(r, screened) \ done) \in Nat
    BY WritesFinite
  <2>2. QED
    BY <1>2, <2>1 DEF Shape, TypeOK
<1>4. counters' \in [Verdicts -> Nat]
  BY <1>2 DEF Shape, TypeOK
<1>5. agentSession' \in [Agents -> Seq(Verdicts)] /\ agentExpire' \in [Agents -> Nat]
  <2>1. a \in Agents /\ Append(agentSession[a], verdict) \in Seq(Verdicts)
    BY AppendProperties DEF Shape, RecordsOK
  <2>2. now + SessionTTL \in Nat
    <3>1. now \in Nat
      BY DEF Shape, TypeOK
    <3>2. QED
      BY <3>1
  <2>3. agentSession \in [Agents -> Seq(Verdicts)] /\ agentExpire \in [Agents -> Nat]
    BY DEF Shape, RecordsOK
  <2>4. \/ /\ agentSession' = [agentSession EXCEPT ![a] = Append(agentSession[a], verdict)]
           /\ agentExpire' = [agentExpire EXCEPT ![a] = now + SessionTTL]
        \/ agentSession' = agentSession /\ agentExpire' = agentExpire
    BY <1>2 DEF StoreAgentSession
  <2>5. /\ [agentSession EXCEPT ![a] = Append(agentSession[a], verdict)] \in [Agents -> Seq(Verdicts)]
        /\ [agentExpire EXCEPT ![a] = now + SessionTTL] \in [Agents -> Nat]
    BY Zenon, <2>1, <2>2, <2>3, ExceptType
  <2>6. QED
    BY Zenon, <2>3, <2>4, <2>5
<1>6. decisions' \in [Agents -> Seq(Verdicts)] /\ \A b \in Agents : Len(decisions'[b]) <= LogMax
  <2>1. a \in Agents /\ LogMax \in Nat \ {0} /\ decisions[a] \in Seq(Verdicts)
    BY DEF Shape, RecordsOK
  <2>2. PICK list \in Seq(Verdicts) : list = decisions[a]
    BY <2>1
  <2>3. /\ Pushed(verdict, list, LogMax) \in Seq(Verdicts)
        /\ Len(Pushed(verdict, list, LogMax)) <= LogMax
    BY Zenon, <2>1, PushedWithin
  <2>4. PICK more : more = [decisions EXCEPT ![a] = Pushed(verdict, list, LogMax)]
    OBVIOUS
  <2>5. /\ decisions \in [Agents -> Seq(Verdicts)] /\ \A b \in Agents : Len(decisions[b]) <= LogMax
    BY DEF Shape, RecordsOK
  <2>6. decisions' = more \/ decisions' = decisions
    BY <1>2, <2>2, <2>4
  <2>7. more \in [Agents -> Seq(Verdicts)]
    BY Zenon, <2>1, <2>3, <2>4, <2>5, ExceptType
  <2>8. \A b \in Agents : more[b] = decisions[b] \/ more[b] = Pushed(verdict, list, LogMax)
    BY Zenon, <2>1, <2>4, <2>5
  <2>9. QED
    BY Zenon, <2>3, <2>5, <2>6, <2>7, <2>8
<1>6t. told' \in [Agents -> Seq(Told)]
  <2>1. /\ told' = IF Entry[r] = "execute"
                    THEN [told EXCEPT ![a] = Append(told[a], [verdict |-> verdict, at |-> now])] ELSE told
        /\ a \in Agents /\ told \in [Agents -> Seq(Told)]
    BY DEF Answer, Shape, RecordsOK
  <2>2. [verdict |-> verdict, at |-> now] \in Told
    BY DEF Told, Shape, TypeOK
  <2>3. Append(told[a], [verdict |-> verdict, at |-> now]) \in Seq(Told)
    BY <2>1, <2>2, AppendProperties
  <2>4. QED
    BY <2>1, <2>3
<1>7. SessionsOK'
  <2>1. CASE "session" \in done
    BY <1>2, <2>1, EventTypes, RecordTypes
  <2>2. CASE "session" \notin done
    BY <1>2, <2>2 DEF Shape, RecordsOK, SessionsOK
  <2>3. QED
    BY <2>1, <2>2
<1>8. QED
  BY <1>1, <1>3, <1>4, <1>5, <1>6, <1>6t, <1>7 DEF RecordsOK

\* A usage of more than 85 % of the budget scores between 0 and 1.
LEMMA UsageScore ==
    ASSUME NEW used \in Nat, used <= CallBudget, 100 * used > 85 * CallBudget
    PROVE  (20000 * used) \div CallBudget - 17000 \in Scores
<1>1. CallBudget \in Nat \ {0}
  BY DEF ServiceAssumption
<1>2. PICK q \in Int : q = (20000 * used) \div CallBudget
  BY SMT, <1>1
<1>3. CallBudget * q <= 20000 * used /\ 20000 * used < CallBudget * (q + 1)
  BY SMT, <1>1, <1>2
<1>4. q <= 20000
  <2>1. ~(q >= 20001)
    BY SMT, <1>1, <1>3
  <2>2. QED
    BY SMT, <2>1
<1>5. q >= 17000
  BY SMT, <1>1, <1>3
<1>6. q - 17000 \in Scores
  BY SMT, <1>4, <1>5 DEF Scores
<1>7. QED
  BY <1>2, <1>6

LEMMA BudgetTypes ==
    ASSUME Shape, NEW r \in Requests, NEW failed, NEW over,
           BudgetStage(r, "budget" \in failed, "budget" \in over)
    PROVE  /\ calls' \in [Agents -> Nat] /\ callsExpire' \in [Agents -> Nat]
           /\ usage' \in [Requests -> Scores] /\ budgeted' \in [Requests -> 0..MaxTime]
<1>1. /\ AgentOf[r] \in Agents /\ now \in Nat /\ now \in 0..MaxTime /\ 0 \in 0..MaxTime
      /\ CallBudget \in Nat /\ BudgetWindow \in Nat
  BY DEF Shape, TypeOK, ServiceAssumption
<1>2. PICK used \in Nat : used = calls[AgentOf[r]] + 1
  BY <1>1 DEF Shape, TypeOK
<1>3. calls' \in [Agents -> Nat] /\ callsExpire' \in [Agents -> Nat]
  <2>1. \/ /\ calls' = [calls EXCEPT ![AgentOf[r]] = used]
           /\ callsExpire' = [callsExpire EXCEPT ![AgentOf[r]] = now + BudgetWindow]
        \/ calls' = calls /\ callsExpire' = callsExpire
    BY <1>2 DEF BudgetStage
  <2>2. now + BudgetWindow \in Nat
    BY <1>1
  <2>3. calls \in [Agents -> Nat] /\ callsExpire \in [Agents -> Nat]
    BY DEF Shape, TypeOK
  <2>4. QED
    BY <1>1, <2>1, <2>2, <2>3
<1>4. budgeted' \in [Requests -> 0..MaxTime]
  <2>1. budgeted' = [budgeted EXCEPT ![r] = IF "budget" \in failed \/ "budget" \in over THEN 0 ELSE now]
    BY DEF BudgetStage
  <2>2. QED
    BY <1>1, <2>1 DEF Shape
<1>5. usage' \in [Requests -> Scores]
  <2> DEFINE score == IF "budget" \in failed \/ "budget" \in over \/ 100 * used <= 85 * CallBudget THEN 0
                      ELSE (20000 * used) \div CallBudget - 17000
  <2>1. usage' = [usage EXCEPT ![r] = score]
    BY <1>2 DEF BudgetStage
  <2>2. "budget" \in over <=> "budget" \notin failed /\ used > CallBudget
    BY <1>2 DEF BudgetStage
  <2>3. 0 \in Scores
    BY SMT DEF Scores
  <2>4. CASE "budget" \in failed \/ "budget" \in over \/ 100 * used <= 85 * CallBudget
    <3>1. score = 0
      BY <2>4
    <3>2. QED
      BY <2>1, <2>3, <3>1 DEF Shape, TypeOK
  <2>5. CASE ~("budget" \in failed \/ "budget" \in over \/ 100 * used <= 85 * CallBudget)
    <3>1. used <= CallBudget /\ 100 * used > 85 * CallBudget
      BY <1>1, <2>2, <2>5
    <3>2. score \in Scores
      BY <2>5, <3>1, UsageScore
    <3> HIDE DEF score
    <3>3. QED
      BY <2>1, <3>2 DEF Shape, TypeOK
  <2>6. QED
    BY <2>4, <2>5
<1>6. QED
  BY <1>3, <1>4, <1>5

LEMMA RateTypes ==
    ASSUME Shape, NEW r \in Requests, NEW failed, NEW over,
           RateStage(r, "rate" \in failed, "rate" \in over)
    PROVE  /\ rate' \in [Agents -> SUBSET (Requests \X (1..MaxTime))]
           /\ rated' \in [Requests -> 0..MaxTime]
<1>1. AgentOf[r] \in Agents /\ now \in 1..MaxTime /\ now \in 0..MaxTime /\ 0 \in 0..MaxTime
  BY DEF Shape, TypeOK, ServiceAssumption
<1>2. RateAfter(r) \in SUBSET (Requests \X (1..MaxTime))
  BY <1>1 DEF RateAfter, Shape, TypeOK
<1>3. rate' = rate \/ rate' = [rate EXCEPT ![AgentOf[r]] = RateAfter(r)]
  BY DEF RateStage
<1>4. rated' = [rated EXCEPT ![r] = IF "rate" \in failed \/ "rate" \in over THEN 0 ELSE now]
  BY DEF RateStage
<1>5. /\ rate \in [Agents -> SUBSET (Requests \X (1..MaxTime))]
      /\ rated \in [Requests -> 0..MaxTime]
  BY DEF Shape, TypeOK
<1>6. QED
  BY <1>1, <1>2, <1>3, <1>4, <1>5

LEMMA FaultTypes ==
    ASSUME Shape, NEW n \in Nat, Clean \/ Faults(n)
    PROVE  faults' \in 0..MaxFaults
BY DEF Shape, TypeOK, Clean, Faults, ServiceAssumption

\* What stages 1, 5, 6 and 7 fail at.
LEMMA SomeFail ==
    ASSUME NEW x, NEW y, NEW failed \in SUBSET {x, y}
    PROVE  Cardinality(failed) \in Nat /\ (Cardinality(failed) = 0 => failed = {})
<1>1. IsFiniteSet({x} \cup {y})
  BY FS_Singleton, FS_Union
<1>2. {x, y} = {x} \cup {y}
  OBVIOUS
<1>3. IsFiniteSet(failed)
  BY <1>1, <1>2, FS_Subset
<1>4. QED
  BY <1>3, FS_CardinalityType, FS_EmptySet

LEMMA ArriveTypes ==
    ASSUME Shape, NEW r \in Requests, Arrive(r)
    PROVE  Shape'
<1>1. arrived' \in [Requests -> 0..MaxTime]
  <2>1. now \in 0..MaxTime /\ arrived \in [Requests -> 0..MaxTime]
    BY DEF Shape, TypeOK
  <2>2. QED
    BY <2>1 DEF Arrive
<1>2. pc' \in [Requests -> {"idle", "opening", "gather", "stages", "done"}]
  <2>1. pc \in [Requests -> {"idle", "opening", "gather", "stages", "done"}]
    BY DEF Shape, TypeOK
  <2>2. QED
    BY <2>1 DEF Arrive, Finish
<1>3. /\ UNCHANGED <<now, drift, signals, limits, usage, rate, calls, callsExpire, rated,
                     budgeted, denied>>
  BY DEF Arrive, Untouched, redisVars
<1>4. RecordsOK'
  <2>1. CASE r \in Refused
    <3>1. Answer(r, "BLOCKED", Entry[r] = "triage") /\ "BLOCKED" \in Verdicts
      BY <2>1 DEF Arrive, Verdicts
    <3>2. QED
      BY <1>1, <3>1, AnswerTypes
  <2>2. CASE r \notin Refused
    <3>1. UNCHANGED <<reply, opened, session, agentSession, agentExpire, counters, decisions,
                    ledger, told>>
      BY <2>2 DEF Arrive, redisVars
    <3>2. faults' \in 0..MaxFaults
      BY <2>2, FaultTypes DEF Arrive
    <3>3. QED
      BY <3>1, <3>2 DEF Shape, RecordsOK, SessionsOK
  <2>3. QED
    BY <2>1, <2>2
<1>5. QED
  BY <1>1, <1>2, <1>3, <1>4 DEF Shape, TypeOK, RecordsOK, SessionsOK

LEMMA OpenTypes ==
    ASSUME Shape, NEW r \in Requests, OpenSession(r)
    PROVE  Shape'
<1>1. faults' \in 0..MaxFaults
  BY FaultTypes DEF OpenSession
<1>2. SessionsOK'
  <2>a. SessionOf[r] \in Sessions
    BY DEF ServiceAssumption
  <2>b. Len(<<>>) = 0 /\ <<>> \in Seq(Events)
    BY EmptySeq
  <2>c. 0 <= SessionWindow
    BY DEF SessionWindow
  <2>1. PICK empty \in Seq(Events) : empty = <<>> /\ Len(empty) <= SessionWindow
    BY Zenon, <2>b, <2>c
  <2>2. /\ UNCHANGED ledger
        /\ session' = [session EXCEPT ![SessionOf[r]] = empty] \/ session' = session
        /\ opened' = opened \cup {SessionOf[r]} \/ opened' = opened
    BY <2>1 DEF OpenSession
  <2>3. SessionsOK
    BY DEF Shape, RecordsOK
  <2>4. /\ session \in [Sessions -> Seq(Events)] /\ \A s \in Sessions : Len(session[s]) <= SessionWindow
        /\ ledger \in [Sessions -> Seq(Events)] /\ opened \subseteq Sessions
    BY <2>3 DEF SessionsOK
  <2>5. \A s \in Sessions : session'[s] = session[s] \/ session'[s] = empty
    BY <2>a, <2>2, <2>4
  <2>6. /\ session' \in [Sessions -> Seq(Events)] /\ ledger' \in [Sessions -> Seq(Events)]
        /\ opened' \subseteq Sessions
    <3>1. session' \in [Sessions -> Seq(Events)]
      BY <2>a, <2>2, <2>4
    <3>2. ledger' \in [Sessions -> Seq(Events)] /\ opened' \subseteq Sessions
      BY <2>a, <2>2, <2>4
    <3>3. QED
      BY <3>1, <3>2
  <2>7. ASSUME NEW s \in Sessions
        PROVE  Len(session'[s]) <= SessionWindow
    <3>1. CASE session'[s] = session[s]
      BY Zenon, <3>1, <2>4
    <3>2. CASE session'[s] = empty
      BY Zenon, <3>2, <2>1
    <3>3. QED
      BY <2>5, <3>1, <3>2
  <2>8. QED
    BY <2>6, <2>7 DEF SessionsOK
<1>3. pc' \in [Requests -> {"idle", "opening", "gather", "stages", "done"}]
  <2>1. pc \in [Requests -> {"idle", "opening", "gather", "stages", "done"}]
    BY DEF Shape, TypeOK
  <2>2. QED
    BY <2>1 DEF OpenSession
<1>4. UNCHANGED <<now, drift, arrived, signals, limits, usage, reply, rate, calls,
                  callsExpire, agentSession, agentExpire, counters, decisions, rated, budgeted,
                  denied, told>>
  BY DEF OpenSession
<1>5. QED
  BY <1>1, <1>2, <1>3, <1>4 DEF Shape, TypeOK, RecordsOK, SessionsOK

LEMMA GatherTypes ==
    ASSUME Shape, NEW r \in Requests, Gather(r)
    PROVE  Shape'
<1>1. PICK failed \in SUBSET {"rate", "budget"}, over \in SUBSET {"rate", "budget"} :
          /\ IF failed = {} THEN Clean ELSE Faults(Cardinality(failed))
          /\ RateStage(r, "rate" \in failed, "rate" \in over)
          /\ BudgetStage(r, "budget" \in failed, "budget" \in over)
          /\ limits' = [limits EXCEPT ![r] = over]
  BY DEF Gather
<1>2. faults' \in 0..MaxFaults
  BY <1>1, SomeFail, FaultTypes
<1>3. /\ rate' \in [Agents -> SUBSET (Requests \X (1..MaxTime))]
      /\ rated' \in [Requests -> 0..MaxTime]
  BY <1>1, RateTypes
<1>4. /\ calls' \in [Agents -> Nat] /\ callsExpire' \in [Agents -> Nat]
      /\ usage' \in [Requests -> Scores] /\ budgeted' \in [Requests -> 0..MaxTime]
  BY <1>1, BudgetTypes
<1>5. /\ limits' \in [Requests -> SUBSET {"rate", "budget"}]
      /\ pc' \in [Requests -> {"idle", "opening", "gather", "stages", "done"}]
      /\ drift' \in [Requests -> {"none", "reading", "read", "scored", "timeout"}]
  <2>1. /\ pc \in [Requests -> {"idle", "opening", "gather", "stages", "done"}]
        /\ drift \in [Requests -> {"none", "reading", "read", "scored", "timeout"}]
        /\ limits \in [Requests -> SUBSET {"rate", "budget"}]
    BY DEF Shape, TypeOK
  <2>2. QED
    BY <1>1, <2>1 DEF Gather
<1>6. UNCHANGED <<now, arrived, signals, reply, opened, session, agentSession, agentExpire,
                  counters, decisions, ledger, denied, told>>
  BY DEF Gather
<1>7. QED
  BY <1>2, <1>3, <1>4, <1>5, <1>6 DEF Shape, TypeOK, RecordsOK, SessionsOK

LEMMA DriftTypes ==
    ASSUME Shape, NEW r \in Requests, ReadSession(r) \/ DriftTimeout(r) \/ AppendDrift(r)
    PROVE  Shape'
<1>1. drift' \in [Requests -> {"none", "reading", "read", "scored", "timeout"}]
  <2>1. drift \in [Requests -> {"none", "reading", "read", "scored", "timeout"}]
    BY DEF Shape, TypeOK
  <2>2. QED
    BY <2>1 DEF ReadSession, DriftTimeout, AppendDrift
<1>2. UNCHANGED <<now, pc, arrived, limits, usage, reply, rate, calls, callsExpire,
                  agentSession, agentExpire, counters, decisions, rated, budgeted, denied, told>>
  BY DEF DriftOnly, ReadSession, DriftTimeout, AppendDrift
<1>3. faults' \in 0..MaxFaults /\ signals' \in [Requests -> SUBSET DOMAIN SignalScore] /\ SessionsOK'
  <2>1. CASE ReadSession(r)
    <3>1. faults' \in 0..MaxFaults
      BY <2>1, SomeFail, FaultTypes DEF ReadSession
    <3>2. \A s, b, e : Signals(s, b, e) \in SUBSET DOMAIN SignalScore
      BY DEF Signals, SignalScore
    <3>3. \E x \in SUBSET DOMAIN SignalScore : signals' = [signals EXCEPT ![r] = x]
      BY <2>1, <3>2 DEF ReadSession
    <3>4. signals \in [Requests -> SUBSET DOMAIN SignalScore]
      BY DEF Shape, TypeOK
    <3>5. UNCHANGED <<opened, session, ledger>>
      BY <2>1 DEF ReadSession
    <3>6. QED
      BY <3>1, <3>3, <3>4, <3>5 DEF Shape, RecordsOK, SessionsOK
  <2>2. CASE DriftTimeout(r)
    <3>1. UNCHANGED <<faults, opened, session, ledger>> /\ signals' = [signals EXCEPT ![r] = {}]
      BY <2>2 DEF DriftTimeout
    <3>2. QED
      BY <3>1 DEF Shape, TypeOK, RecordsOK, SessionsOK
  <2>3. CASE AppendDrift(r)
    <3>1. faults' \in 0..MaxFaults /\ UNCHANGED signals
      BY <2>3, FaultTypes DEF AppendDrift
    <3>2. SessionsOK'
      <4>1. \/ Record(SessionOf[r], DriftEvent(r))
            \/ UNCHANGED <<opened, session, ledger>>
        BY <2>3 DEF AppendDrift
      <4>2. SessionOf[r] \in Sessions /\ DriftEvent(r) \in Events
        BY EventTypes
      <4>3. QED
        BY <4>1, <4>2, RecordTypes DEF Shape, RecordsOK, SessionsOK
    <3>3. QED
      BY <3>1, <3>2 DEF Shape, TypeOK
  <2>4. QED
    BY <2>1, <2>2, <2>3
<1>4. QED
  BY <1>1, <1>2, <1>3 DEF Shape, TypeOK, RecordsOK, SessionsOK

\* What a conclusion leaves alone, the answer it gives, and what it may not answer.
LEMMA ConcludeFacts ==
    ASSUME NEW r \in Requests, Conclude(r)
    PROVE  /\ pc' = [pc EXCEPT ![r] = "done"]
           /\ UNCHANGED <<now, drift, arrived, signals, limits, usage, rate, calls, callsExpire,
                          rated, budgeted>>
           /\ \E verdict \in Verdicts :
                 /\ Answer(r, verdict, TRUE)
                 /\ limits[r] # {} => verdict = "BLOCKED"
                 /\ \/ denied' = denied
                    \/ /\ denied' = denied \cup {r}
                       /\ Entry[r] = "execute" => verdict = "BLOCKED"
<1>1. PICK deny \in {Denies(policy) : policy \in PolicyReplies} :
          /\ \E verdict \in {v \in Verdicts : \E sig \in SigScores, rag \in RagScores :
                                                v = FinalVerdict(r, sig, rag, deny)} :
                Answer(r, verdict, TRUE)
          /\ denied' = IF deny THEN denied \cup {r} ELSE denied
  BY DEF Conclude
<1>2. PICK verdict \in Verdicts : /\ \E sig \in SigScores, rag \in RagScores :
                                         verdict = FinalVerdict(r, sig, rag, deny)
                                  /\ Answer(r, verdict, TRUE)
  BY <1>1
<1>3. PICK sig \in SigScores, rag \in RagScores : verdict = FinalVerdict(r, sig, rag, deny)
  BY <1>2
<1>4. limits[r] # {} \/ InstantKill(sig) => PipelineVerdict(r, sig, rag) = "BLOCKED"
  BY DEF PipelineVerdict
<1>5. limits[r] # {} => verdict = "BLOCKED"
  BY <1>3, <1>4 DEF FinalVerdict
<1>6. deny /\ Entry[r] = "execute" => verdict = "BLOCKED"
  BY <1>3, <1>4 DEF FinalVerdict
<1>7. \/ denied' = denied
      \/ denied' = denied \cup {r} /\ (Entry[r] = "execute" => verdict = "BLOCKED")
  BY <1>1, <1>6
<1>8. QED
  BY <1>2, <1>5, <1>7 DEF Conclude, Finish, Untouched

LEMMA ConcludeTypes ==
    ASSUME Shape, NEW r \in Requests, Conclude(r)
    PROVE  Shape'
<1>1. RecordsOK'
  <2>1. PICK verdict \in Verdicts : Answer(r, verdict, TRUE)
    BY ConcludeFacts
  <2>2. arrived' \in [Requests -> 0..MaxTime]
    BY ConcludeFacts DEF Shape
  <2>3. QED
    BY <2>1, <2>2, AnswerTypes
<1>2. /\ pc' \in [Requests -> {"idle", "opening", "gather", "stages", "done"}]
      /\ denied' \subseteq Requests
  <2>1. pc \in [Requests -> {"idle", "opening", "gather", "stages", "done"}]
    BY DEF Shape, TypeOK
  <2>2. QED
    BY <2>1, ConcludeFacts DEF Shape
<1>3. UNCHANGED <<now, drift, arrived, signals, limits, usage, rate, calls, callsExpire, rated,
                  budgeted>>
  BY ConcludeFacts
<1>4. QED
  BY <1>1, <1>2, <1>3 DEF Shape, TypeOK, RecordsOK, SessionsOK

LEMMA ClockTypes ==
    ASSUME Shape, Tick
    PROVE  Shape'
<1>1. now' \in 1..MaxTime
  BY DEF Shape, TypeOK, Tick
<1>2. calls' \in [Agents -> Nat] /\ callsExpire' \in [Agents -> Nat]
  <2>1. PICK t \in Int : t = now'
    BY <1>1
  <2>2. /\ calls' = [a \in Agents |-> IF callsExpire[a] = t THEN 0 ELSE calls[a]]
        /\ callsExpire' = [a \in Agents |-> IF callsExpire[a] = t THEN 0 ELSE callsExpire[a]]
    BY <2>1 DEF Tick
  <2>3. calls \in [Agents -> Nat] /\ callsExpire \in [Agents -> Nat]
    BY DEF Shape, TypeOK
  <2>4. QED
    BY <2>2, <2>3
<1>2a. agentSession' \in [Agents -> Seq(Verdicts)] /\ agentExpire' \in [Agents -> Nat]
  <2>1. PICK t \in Int : t = now'
    BY <1>1
  <2>2. PICK none \in Seq(Verdicts) : none = <<>>
    BY EmptySeq
  <2>3. /\ agentSession' = [a \in Agents |-> IF agentExpire[a] = t THEN none ELSE agentSession[a]]
        /\ agentExpire' = [a \in Agents |-> IF agentExpire[a] = t THEN 0 ELSE agentExpire[a]]
    BY <2>1, <2>2 DEF Tick
  <2>4. agentSession \in [Agents -> Seq(Verdicts)] /\ agentExpire \in [Agents -> Nat]
    BY DEF Shape, RecordsOK
  <2>5. QED
    BY <2>3, <2>4
<1>3. UNCHANGED <<faults, pc, drift, arrived, signals, limits, usage, reply, opened, session,
                  rate, counters, decisions, ledger, rated, budgeted, denied, told>>
  BY DEF Tick, history
<1>4. \A a \in Agents : agentSession'[a] \in Seq(Verdicts)
  BY <1>2a
<1>5. TypeOK'
  BY <1>1, <1>2, <1>2a, <1>3, <1>4 DEF Shape, TypeOK, RecordsOK
<1>6. QED
  BY <1>1, <1>2a, <1>3, <1>5 DEF Shape, RecordsOK, SessionsOK

LEMMA ShapeInvariant == Spec => []Shape
<1>1. Init => Shape
  <2>1. Init => TypeOK
    <3>1. 0 \in Scores /\ 0 <= SessionWindow
      BY SMT DEF Scores, SessionWindow
    <3>2. QED
      BY <3>1 DEF Init, TypeOK, Per
  <2>2. Init => RecordsOK
    BY DEF Init, RecordsOK, SessionsOK, Per, SessionWindow
  <2>3. QED
    BY <2>1, <2>2 DEF Init, Shape, Per
<1>2. Shape /\ [Next]_vars => Shape'
  <2> SUFFICES ASSUME Shape, [Next]_vars PROVE Shape'
    OBVIOUS
  <2>1. ASSUME NEW r \in Requests, Serve(r) PROVE Shape'
    BY <2>1, ArriveTypes, OpenTypes, GatherTypes, DriftTypes, ConcludeTypes DEF Serve
  <2>2. CASE Tick
    BY <2>2, ClockTypes
  <2>3. CASE UNCHANGED vars
    BY <2>3 DEF Shape, TypeOK, RecordsOK, SessionsOK, vars, redisVars, history
  <2>4. QED
    BY <2>1, <2>2, <2>3 DEF Next, Quiet
<1>3. QED
  BY <1>1, <1>2, PTL DEF Spec

\* Every variable of the triage service keeps its type, the scores their range and a session
\* its length, in every reachable state.
THEOREM TypeCorrect == Spec => []TypeOK
BY ShapeInvariant, PTL DEF Shape

----------------------------------------------------------------------------
(* The categorical blocks.  That a request is blocked is decided at its    *)
(* conclusion, for good: nobody is denied before, or concluded twice.      *)

HardInv ==
    /\ \A r \in denied : pc[r] = "done"
    /\ HardBlocks

\* A step of one request leaves the others, the clock and the answered ones as they are.
LEMMA ServeMoves ==
    ASSUME Shape, NEW r \in Requests, Serve(r)
    PROVE  /\ now' = now
           /\ \A q \in Requests : q # r => pc'[q] = pc[q]
           /\ pc[r] = "done" => pc' = pc
<1>1. pc \in [Requests -> {"idle", "opening", "gather", "stages", "done"}]
  BY DEF Shape, TypeOK
<1>2. CASE ReadSession(r) \/ DriftTimeout(r) \/ AppendDrift(r)
  BY <1>2 DEF ReadSession, DriftTimeout, AppendDrift, DriftOnly
<1>3. CASE Arrive(r) \/ OpenSession(r) \/ Gather(r) \/ Conclude(r)
  BY <1>1, <1>3 DEF Arrive, OpenSession, Gather, Conclude, Finish, Untouched
<1>4. QED
  BY <1>2, <1>3 DEF Serve

\* Only a refusal at arrival and a conclusion answer, and only their own request.
LEMMA ServeAnswers ==
    ASSUME Shape, NEW r \in Requests, Serve(r)
    PROVE  \/ UNCHANGED <<reply, denied>> /\ pc'[r] # "done"
           \/ UNCHANGED <<reply, denied, pc, limits>>
           \/ /\ Arrive(r) /\ r \in Refused /\ pc[r] = "idle" /\ pc'[r] = "done"
              /\ UNCHANGED <<limits, denied>> /\ reply' = [reply EXCEPT ![r] = "BLOCKED"]
           \/ Conclude(r)
<1>1. pc \in [Requests -> {"idle", "opening", "gather", "stages", "done"}]
  BY DEF Shape, TypeOK
<1>2. CASE ReadSession(r) \/ DriftTimeout(r) \/ AppendDrift(r)
  BY <1>2 DEF ReadSession, DriftTimeout, AppendDrift, DriftOnly
<1>3. CASE OpenSession(r) \/ Gather(r)
  BY <1>1, <1>3 DEF OpenSession, Gather
<1>4. CASE Arrive(r)
  BY <1>1, <1>4 DEF Arrive, Finish, Untouched, Answer
<1>5. QED
  BY <1>2, <1>3, <1>4 DEF Serve

LEMMA HardInvariant == Spec => []HardInv
<1>1. Init => HardInv
  BY DEF Init, HardInv, HardBlocks, Per
<1>2. Shape /\ HardInv /\ [Next]_vars => HardInv'
  <2> SUFFICES ASSUME Shape, HardInv, [Next]_vars PROVE HardInv'
    OBVIOUS
  <2>1. ASSUME NEW r \in Requests, Serve(r) PROVE HardInv'
    <3>0. /\ pc \in [Requests -> {"idle", "opening", "gather", "stages", "done"}]
          /\ limits \in [Requests -> SUBSET {"rate", "budget"}]
          /\ reply \in [Requests -> Verdicts \cup {"none"}]
          /\ denied \subseteq Requests
      BY DEF Shape, TypeOK
    <3>m. /\ \A q \in Requests : q # r => pc'[q] = pc[q]
          /\ pc[r] = "done" => pc' = pc
      BY <2>1, ServeMoves
    <3>1. CASE UNCHANGED <<reply, denied>> /\ pc'[r] # "done"
      <4>1. \A q \in Requests : q # r => limits'[q] = limits[q]
        BY <2>1, <3>0 DEF Serve, Arrive, Untouched, OpenSession, Gather, ReadSession,
             DriftTimeout, AppendDrift, DriftOnly, Conclude
      <4>2. QED
        BY <3>0, <3>1, <3>m, <4>1 DEF HardInv, HardBlocks
    <3>2. CASE UNCHANGED <<reply, denied, pc, limits>>
      BY <3>2 DEF HardInv, HardBlocks
    <3>3. CASE /\ Arrive(r) /\ r \in Refused /\ pc[r] = "idle" /\ pc'[r] = "done"
               /\ UNCHANGED <<limits, denied>> /\ reply' = [reply EXCEPT ![r] = "BLOCKED"]
      BY <3>0, <3>3, <3>m DEF HardInv, HardBlocks
    <3>4. CASE Conclude(r)
      <4>1. PICK verdict \in Verdicts :
                 /\ Answer(r, verdict, TRUE)
                 /\ limits[r] # {} => verdict = "BLOCKED"
                 /\ \/ denied' = denied
                    \/ /\ denied' = denied \cup {r}
                       /\ Entry[r] = "execute" => verdict = "BLOCKED"
        BY <3>4, ConcludeFacts
      <4>2. /\ pc' = [pc EXCEPT ![r] = "done"] /\ limits' = limits
            /\ reply' = [reply EXCEPT ![r] = verdict]
        BY <3>4, <4>1, ConcludeFacts DEF Answer
      <4>3. pc[r] = "stages"
        BY <3>4 DEF Conclude
      <4>4. r \notin denied
        BY <4>3 DEF HardInv
      <4>5. QED
        BY <3>0, <4>1, <4>2, <4>4 DEF HardInv, HardBlocks
    <3>5. QED
      BY <2>1, <3>1, <3>2, <3>3, <3>4, ServeAnswers
  <2>2. CASE Tick
    BY <2>2 DEF HardInv, HardBlocks, Tick, history
  <2>3. CASE UNCHANGED vars
    BY <2>3 DEF HardInv, HardBlocks, vars, redisVars, history
  <2>4. QED
    BY <2>1, <2>2, <2>3 DEF Next, Quiet
<1>3. QED
  BY <1>1, <1>2, ShapeInvariant, PTL DEF Spec

\* A request that exceeded the rate or the budget, and one of /execute that OPA denied, is
\* answered BLOCKED, whatever the other stages scored, timed out on or failed at.
THEOREM AlwaysBlocked == Spec => []HardBlocks
BY HardInvariant, PTL DEF HardInv

----------------------------------------------------------------------------
(* Stage 6.  RateBound says nothing of Redis: RateInv adds that what was   *)
(* let pass within the last window is still a member of the agent's set,   *)
(* so that ZCARD counts it again for the next request.                     *)

Pending == {"idle", "opening", "gather"}

\* What stage 6 let pass, of one agent, in the window that ends at t.
Rated(a, t) ==
    {r \in Requests : /\ AgentOf[r] = a
                      /\ t - RateWindow < rated[r] /\ rated[r] <= t /\ rated[r] > 0}

RateInv ==
    /\ \A r \in Requests : rated[r] <= now /\ (pc[r] \in Pending => rated[r] = 0)
    /\ \A r \in Requests : rated[r] > 0 /\ now - RateWindow < rated[r]
                           => <<r, rated[r]>> \in rate[AgentOf[r]]
    /\ \A a \in Agents : IsFiniteSet(rate[a]) /\ IsFiniteSet({r \in Requests : AgentOf[r] = a /\ rated[r] > 0})
    /\ \A a \in Agents : \A t \in 1..now : Cardinality(Rated(a, t)) <= RateLimit

\* The other steps leave stage 6 alone, and no request goes back before it.
LEMMA RateUntouched ==
    ASSUME Shape, NEW r \in Requests, Serve(r), ~Gather(r)
    PROVE  /\ UNCHANGED <<now, rate, rated>>
           /\ \A q \in Requests : pc'[q] \in Pending => pc[q] \in Pending
<1>1. pc \in [Requests -> {"idle", "opening", "gather", "stages", "done"}]
  BY DEF Shape, TypeOK
<1>2. CASE ReadSession(r) \/ DriftTimeout(r) \/ AppendDrift(r)
  BY <1>2 DEF ReadSession, DriftTimeout, AppendDrift, DriftOnly
<1>3. CASE Arrive(r) \/ OpenSession(r) \/ Conclude(r)
  BY <1>1, <1>3 DEF Arrive, OpenSession, Conclude, Finish, Untouched, Pending, redisVars
<1>4. QED
  BY <1>2, <1>3 DEF Serve

\* The requests counted are no more than the members of the set.
LEMMA MembersCount ==
    ASSUME NEW S \in SUBSET Requests, NEW f, NEW M, IsFiniteSet(M),
           \A q \in S : <<q, f[q]>> \in M
    PROVE  IsFiniteSet(S) /\ Cardinality(S) \in Nat /\ Cardinality(S) <= Cardinality(M)
<1> DEFINE g == [q \in S |-> <<q, f[q]>>]
<1>1. g \in Injection(S, M)
  BY DEF Injection, IsInjective
<1>2. IsFiniteSet(S) /\ Cardinality(S) <= Cardinality(M)
  BY <1>1, FS_Injection
<1>3. QED
  BY <1>2, FS_CardinalityType

\* What one run of stage 6 does to the history and to the set.
LEMMA RateMoves ==
    ASSUME Shape, RateInv, NEW r \in Requests, Gather(r)
    PROVE  /\ now' = now /\ rated[r] = 0 /\ pc'[r] = "stages"
           /\ \A q \in Requests : q # r => pc'[q] = pc[q] /\ rated'[q] = rated[q]
           /\ \A a \in Agents : a # AgentOf[r] => rate'[a] = rate[a]
           /\ \/ rated'[r] = 0 /\ (rate' = rate \/ rate'[AgentOf[r]] = RateAfter(r))
              \/ /\ rated'[r] = now /\ rate'[AgentOf[r]] = RateAfter(r)
                 /\ ~(Cardinality(RateAfter(r)) > RateLimit)
<1>1. PICK failed \in SUBSET {"rate", "budget"}, over \in SUBSET {"rate", "budget"} :
          RateStage(r, "rate" \in failed, "rate" \in over)
  BY DEF Gather
<1>2. /\ "rate" \in over <=> "rate" \notin failed /\ Cardinality(RateAfter(r)) > RateLimit
      /\ \/ rate' = [rate EXCEPT ![AgentOf[r]] = RateAfter(r)]
         \/ "rate" \in failed /\ rate' = rate
      /\ rated' = [rated EXCEPT ![r] = IF "rate" \in failed \/ "rate" \in over THEN 0 ELSE now]
  BY <1>1 DEF RateStage
<1>3. /\ rate \in [Agents -> SUBSET (Requests \X (1..MaxTime))] /\ AgentOf[r] \in Agents
      /\ rated \in [Requests -> 0..MaxTime]
      /\ pc \in [Requests -> {"idle", "opening", "gather", "stages", "done"}]
  BY DEF Shape, TypeOK, ServiceAssumption
<1>4. now' = now /\ pc' = [pc EXCEPT ![r] = "stages"] /\ rated[r] = 0
  BY DEF Gather, RateInv, Pending
<1>5. \A a \in Agents : a # AgentOf[r] => rate'[a] = rate[a]
  BY <1>2, <1>3
<1>6. \A q \in Requests : q # r => rated'[q] = rated[q]
  BY <1>2, <1>3
<1>7. \/ rated'[r] = 0 /\ (rate' = rate \/ rate'[AgentOf[r]] = RateAfter(r))
      \/ /\ rated'[r] = now /\ rate'[AgentOf[r]] = RateAfter(r)
         /\ ~(Cardinality(RateAfter(r)) > RateLimit)
  <2>1. CASE "rate" \in failed \/ "rate" \in over
    BY <1>2, <1>3, <2>1
  <2>2. CASE ~("rate" \in failed \/ "rate" \in over)
    BY <1>2, <1>3, <2>2
  <2>3. QED
    BY <2>1, <2>2
<1>8. QED
  BY <1>3, <1>4, <1>5, <1>6, <1>7

LEMMA GatherRate ==
    ASSUME Shape, RateInv, NEW r \in Requests, Gather(r)
    PROVE  RateInv'
<1> DEFINE a0 == AgentOf[r]
<1>1. /\ now' = now /\ rated[r] = 0 /\ pc'[r] = "stages"
      /\ \A q \in Requests : q # r => pc'[q] = pc[q] /\ rated'[q] = rated[q]
      /\ \A a \in Agents : a # a0 => rate'[a] = rate[a]
      /\ \/ rated'[r] = 0 /\ (rate' = rate \/ rate'[a0] = RateAfter(r))
         \/ /\ rated'[r] = now /\ rate'[a0] = RateAfter(r)
            /\ ~(Cardinality(RateAfter(r)) > RateLimit)
  BY RateMoves
<1>2. /\ now \in Nat /\ now >= 1 /\ a0 \in Agents /\ AgentOf \in [Requests -> Agents]
      /\ \A q \in Requests : rated[q] \in Nat
      /\ RateWindow \in Nat \ {0} /\ RateLimit \in Nat
  BY DEF Shape, TypeOK, ServiceAssumption
<1>3. RateAfter(r) = {e \in rate[a0] : e[2] > now - RateWindow} \cup {<<r, now>>}
  BY DEF RateAfter
<1>4. IsFiniteSet(RateAfter(r))
  <2> DEFINE M == {e \in rate[a0] : e[2] > now - RateWindow}
  <2>1. IsFiniteSet(M)
    BY <1>2, FS_Subset DEF RateInv
  <2>2. RateAfter(r) = M \cup {<<r, now>>}
    BY <1>3
  <2> HIDE DEF M
  <2>3. IsFiniteSet(M \cup {<<r, now>>})
    BY <2>1, FS_AddElement
  <2>4. QED
    BY <2>2, <2>3
<1>5. \A q \in Requests : rated'[q] <= now' /\ (pc'[q] \in Pending => rated'[q] = 0)
  BY <1>1, <1>2 DEF RateInv, Pending
<1>6. ASSUME NEW q \in Requests, rated'[q] > 0, now' - RateWindow < rated'[q]
      PROVE  <<q, rated'[q]>> \in rate'[AgentOf[q]]
  <2>1. CASE q = r
    BY <1>1, <1>2, <1>3, <1>6, <2>1
  <2>2. CASE q # r
    <3>1. <<q, rated[q]>> \in rate[AgentOf[q]]
      BY <1>1, <1>6, <2>2 DEF RateInv
    <3>2. rated[q] > now - RateWindow
      BY <1>1, <1>2, <1>6, <2>2
    <3>3. CASE AgentOf[q] = a0
      BY <1>1, <1>3, <2>2, <3>1, <3>2, <3>3
    <3>4. CASE AgentOf[q] # a0
      BY <1>1, <1>2, <2>2, <3>1, <3>4
    <3>5. QED
      BY <3>3, <3>4
  <2>3. QED
    BY <2>1, <2>2
<1>7. ASSUME NEW a \in Agents
      PROVE  /\ IsFiniteSet(rate'[a])
             /\ IsFiniteSet({q \in Requests : AgentOf[q] = a /\ rated'[q] > 0})
  <2>1. IsFiniteSet(rate[a]) /\ IsFiniteSet({q \in Requests : AgentOf[q] = a /\ rated[q] > 0})
    BY DEF RateInv
  <2>2. IsFiniteSet(rate'[a])
    <3>1. rate'[a] = rate[a] \/ rate'[a] = RateAfter(r)
      BY <1>1
    <3>2. QED
      BY <1>4, <2>1, <3>1
  <2>3. {q \in Requests : AgentOf[q] = a /\ rated'[q] > 0}
            \subseteq {q \in Requests : AgentOf[q] = a /\ rated[q] > 0} \cup {r}
    BY <1>1
  <2>4. IsFiniteSet({q \in Requests : AgentOf[q] = a /\ rated[q] > 0} \cup {r})
    BY <2>1, FS_AddElement
  <2>5. QED
    BY <2>2, <2>3, <2>4, FS_Subset
<1>8. ASSUME NEW a \in Agents, NEW t \in 1..now'
      PROVE  Cardinality(Rated(a, t)') <= RateLimit
  <2>1. Cardinality(Rated(a, t)) <= RateLimit
    BY <1>1, <1>8 DEF RateInv
  <2>2. CASE rated'[r] = now /\ a = a0 /\ t = now
    <3>1. ASSUME NEW q \in Rated(a, t)'
          PROVE  <<q, rated'[q]>> \in RateAfter(r)
      <4>1. q \in Requests /\ AgentOf[q] = a0 /\ rated'[q] > 0 /\ now' - RateWindow < rated'[q]
        BY <1>1, <2>2 DEF Rated
      <4>2. now # 0
        BY <1>2
      <4>3. rate'[a0] = RateAfter(r)
        BY <1>1, <2>2, <4>2
      <4>4. QED
        BY <1>6, <4>1, <4>3
    <3>2. Rated(a, t)' \in SUBSET Requests
      BY DEF Rated
    <3>3. PICK f : f = rated'
      OBVIOUS
    <3>4. /\ Cardinality(Rated(a, t)') <= Cardinality(RateAfter(r))
          /\ Cardinality(Rated(a, t)') \in Nat
      BY <1>4, <3>1, <3>2, <3>3, MembersCount
    <3>5. Cardinality(RateAfter(r)) \in Nat
      BY <1>4, FS_CardinalityType
    <3>6. QED
      BY <1>1, <1>2, <2>2, <3>4, <3>5
  <2>3. CASE ~(rated'[r] = now /\ a = a0 /\ t = now)
    <3>1. Rated(a, t)' = Rated(a, t)
      BY <1>1, <1>2, <2>3 DEF Rated
    <3>2. QED
      BY <2>1, <3>1
  <2>4. QED
    BY <2>2, <2>3
<1>9. QED
  BY <1>5, <1>6, <1>7, <1>8 DEF RateInv

LEMMA RateInvariant == Spec => []RateInv
<1>1. Init => RateInv
  <2> SUFFICES ASSUME Init PROVE RateInv
    OBVIOUS
  <2>1. /\ now = 1 /\ rated = [q \in Requests |-> 0] /\ rate = [a \in Agents |-> {}]
        /\ RateLimit \in Nat
    BY DEF Init, Per, ServiceAssumption
  <2>2. \A a \in Agents, t \in 1..now : Rated(a, t) = {}
    BY <2>1 DEF Rated
  <2>3. \A a \in Agents : {q \in Requests : AgentOf[q] = a /\ rated[q] > 0} = {}
    BY <2>1
  <2>4. Cardinality({}) = 0 /\ IsFiniteSet({})
    BY FS_EmptySet
  <2>5. PICK z \in Nat : z = Cardinality({}) /\ z <= RateLimit
    BY <2>1, <2>4
  <2>6. ASSUME NEW a \in Agents, NEW t \in 1..now
        PROVE  Cardinality(Rated(a, t)) <= RateLimit
    <3>1. Cardinality(Rated(a, t)) = z
      BY <2>2, <2>5
    <3>2. QED
      BY <2>5, <3>1
  <2>7. \A a \in Agents : IsFiniteSet(rate[a])
                        /\ IsFiniteSet({q \in Requests : AgentOf[q] = a /\ rated[q] > 0})
    BY <2>1, <2>3, <2>4
  <2>8. QED
    BY <2>1, <2>6, <2>7 DEF RateInv
<1>2. Shape /\ RateInv /\ [Next]_vars => RateInv'
  <2> SUFFICES ASSUME Shape, RateInv, [Next]_vars PROVE RateInv'
    OBVIOUS
  <2>1. ASSUME NEW r \in Requests, Serve(r), ~Gather(r) PROVE RateInv'
    BY <2>1, RateUntouched DEF RateInv, Rated
  <2>2. CASE Tick
    <3>1. now \in Nat /\ now >= 1 /\ now' = now + 1 /\ UNCHANGED <<pc, rate, rated>>
      BY <2>2 DEF Tick, history, Shape, TypeOK
    <3>2. \A q \in Requests : rated[q] \in Nat
      BY DEF Shape
    <3>3. RateWindow \in Nat
      BY DEF ServiceAssumption
    <3>4. ASSUME NEW a \in Agents, NEW t \in 1..now'
          PROVE  Cardinality(Rated(a, t)') <= RateLimit
      <4>1. CASE t \in 1..now
        BY <3>1, <4>1 DEF RateInv, Rated
      <4>2. CASE t = now + 1
        <5>1. Rated(a, t)' \subseteq Rated(a, now)
          BY <3>1, <3>2, <3>3, <4>2 DEF RateInv, Rated
        <5>2. Rated(a, now) \subseteq {q \in Requests : AgentOf[q] = a /\ rated[q] > 0}
          BY DEF Rated
        <5>3. IsFiniteSet({q \in Requests : AgentOf[q] = a /\ rated[q] > 0})
          BY DEF RateInv
        <5>4. IsFiniteSet(Rated(a, now))
          BY <5>2, <5>3, FS_Subset
        <5>5. /\ Cardinality(Rated(a, t)') <= Cardinality(Rated(a, now))
              /\ Cardinality(Rated(a, t)') \in Nat /\ Cardinality(Rated(a, now)) \in Nat
          BY <5>1, <5>4, FS_Subset, FS_CardinalityType
        <5>6. Cardinality(Rated(a, now)) <= RateLimit /\ RateLimit \in Nat
          BY <3>1 DEF RateInv, ServiceAssumption
        <5>7. QED
          BY <5>5, <5>6
      <4>3. QED
        BY <3>1, <3>4, <4>1, <4>2
    <3>5. /\ \A q \in Requests : rated'[q] <= now' /\ (pc'[q] \in Pending => rated'[q] = 0)
          /\ \A q \in Requests : rated'[q] > 0 /\ now' - RateWindow < rated'[q]
                                 => <<q, rated'[q]>> \in rate'[AgentOf[q]]
      BY <3>1, <3>2, <3>3 DEF RateInv
    <3>6. QED
      BY <3>1, <3>4, <3>5 DEF RateInv
  <2>3. CASE UNCHANGED vars
    BY <2>3 DEF RateInv, Rated, vars, redisVars, history
  <2>4. QED
    BY <2>1, <2>2, <2>3, GatherRate DEF Next, Quiet
<1>3. QED
  BY <1>1, <1>2, ShapeInvariant, PTL DEF Spec

\* Of one agent's requests, stage 6 lets at most RateLimit pass in any window of RateWindow
\* seconds, however its requests overlap, and whatever Redis failed at.
THEOREM RateBounded == Spec => []RateBound
<1>1. RateInv => RateBound
  BY DEF RateInv, RateBound, Rated
<1>2. QED
  BY <1>1, RateInvariant, PTL

----------------------------------------------------------------------------
(* Stage 7.  The counter and its expiry are what BudgetBound rests on: the *)
(* key outlives every call it has counted that is still in the window, and *)
(* counts at least those that were let pass.                               *)

\* What stage 7 let pass, of one agent, in the window that ends at t.
Budgeted(a, t) ==
    {r \in Requests : /\ AgentOf[r] = a
                      /\ t - BudgetWindow < budgeted[r] /\ budgeted[r] <= t /\ budgeted[r] > 0}

EverBudgeted(a) == {r \in Requests : AgentOf[r] = a /\ budgeted[r] > 0}

BudgetInv ==
    /\ \A r \in Requests : budgeted[r] <= now /\ (pc[r] \in Pending => budgeted[r] = 0)
    /\ \A r \in Requests : budgeted[r] > 0 /\ now - BudgetWindow < budgeted[r]
                           => callsExpire[AgentOf[r]] >= budgeted[r] + BudgetWindow
    /\ \A a \in Agents : IsFiniteSet(EverBudgeted(a)) /\ Cardinality(Budgeted(a, now)) <= calls[a]
    /\ \A a \in Agents : \A t \in 1..now : Cardinality(Budgeted(a, t)) <= CallBudget

LEMMA BudgetUntouched ==
    ASSUME Shape, NEW r \in Requests, Serve(r), ~Gather(r)
    PROVE  /\ UNCHANGED <<now, calls, callsExpire, budgeted>>
           /\ \A q \in Requests : pc'[q] \in Pending => pc[q] \in Pending
<1>1. \A q \in Requests : pc'[q] \in Pending => pc[q] \in Pending
  BY RateUntouched
<1>2. CASE ReadSession(r) \/ DriftTimeout(r) \/ AppendDrift(r)
  BY <1>1, <1>2 DEF ReadSession, DriftTimeout, AppendDrift, DriftOnly
<1>3. CASE Arrive(r) \/ OpenSession(r) \/ Conclude(r)
  BY <1>1, <1>3 DEF Arrive, OpenSession, Conclude, Untouched, redisVars
<1>4. QED
  BY <1>2, <1>3 DEF Serve

\* What one run of stage 7 does to the history, the counter and its expiry.
LEMMA BudgetMoves ==
    ASSUME Shape, BudgetInv, NEW r \in Requests, Gather(r)
    PROVE  /\ now' = now /\ budgeted[r] = 0 /\ pc'[r] = "stages"
           /\ \A q \in Requests : q # r => pc'[q] = pc[q] /\ budgeted'[q] = budgeted[q]
           /\ \A a \in Agents : a # AgentOf[r] => calls'[a] = calls[a] /\ callsExpire'[a] = callsExpire[a]
           /\ \/ /\ budgeted'[r] = 0 /\ calls'[AgentOf[r]] >= calls[AgentOf[r]]
                 /\ \/ callsExpire'[AgentOf[r]] = callsExpire[AgentOf[r]]
                    \/ callsExpire'[AgentOf[r]] = now + BudgetWindow
              \/ /\ budgeted'[r] = now /\ calls'[AgentOf[r]] = calls[AgentOf[r]] + 1
                 /\ calls[AgentOf[r]] + 1 <= CallBudget
                 /\ callsExpire'[AgentOf[r]] = now + BudgetWindow
<1> DEFINE a0 == AgentOf[r]
<1>1. PICK failed \in SUBSET {"rate", "budget"}, over \in SUBSET {"rate", "budget"} :
          BudgetStage(r, "budget" \in failed, "budget" \in over)
  BY DEF Gather
<1>2. /\ "budget" \in over <=> "budget" \notin failed /\ calls[a0] + 1 > CallBudget
      /\ \/ /\ calls' = [calls EXCEPT ![a0] = calls[a0] + 1]
            /\ callsExpire' = [callsExpire EXCEPT ![a0] = now + BudgetWindow]
         \/ "budget" \in failed /\ calls' = calls /\ callsExpire' = callsExpire
      /\ budgeted' = [budgeted EXCEPT ![r] = IF "budget" \in failed \/ "budget" \in over THEN 0
                                             ELSE now]
  BY <1>1 DEF BudgetStage
<1>3. /\ calls \in [Agents -> Nat] /\ callsExpire \in [Agents -> Nat] /\ a0 \in Agents
      /\ budgeted \in [Requests -> 0..MaxTime] /\ CallBudget \in Nat
      /\ pc \in [Requests -> {"idle", "opening", "gather", "stages", "done"}]
  BY DEF Shape, TypeOK, ServiceAssumption
<1>4. now' = now /\ pc' = [pc EXCEPT ![r] = "stages"] /\ budgeted[r] = 0
  BY DEF Gather, BudgetInv, Pending
<1>5. \A a \in Agents : a # a0 => calls'[a] = calls[a] /\ callsExpire'[a] = callsExpire[a]
  BY <1>2, <1>3
<1>6. \A q \in Requests : q # r => budgeted'[q] = budgeted[q]
  BY <1>2, <1>3
<1>7. \/ /\ budgeted'[r] = 0 /\ calls'[a0] >= calls[a0]
         /\ callsExpire'[a0] = callsExpire[a0] \/ callsExpire'[a0] = now + BudgetWindow
      \/ /\ budgeted'[r] = now /\ calls'[a0] = calls[a0] + 1 /\ calls[a0] + 1 <= CallBudget
         /\ callsExpire'[a0] = now + BudgetWindow
  <2>1. CASE "budget" \in failed \/ "budget" \in over
    <3>1. budgeted'[r] = 0
      BY <1>2, <1>3, <2>1
    <3>2. /\ calls'[a0] >= calls[a0]
          /\ callsExpire'[a0] = callsExpire[a0] \/ callsExpire'[a0] = now + BudgetWindow
      BY <1>2, <1>3
    <3>3. QED
      BY <3>1, <3>2
  <2>2. CASE ~("budget" \in failed \/ "budget" \in over)
    <3>1. budgeted'[r] = now
      BY <1>2, <1>3, <2>2
    <3>2. /\ calls'[a0] = calls[a0] + 1 /\ callsExpire'[a0] = now + BudgetWindow
      BY <1>2, <1>3, <2>2
    <3>3. ~(calls[a0] + 1 > CallBudget)
      BY <1>2, <2>2
    <3>4. calls[a0] + 1 <= CallBudget
      BY <1>3, <3>3
    <3>5. QED
      BY <3>1, <3>2, <3>4
  <2>3. QED
    BY <2>1, <2>2
<1>8. QED
  BY <1>3, <1>4, <1>5, <1>6, <1>7

LEMMA GatherBudget ==
    ASSUME Shape, BudgetInv, NEW r \in Requests, Gather(r)
    PROVE  BudgetInv'
<1> DEFINE a0 == AgentOf[r]
<1>1. /\ now' = now /\ budgeted[r] = 0 /\ pc'[r] = "stages"
      /\ \A q \in Requests : q # r => pc'[q] = pc[q] /\ budgeted'[q] = budgeted[q]
      /\ \A a \in Agents : a # a0 => calls'[a] = calls[a] /\ callsExpire'[a] = callsExpire[a]
      /\ \/ /\ budgeted'[r] = 0 /\ calls'[a0] >= calls[a0]
            /\ callsExpire'[a0] = callsExpire[a0] \/ callsExpire'[a0] = now + BudgetWindow
         \/ /\ budgeted'[r] = now /\ calls'[a0] = calls[a0] + 1 /\ calls[a0] + 1 <= CallBudget
            /\ callsExpire'[a0] = now + BudgetWindow
  BY BudgetMoves
<1>2. /\ now \in Nat /\ now >= 1 /\ a0 \in Agents /\ AgentOf \in [Requests -> Agents]
      /\ \A q \in Requests : budgeted[q] \in Nat
      /\ \A a \in Agents : calls[a] \in Nat /\ callsExpire[a] \in Nat
      /\ BudgetWindow \in Nat \ {0} /\ CallBudget \in Nat
  BY DEF Shape, TypeOK, ServiceAssumption
<1>3. \A q \in Requests : budgeted'[q] <= now' /\ (pc'[q] \in Pending => budgeted'[q] = 0)
  BY <1>1, <1>2 DEF BudgetInv, Pending
<1>4. ASSUME NEW q \in Requests, budgeted'[q] > 0, now' - BudgetWindow < budgeted'[q]
      PROVE  callsExpire'[AgentOf[q]] >= budgeted'[q] + BudgetWindow
  <2>1. CASE q = r
    BY <1>1, <1>2, <1>4, <2>1
  <2>2. CASE q # r
    <3>1. callsExpire[AgentOf[q]] >= budgeted[q] + BudgetWindow /\ budgeted[q] <= now
      BY <1>1, <1>4, <2>2 DEF BudgetInv
    <3>2. CASE AgentOf[q] = a0
      BY <1>1, <1>2, <2>2, <3>1, <3>2
    <3>3. CASE AgentOf[q] # a0
      BY <1>1, <1>2, <2>2, <3>1, <3>3
    <3>4. QED
      BY <3>2, <3>3
  <2>3. QED
    BY <2>1, <2>2
<1>5. ASSUME NEW a \in Agents PROVE IsFiniteSet(EverBudgeted(a)')
  <2>1. EverBudgeted(a)' \subseteq EverBudgeted(a) \cup {r}
    BY <1>1 DEF EverBudgeted
  <2>2. IsFiniteSet(EverBudgeted(a) \cup {r})
    BY FS_AddElement DEF BudgetInv
  <2>3. QED
    BY <2>1, <2>2, FS_Subset
<1>6. ASSUME NEW a \in Agents, NEW t \in Nat
      PROVE  /\ IsFiniteSet(Budgeted(a, t)) /\ Cardinality(Budgeted(a, t)) \in Nat
             /\ r \notin Budgeted(a, t)
  <2>1. IsFiniteSet(EverBudgeted(a)) /\ Budgeted(a, t) \subseteq EverBudgeted(a)
    BY DEF BudgetInv, EverBudgeted, Budgeted
  <2>2. IsFiniteSet(Budgeted(a, t))
    BY <2>1, FS_Subset
  <2>3. QED
    BY <1>1, <2>2, FS_CardinalityType DEF Budgeted
<1>7. ASSUME NEW a \in Agents, NEW t \in Nat, ~(budgeted'[r] = now /\ a = a0 /\ t = now), t <= now
      PROVE  Budgeted(a, t)' = Budgeted(a, t)
  BY <1>1, <1>2, <1>7 DEF Budgeted
<1>8. ASSUME budgeted'[r] = now
      PROVE  Cardinality(Budgeted(a0, now)') = Cardinality(Budgeted(a0, now)) + 1
  <2>1. Budgeted(a0, now)' = Budgeted(a0, now) \cup {r}
    BY <1>1, <1>2, <1>8 DEF Budgeted
  <2>2. IsFiniteSet(Budgeted(a0, now)) /\ r \notin Budgeted(a0, now)
    BY <1>2, <1>6
  <2>3. QED
    BY <2>1, <2>2, FS_AddElement
<1>9. ASSUME NEW a \in Agents
      PROVE  /\ Cardinality(Budgeted(a, now)') <= calls'[a]
             /\ budgeted'[r] = now /\ a = a0 => Cardinality(Budgeted(a, now)') <= CallBudget
  <2>1. Cardinality(Budgeted(a, now)) <= calls[a] /\ Cardinality(Budgeted(a, now)) \in Nat
    BY <1>2, <1>6 DEF BudgetInv
  <2>2. CASE budgeted'[r] = now /\ a = a0
    BY <1>1, <1>2, <1>8, <2>1, <2>2
  <2>3. CASE ~(budgeted'[r] = now /\ a = a0)
    <3>1. Budgeted(a, now)' = Budgeted(a, now)
      BY <1>1, <1>2, <2>3 DEF Budgeted
    <3>2. calls'[a] >= calls[a] /\ calls'[a] \in Int
      <4>1. CASE a = a0
        <5>1. Shape'
          BY GatherTypes
        <5>2. calls'[a0] \in Nat
          BY <1>2, <5>1 DEF Shape, TypeOK
        <5>3. calls'[a0] >= calls[a0]
          BY <1>1, <2>3, <4>1
        <5>4. QED
          BY <4>1, <5>2, <5>3
      <4>2. CASE a # a0
        BY <1>1, <1>2, <4>2
      <4>3. QED
        BY <4>1, <4>2
    <3>3. QED
      BY <1>2, <2>1, <2>3, <3>1, <3>2
  <2>4. QED
    BY <2>2, <2>3
<1>10. ASSUME NEW a \in Agents, NEW t \in 1..now'
       PROVE  Cardinality(Budgeted(a, t)') <= CallBudget
  <2>1. CASE budgeted'[r] = now /\ a = a0 /\ t = now
    <3>1. Budgeted(a, t)' = Budgeted(a, now)'
      BY <1>1, <2>1 DEF Budgeted
    <3>2. QED
      BY <1>9, <2>1, <3>1
  <2>2. CASE ~(budgeted'[r] = now /\ a = a0 /\ t = now)
    <3>1. t \in Nat /\ t <= now /\ t \in 1..now
      BY <1>1, <1>2
    <3>2. Budgeted(a, t)' = Budgeted(a, t)
      BY <1>7, <2>2, <3>1
    <3>3. QED
      BY <3>1, <3>2 DEF BudgetInv
  <2>3. QED
    BY <2>1, <2>2
<1>11. QED
  BY <1>1, <1>3, <1>4, <1>5, <1>9, <1>10 DEF BudgetInv

\* The counter is reset only when none of the calls it counted is in the window any more.
LEMMA TickBudget ==
    ASSUME Shape, BudgetInv, Tick
    PROVE  BudgetInv'
<1>1. /\ now \in Nat /\ now >= 1 /\ UNCHANGED <<pc, budgeted>>
      /\ \A q \in Requests : budgeted[q] \in Nat
      /\ \A a \in Agents : calls[a] \in Nat /\ callsExpire[a] \in Nat
      /\ BudgetWindow \in Nat \ {0} /\ CallBudget \in Nat /\ AgentOf \in [Requests -> Agents]
  BY DEF Shape, TypeOK, Tick, history, ServiceAssumption
<1>2. PICK n \in Nat : n = now' /\ n = now + 1
  BY <1>1 DEF Tick
<1>3. \A a \in Agents : /\ calls'[a] = IF callsExpire[a] = n THEN 0 ELSE calls[a]
                        /\ callsExpire'[a] = IF callsExpire[a] = n THEN 0 ELSE callsExpire[a]
  BY <1>2 DEF Tick
<1>4. ASSUME NEW q \in Requests, budgeted[q] > 0, n - BudgetWindow < budgeted[q]
      PROVE  callsExpire[AgentOf[q]] >= budgeted[q] + BudgetWindow /\ callsExpire[AgentOf[q]] # n
  <2>1. callsExpire[AgentOf[q]] >= budgeted[q] + BudgetWindow
    BY <1>1, <1>2, <1>4 DEF BudgetInv
  <2>2. QED
    BY <1>1, <1>4, <2>1
<1>5. \A q \in Requests : budgeted'[q] <= now' /\ (pc'[q] \in Pending => budgeted'[q] = 0)
  BY <1>1, <1>2 DEF BudgetInv
<1>6. \A q \in Requests : budgeted'[q] > 0 /\ now' - BudgetWindow < budgeted'[q]
                          => callsExpire'[AgentOf[q]] >= budgeted'[q] + BudgetWindow
  BY <1>1, <1>2, <1>3, <1>4
<1>7. \A a \in Agents : IsFiniteSet(EverBudgeted(a)')
  BY <1>1 DEF BudgetInv, EverBudgeted
<1>8. ASSUME NEW a \in Agents
      PROVE  /\ Budgeted(a, n)' \subseteq Budgeted(a, now)
             /\ Cardinality(Budgeted(a, n)') <= Cardinality(Budgeted(a, now))
             /\ Cardinality(Budgeted(a, n)') \in Nat /\ Cardinality(Budgeted(a, now)) \in Nat
  <2>1. Budgeted(a, n)' \subseteq Budgeted(a, now)
    BY <1>1, <1>2 DEF BudgetInv, Budgeted
  <2>2. IsFiniteSet(EverBudgeted(a)) /\ Budgeted(a, now) \subseteq EverBudgeted(a)
    BY DEF BudgetInv, EverBudgeted, Budgeted
  <2>3. IsFiniteSet(Budgeted(a, now))
    BY <2>2, FS_Subset
  <2>4. QED
    BY <2>1, <2>3, FS_Subset, FS_CardinalityType
<1>9. ASSUME NEW a \in Agents PROVE Cardinality(Budgeted(a, now)') <= calls'[a]
  <2>0. Budgeted(a, now)' = Budgeted(a, n)'
    BY <1>2 DEF Budgeted
  <2>1. CASE callsExpire[a] = n
    <3>1. Budgeted(a, n)' = {}
      BY <1>1, <1>2, <1>4, <2>1 DEF Budgeted
    <3>2. QED
      BY <1>3, <2>0, <2>1, <3>1, FS_EmptySet
  <2>2. CASE callsExpire[a] # n
    <3>1. Cardinality(Budgeted(a, now)) <= calls[a] /\ calls'[a] = calls[a]
      BY <1>3, <2>2 DEF BudgetInv
    <3>2. Cardinality(Budgeted(a, n)') <= calls[a]
      BY <1>1, <1>8, <3>1
    <3>3. QED
      BY <2>0, <3>1, <3>2
  <2>3. QED
    BY <2>1, <2>2
<1>10. ASSUME NEW a \in Agents, NEW t \in 1..now'
       PROVE  Cardinality(Budgeted(a, t)') <= CallBudget
  <2>1. CASE t \in 1..now
    <3>1. Budgeted(a, t)' = Budgeted(a, t)
      BY <1>1 DEF Budgeted
    <3>2. QED
      BY <2>1, <3>1 DEF BudgetInv
  <2>2. CASE t = n
    <3>1. Cardinality(Budgeted(a, now)) <= CallBudget
      BY <1>1 DEF BudgetInv
    <3>2. QED
      BY <1>1, <1>8, <2>2, <3>1
  <2>3. QED
    BY <1>1, <1>2, <2>1, <2>2
<1>11. QED
  BY <1>5, <1>6, <1>7, <1>9, <1>10 DEF BudgetInv

LEMMA BudgetInvariant == Spec => []BudgetInv
<1>1. Init => BudgetInv
  <2> SUFFICES ASSUME Init PROVE BudgetInv
    OBVIOUS
  <2>1. /\ now = 1 /\ budgeted = [q \in Requests |-> 0] /\ calls = [a \in Agents |-> 0]
        /\ CallBudget \in Nat
    BY DEF Init, Per, ServiceAssumption
  <2>2. \A a \in Agents, t \in Nat : Budgeted(a, t) = {}
    BY <2>1 DEF Budgeted
  <2>3. \A a \in Agents : EverBudgeted(a) = {}
    BY <2>1 DEF EverBudgeted
  <2>4. Cardinality({}) = 0 /\ IsFiniteSet({})
    BY FS_EmptySet
  <2>5. PICK z \in Nat : z = Cardinality({}) /\ z = 0
    BY <2>4
  <2>6. ASSUME NEW a \in Agents, NEW t \in Nat
        PROVE  Cardinality(Budgeted(a, t)) = z
    BY <2>2, <2>5
  <2>7. \A a \in Agents, t \in 1..now : Cardinality(Budgeted(a, t)) <= CallBudget
    BY <2>1, <2>5, <2>6
  <2>8. \A a \in Agents : Cardinality(Budgeted(a, now)) <= calls[a]
    BY <2>1, <2>5, <2>6
  <2>9. QED
    BY <2>1, <2>3, <2>4, <2>7, <2>8 DEF BudgetInv
<1>2. Shape /\ BudgetInv /\ [Next]_vars => BudgetInv'
  <2> SUFFICES ASSUME Shape, BudgetInv, [Next]_vars PROVE BudgetInv'
    OBVIOUS
  <2>1. ASSUME NEW r \in Requests, Serve(r), ~Gather(r) PROVE BudgetInv'
    BY <2>1, BudgetUntouched DEF BudgetInv, Budgeted, EverBudgeted
  <2>2. CASE UNCHANGED vars
    BY <2>2 DEF BudgetInv, Budgeted, EverBudgeted, vars, redisVars, history
  <2>3. QED
    BY <2>1, <2>2, GatherBudget, TickBudget DEF Next, Quiet
<1>3. QED
  BY <1>1, <1>2, ShapeInvariant, PTL DEF Spec

\* Stage 7 lets at most CallBudget of an agent's requests pass in any window of BudgetWindow
\* seconds, although every call pushes the expiry of the counter back and a refused or failed
\* one may count as well.
THEOREM BudgetBounded == Spec => []BudgetBound
<1>1. BudgetInv => BudgetBound
  BY DEF BudgetInv, BudgetBound, Budgeted
<1>2. QED
  BY <1>1, BudgetInvariant, PTL

----------------------------------------------------------------------------
(* The sessions.  SessionKept rests on who may be between EXISTS and SET:  *)
(* one request at most, of a session nobody has written yet; and every     *)
(* request past that point finds its session's key there.                  *)

Kept(s) == session[s] = LastEvents(ledger[s], SessionWindow)

OpenedInTime ==
    /\ \A r \in Requests : pc[r] = "opening" => SessionOf[r] \notin opened
    /\ \A r \in Requests : pc[r] = "gather" \/ drift[r] # "none" => SessionOf[r] \in opened
    /\ \A s \in Sessions \ opened : ledger[s] = <<>>

SessionInv ==
    /\ \A r, q \in Requests : pc[r] = "opening" /\ pc[q] = "opening" => r = q
    /\ faults = 0 => OpenedInTime /\ \A s \in Sessions : Kept(s)

LEMMA NothingToKeep == LastEvents(<<>>, SessionWindow) = <<>>
<1>1. SessionWindow \in Nat
  BY DEF SessionWindow
<1>2. Len(<<>>) = 0 /\ <<>> \in Seq(Events) /\ \A seq \in Seq(Events) : seq # <<>> => Len(seq) \in Nat \ {0}
  BY EmptySeq
<1>3. PICK empty \in Seq(Events) : empty = <<>> /\ Len(empty) = 0
  BY <1>2
<1>4. PICK n \in Nat : n = SessionWindow
  BY <1>1
<1>5. PICK t \in Seq(Events) : t = LastEvents(empty, n) /\ Len(t) = IF Len(empty) > n THEN n ELSE Len(empty)
  BY LastEventsFacts
<1>6. Len(t) = 0
  BY <1>3, <1>5
<1>7. t = <<>>
  BY <1>2, <1>6
<1>8. QED
  BY Zenon, <1>3, <1>4, <1>5, <1>7

\* Appending and trimming keeps the tail, and a session not written stays as it was.
LEMMA RecordKeeps ==
    ASSUME Shape, NEW s \in Sessions, NEW e \in Events, Record(s, e), \A x \in Sessions : Kept(x)
    PROVE  /\ \A x \in Sessions : Kept(x)'
           /\ opened' = opened \cup {s}
           /\ \A x \in Sessions : x # s => ledger'[x] = ledger[x]
<1>1. /\ session \in [Sessions -> Seq(Events)] /\ ledger \in [Sessions -> Seq(Events)]
      /\ SessionWindow \in Nat
  BY DEF Shape, RecordsOK, SessionsOK, SessionWindow
<1>2. /\ session' = [session EXCEPT ![s] = AppendEvent(session[s], e)]
      /\ ledger' = [ledger EXCEPT ![s] = Append(ledger[s], e)]
      /\ opened' = opened \cup {s}
  BY DEF Record
<1>3. AppendEvent(session[s], e) = LastEvents(Append(ledger[s], e), SessionWindow)
  <2>1. session[s] = LastEvents(ledger[s], SessionWindow) /\ ledger[s] \in Seq(Events)
    BY <1>1 DEF Kept
  <2>2. AppendEvent(session[s], e) = LastEvents(Append(session[s], e), SessionWindow)
    BY DEF AppendEvent
  <2>3. LastEvents(Append(LastEvents(ledger[s], SessionWindow), e), SessionWindow)
            = LastEvents(Append(ledger[s], e), SessionWindow)
    BY <1>1, <2>1, TrimmedTwice
  <2>4. QED
    BY Zenon, <2>1, <2>2, <2>3
<1>4. session'[s] = LastEvents(ledger'[s], SessionWindow)
  <2>1. session'[s] = AppendEvent(session[s], e) /\ ledger'[s] = Append(ledger[s], e)
    BY <1>1, <1>2
  <2>2. QED
    BY Zenon, <1>3, <2>1
<1>5. ASSUME NEW x \in Sessions, x # s
      PROVE  session'[x] = session[x] /\ ledger'[x] = ledger[x]
  BY <1>1, <1>2, <1>5
<1>6. ASSUME NEW x \in Sessions PROVE Kept(x)'
  <2>1. CASE x = s
    BY <1>4, <2>1 DEF Kept
  <2>2. CASE x # s
    <3>1. session'[x] = session[x] /\ ledger'[x] = ledger[x]
      BY <1>5, <2>2
    <3>2. session[x] = LastEvents(ledger[x], SessionWindow)
      BY DEF Kept
    <3>3. session'[x] = LastEvents(ledger'[x], SessionWindow)
      BY Zenon, <3>1, <3>2
    <3>4. QED
      BY <3>3 DEF Kept
  <2>3. QED
    BY <2>1, <2>2
<1>7. QED
  BY <1>2, <1>5, <1>6

\* The count of faults only grows.
LEMMA FaultsGrow ==
    ASSUME Shape, NEW r \in Requests, Serve(r)
    PROVE  faults' = 0 => faults = 0
<1>0. faults \in Nat
  BY DEF Shape, TypeOK
<1>1. ASSUME NEW n \in Nat, Clean \/ Faults(n) PROVE faults' = 0 => faults = 0
  BY <1>0, <1>1 DEF Clean, Faults
<1>2. ASSUME NEW verdict, NEW screened, Answer(r, verdict, screened) PROVE faults' = 0 => faults = 0
  <2>1. PICK done \in SUBSET Writes(r, screened) :
            faults' = faults + Cardinality(Writes(r, screened) \ done)
    BY <1>2 DEF Answer
  <2>2. Cardinality(Writes(r, screened) \ done) \in Nat
    BY WritesFinite
  <2>3. QED
    BY <1>0, <2>1, <2>2
<1>3. CASE Arrive(r)
  <2>1. CASE r \in Refused
    BY <1>2, <1>3, <2>1 DEF Arrive
  <2>2. CASE r \notin Refused
    <3>1. Clean \/ Faults(1)
      BY <1>3, <2>2 DEF Arrive
    <3>2. QED
      BY <1>1, <3>1
  <2>3. QED
    BY <2>1, <2>2
<1>4. CASE OpenSession(r) \/ AppendDrift(r)
  BY <1>1, <1>4 DEF OpenSession, AppendDrift
<1>5. CASE Gather(r)
  <2>1. \E failed \in SUBSET {"rate", "budget"} : Clean \/ Faults(Cardinality(failed))
    BY <1>5 DEF Gather
  <2>2. QED
    BY <1>1, <2>1, SomeFail
<1>6. CASE ReadSession(r)
  <2>1. \E lost \in SUBSET {"session", "baseline"} : Clean \/ Faults(Cardinality(lost))
    BY <1>6 DEF ReadSession
  <2>2. QED
    BY <1>1, <2>1, SomeFail
<1>7. CASE DriftTimeout(r)
  BY <1>7 DEF DriftTimeout
<1>8. CASE Conclude(r)
  BY <1>2, <1>8, ConcludeFacts
<1>9. QED
  BY <1>3, <1>4, <1>5, <1>6, <1>7, <1>8 DEF Serve

\* Whoever is between EXISTS and SET came alone.
LEMMA OneOpens ==
    ASSUME Shape, NEW r \in Requests, Serve(r),
           \A p, q \in Requests : pc[p] = "opening" /\ pc[q] = "opening" => p = q
    PROVE  \A p, q \in Requests : pc'[p] = "opening" /\ pc'[q] = "opening" => p = q
<1>1. \A q \in Requests : q # r => pc'[q] = pc[q]
  BY ServeMoves
<1>2. pc'[r] = "opening" => LoopFree \/ pc[r] = "opening"
  BY DEF Serve, Arrive, OpenSession, Gather, ReadSession, DriftTimeout, AppendDrift, DriftOnly,
         Conclude, Finish, Shape, TypeOK
<1>3. QED
  BY <1>1, <1>2 DEF LoopFree

\* An answer writes to its own session or to none.
LEMMA AnswerKeeps ==
    ASSUME Shape, NEW r \in Requests, NEW verdict \in Verdicts, NEW screened \in BOOLEAN,
           arrived' \in [Requests -> 0..MaxTime], Answer(r, verdict, screened),
           \A x \in Sessions : Kept(x)
    PROVE  /\ \A x \in Sessions : Kept(x)'
           /\ \/ UNCHANGED <<opened, ledger>>
              \/ /\ opened' = opened \cup {SessionOf[r]}
                 /\ \A x \in Sessions : x # SessionOf[r] => ledger'[x] = ledger[x]
<1>1. \/ Record(SessionOf[r], ReplyEvent(r))
      \/ UNCHANGED <<session, opened, ledger>>
  BY DEF Answer
<1>2. SessionOf[r] \in Sessions /\ ReplyEvent(r) \in Events
  BY EventTypes DEF ServiceAssumption
<1>3. CASE Record(SessionOf[r], ReplyEvent(r))
  BY <1>2, <1>3, RecordKeeps
<1>4. CASE UNCHANGED <<session, opened, ledger>>
  BY <1>4 DEF Kept
<1>5. QED
  BY <1>1, <1>3, <1>4

LEMMA SessionStep ==
    ASSUME Shape, SessionInv, NEW r \in Requests, Serve(r), faults' = 0
    PROVE  OpenedInTime' /\ \A s \in Sessions : Kept(s)'
<1>1. faults = 0 /\ OpenedInTime /\ \A s \in Sessions : Kept(s)
  BY FaultsGrow DEF SessionInv
<1>2. /\ pc \in [Requests -> {"idle", "opening", "gather", "stages", "done"}]
      /\ drift \in [Requests -> {"none", "reading", "read", "scored", "timeout"}]
      /\ opened \subseteq Sessions /\ SessionOf \in [Requests -> Sessions]
  BY DEF Shape, TypeOK, ServiceAssumption
<1>3. ~Faults(1)
  BY <1>1 DEF Faults
<1>4. CASE ReadSession(r) \/ DriftTimeout(r)
  <2>1. UNCHANGED <<pc, opened, session, ledger>>
    BY <1>4 DEF ReadSession, DriftTimeout, DriftOnly
  <2>2. \A q \in Requests : drift'[q] # "none" => drift[q] # "none"
    BY <1>2, <1>4 DEF ReadSession, DriftTimeout
  <2>3. QED
    BY <1>1, <2>1, <2>2 DEF OpenedInTime, Kept
<1>5. CASE AppendDrift(r)
  <2>1. UNCHANGED pc /\ \A q \in Requests : drift'[q] # "none" => drift[q] # "none"
    BY <1>2, <1>5 DEF AppendDrift, DriftOnly
  <2>2. SessionOf[r] \in opened
    BY <1>1, <1>5 DEF AppendDrift, OpenedInTime
  <2>3. Record(SessionOf[r], DriftEvent(r))
    BY <1>3, <1>5 DEF AppendDrift
  <2>4. SessionOf[r] \in Sessions /\ DriftEvent(r) \in Events
    BY <1>2, EventTypes
  <2>5. /\ \A x \in Sessions : Kept(x)'
        /\ opened' = opened
        /\ \A x \in Sessions : x # SessionOf[r] => ledger'[x] = ledger[x]
    <3>1. PICK s \in Sessions, e \in Events : s = SessionOf[r] /\ Record(s, e)
      BY <2>3, <2>4
    <3>2. /\ \A x \in Sessions : Kept(x)'
          /\ opened' = opened \cup {s}
          /\ \A x \in Sessions : x # s => ledger'[x] = ledger[x]
      BY <1>1, <3>1, RecordKeeps
    <3>3. QED
      BY <2>2, <3>1, <3>2
  <2>6. QED
    BY <1>1, <2>1, <2>2, <2>5 DEF OpenedInTime
<1>6. CASE Gather(r)
  <2>1. UNCHANGED <<opened, session, ledger>> /\ pc[r] = "gather"
        /\ pc' = [pc EXCEPT ![r] = "stages"] /\ drift' = [drift EXCEPT ![r] = "reading"]
    BY <1>6 DEF Gather
  <2>2. QED
    BY <1>1, <1>2, <2>1 DEF OpenedInTime, Kept
<1>7. CASE OpenSession(r)
  <2> DEFINE s0 == SessionOf[r]
  <2>1. /\ pc[r] = "opening" /\ pc' = [pc EXCEPT ![r] = "gather"] /\ UNCHANGED <<drift, ledger>>
        /\ session' = [session EXCEPT ![s0] = <<>>] /\ opened' = opened \cup {s0}
    BY <1>3, <1>7 DEF OpenSession
  <2>2. s0 \in Sessions /\ s0 \notin opened /\ ledger[s0] = <<>>
    BY <1>1, <1>2, <2>1 DEF OpenedInTime
  <2>3. OpenedInTime'
    <3>1. \A q \in Requests : pc'[q] # "opening"
      <4>1. \A q \in Requests : pc[q] = "opening" => q = r
        BY <2>1 DEF SessionInv
      <4>2. QED
        BY <1>2, <2>1, <4>1
    <3>2. QED
      BY <1>1, <1>2, <2>1, <3>1 DEF OpenedInTime
  <2>4. ASSUME NEW s \in Sessions PROVE Kept(s)'
    <3>1. session \in [Sessions -> Seq(Events)]
      BY DEF Shape, RecordsOK, SessionsOK
    <3>2. CASE s = s0
      <4>1. session'[s] = <<>> /\ ledger'[s] = <<>>
        BY <2>1, <2>2, <3>1, <3>2
      <4>2. session'[s] = LastEvents(ledger'[s], SessionWindow)
        BY Zenon, <4>1, NothingToKeep
      <4>3. QED
        BY <4>2 DEF Kept
    <3>3. CASE s # s0
      <4>1. session'[s] = session[s] /\ ledger' = ledger
        BY <2>1, <3>1, <3>3
      <4>2. session[s] = LastEvents(ledger[s], SessionWindow)
        BY <1>1 DEF Kept
      <4>3. session'[s] = LastEvents(ledger'[s], SessionWindow)
        BY Zenon, <4>1, <4>2
      <4>4. QED
        BY <4>3 DEF Kept
    <3>4. QED
      BY <3>2, <3>3
  <2>5. QED
    BY <2>3, <2>4
<1>8. CASE Arrive(r) /\ r \notin Refused
  <2>1. /\ pc' = [pc EXCEPT ![r] = IF KeyExists(r) THEN "gather" ELSE "opening"]
        /\ UNCHANGED <<drift, opened, session, ledger>>
    BY <1>3, <1>8 DEF Arrive, redisVars
  <2>2. QED
    BY <1>1, <1>2, <2>1 DEF OpenedInTime, Kept, KeyExists
<1>9. CASE (Arrive(r) /\ r \in Refused) \/ Conclude(r)
  <2>1. /\ pc' = [pc EXCEPT ![r] = "done"] /\ UNCHANGED drift /\ LoopFree
    BY <1>9, ConcludeFacts DEF Arrive, Conclude, Finish, Untouched
  <2>2. arrived' \in [Requests -> 0..MaxTime]
    <3>1. CASE Arrive(r)
      BY <3>1, ArriveTypes DEF Shape
    <3>2. CASE Conclude(r)
      BY <3>2, ConcludeTypes DEF Shape
    <3>3. QED
      BY <1>9, <3>1, <3>2
  <2>3. \E verdict \in Verdicts, screened \in BOOLEAN : Answer(r, verdict, screened)
    <3>1. CASE Arrive(r) /\ r \in Refused
      <4>1. Answer(r, "BLOCKED", Entry[r] = "triage") /\ "BLOCKED" \in Verdicts
        BY <3>1 DEF Arrive, Verdicts
      <4>2. QED
        BY <4>1
    <3>2. CASE Conclude(r)
      BY <3>2, ConcludeFacts
    <3>3. QED
      BY <1>9, <3>1, <3>2
  <2>4. /\ \A x \in Sessions : Kept(x)'
        /\ \/ UNCHANGED <<opened, ledger>>
           \/ /\ opened' = opened \cup {SessionOf[r]}
              /\ \A x \in Sessions : x # SessionOf[r] => ledger'[x] = ledger[x]
    BY <1>1, <2>2, <2>3, AnswerKeeps
  <2>5. OpenedInTime'
    <3>1. \A q \in Requests : pc'[q] # "opening" /\ (pc'[q] = "gather" => pc[q] = "gather")
      BY <1>2, <2>1 DEF LoopFree
    <3>2. QED
      BY <1>1, <2>1, <2>4, <3>1 DEF OpenedInTime
  <2>6. QED
    BY <2>4, <2>5
<1>10. QED
  BY <1>4, <1>5, <1>6, <1>7, <1>8, <1>9 DEF Serve

LEMMA SessionInvariant == Spec => []SessionInv
<1>1. Init => SessionInv
  <2> SUFFICES ASSUME Init PROVE SessionInv
    OBVIOUS
  <2>1. /\ \A s \in Sessions : session[s] = <<>> /\ ledger[s] = <<>>
        /\ \A r \in Requests : pc[r] = "idle" /\ drift[r] = "none"
    BY DEF Init, Per
  <2>2. ASSUME NEW s \in Sessions PROVE Kept(s)
    <3>1. session[s] = LastEvents(ledger[s], SessionWindow)
      BY Zenon, <2>1, NothingToKeep
    <3>2. QED
      BY <3>1 DEF Kept
  <2>3. QED
    BY <2>1, <2>2 DEF SessionInv, OpenedInTime
<1>2. Shape /\ SessionInv /\ [Next]_vars => SessionInv'
  <2> SUFFICES ASSUME Shape, SessionInv, [Next]_vars PROVE SessionInv'
    OBVIOUS
  <2>1. ASSUME NEW r \in Requests, Serve(r) PROVE SessionInv'
    BY <2>1, SessionStep, OneOpens DEF SessionInv
  <2>2. CASE Tick
    BY <2>2 DEF SessionInv, OpenedInTime, Kept, Tick, history
  <2>3. CASE UNCHANGED vars
    BY <2>3 DEF SessionInv, OpenedInTime, Kept, vars, redisVars, history
  <2>4. QED
    BY <2>1, <2>2, <2>3 DEF Next, Quiet
<1>3. QED
  BY <1>1, <1>2, ShapeInvariant, PTL DEF Spec

\* While Redis has not failed, a session is the tail of everything appended to it: neither
\* init_session, nor the trimming of one append, nor a thread of stage 5 loses another's event.
THEOREM SessionsKept == Spec => []SessionKept
<1>1. SessionInv => SessionKept
  BY DEF SessionInv, SessionKept, Kept
<1>2. QED
  BY <1>1, SessionInvariant, PTL

----------------------------------------------------------------------------
(* The records of /execute.  AuditTrail compares what three separate       *)
(* writes left behind with the answers: it is inductive once nobody is     *)
(* answered twice and the answers to count are finitely many.              *)

Executed(v) == {r \in Requests : Entry[r] = "execute" /\ reply[r] = v}

\* The key of an agent's session expires SessionTTL after the last verdict stored in it.
KeyLasts(a) ==
    agentSession[a] # <<>> =>
        /\ told[a] # <<>> /\ agentExpire[a] = told[a][Len(told[a])].at + SessionTTL
        /\ now < agentExpire[a]

OneStory ==
    /\ \A v \in Verdicts : counters[v] = Cardinality(Executed(v))
    /\ \A a \in Agents : /\ NewestFirst(decisions[a], told[a])
                         /\ SinceSilence(agentSession[a], told[a], now)
                         /\ KeyLasts(a)

AuditInv ==
    /\ \A r \in Requests : pc[r] # "done" => reply[r] = "none"
    /\ \A v \in Verdicts : IsFiniteSet(Executed(v))
    /\ faults = 0 => OneStory

\* The writes of one answer, when none of them failed.
LEMMA AnswerWrites ==
    ASSUME Shape, NEW r \in Requests, NEW verdict, NEW screened, Answer(r, verdict, screened),
           faults' = 0
    PROVE  /\ faults = 0
           /\ Entry[r] = "execute" =>
                 /\ counters' = [counters EXCEPT ![verdict] = @ + 1]
                 /\ StoreAgentSession(AgentOf[r], verdict)
                 /\ decisions' = [decisions EXCEPT ![AgentOf[r]] = Pushed(verdict, @, LogMax)]
           /\ Entry[r] # "execute" => UNCHANGED <<counters, agentSession, agentExpire, decisions>>
<1>1. PICK done \in SUBSET Writes(r, screened) :
          /\ faults' = faults + Cardinality(Writes(r, screened) \ done)
          /\ IF "agentSession" \in done THEN StoreAgentSession(AgentOf[r], verdict)
             ELSE UNCHANGED <<agentSession, agentExpire>>
          /\ counters' = IF "counter" \in done
                         THEN [counters EXCEPT ![verdict] = @ + 1] ELSE counters
          /\ decisions' = IF "decision" \in done
                          THEN [decisions EXCEPT ![AgentOf[r]] = Pushed(verdict, @, LogMax)] ELSE decisions
  BY DEF Answer
<1>2. faults \in Nat /\ Cardinality(Writes(r, screened) \ done) \in Nat
  <2>1. faults \in Nat
    BY DEF Shape, TypeOK
  <2>2. QED
    BY <2>1, WritesFinite
<1>3. faults = 0 /\ Cardinality(Writes(r, screened) \ done) = 0
  BY <1>1, <1>2
<1>4. done = Writes(r, screened)
  <2>1. Cardinality(Writes(r, screened) \ done) = 0 => done = Writes(r, screened)
    BY WritesFinite
  <2>2. QED
    BY <1>3, <2>1
<1>5. CASE Entry[r] = "execute"
  <2>1. "agentSession" \in done /\ "counter" \in done /\ "decision" \in done
    BY <1>4, <1>5 DEF Writes
  <2>2. QED
    BY <1>1, <1>3, <1>5, <2>1
<1>6. CASE Entry[r] # "execute"
  <2>1. "agentSession" \notin done /\ "counter" \notin done /\ "decision" \notin done
    BY <1>4, <1>6 DEF Writes
  <2>2. QED
    BY <1>1, <1>3, <1>6, <2>1
<1>7. QED
  BY <1>5, <1>6

\* An answer adds its request to those of its verdict.
LEMMA AnswerExecuted ==
    ASSUME Shape, AuditInv, NEW r \in Requests, NEW verdict \in Verdicts, NEW screened,
           Answer(r, verdict, screened), pc[r] # "done"
    PROVE  /\ \A v \in Verdicts :
                 IF v = verdict /\ Entry[r] = "execute" THEN Executed(v)' = Executed(v) \cup {r}
                 ELSE Executed(v)' = Executed(v)
           /\ \A v \in Verdicts : r \notin Executed(v)
           /\ \A v \in Verdicts : IsFiniteSet(Executed(v)')
<1>1. /\ reply' = [reply EXCEPT ![r] = verdict] /\ reply[r] = "none"
      /\ reply \in [Requests -> Verdicts \cup {"none"}]
  BY DEF Answer, AuditInv, Shape, TypeOK
<1>2. "none" \notin Verdicts
  BY DEF Verdicts
<1>3. ASSUME NEW v \in Verdicts
      PROVE  /\ r \notin Executed(v)
             /\ v = verdict /\ Entry[r] = "execute" => Executed(v)' = Executed(v) \cup {r}
             /\ ~(v = verdict /\ Entry[r] = "execute") => Executed(v)' = Executed(v)
  BY <1>1, <1>2 DEF Executed
<1>4. ASSUME NEW v \in Verdicts PROVE IsFiniteSet(Executed(v)')
  <2>1. IsFiniteSet(Executed(v)) /\ IsFiniteSet(Executed(v) \cup {r})
    BY FS_AddElement DEF AuditInv
  <2>2. QED
    BY <1>3, <2>1
<1>5. QED
  BY <1>3, <1>4

\* The two lists take in the verdict just given.
LEMMA AnswerTold ==
    ASSUME Shape, OneStory, NEW r \in Requests, NEW verdict \in Verdicts, NEW screened,
           Answer(r, verdict, screened), faults' = 0, now' = now, Entry[r] = "execute",
           NEW a \in Agents
    PROVE  /\ NewestFirst(decisions'[a], told'[a])
           /\ SinceSilence(agentSession'[a], told'[a], now') /\ KeyLasts(a)'
<1>1. /\ agentSession \in [Agents -> Seq(Verdicts)] /\ decisions \in [Agents -> Seq(Verdicts)]
      /\ told \in [Agents -> Seq(Told)] /\ agentExpire \in [Agents -> Nat]
      /\ AgentOf[r] \in Agents
  BY DEF Shape, RecordsOK, ServiceAssumption
<1>2. now \in 0..MaxTime /\ now \in Nat /\ SessionTTL \in Nat \ {0}
  <2>1. now \in 1..MaxTime /\ MaxTime \in Nat
    BY DEF Shape, TypeOK
  <2>2. QED
    BY <2>1
<1>3. PICK x \in Told : x = [verdict |-> verdict, at |-> now] /\ x.verdict = verdict /\ x.at = now
  <2>1. [verdict |-> verdict, at |-> now] \in Told
    BY <1>2 DEF Told
  <2>2. QED
    BY <2>1
<1>4. /\ agentSession' = [agentSession EXCEPT ![AgentOf[r]] = Append(agentSession[AgentOf[r]], verdict)]
      /\ agentExpire' = [agentExpire EXCEPT ![AgentOf[r]] = now + SessionTTL]
      /\ decisions' = [decisions EXCEPT ![AgentOf[r]] = Pushed(verdict, decisions[AgentOf[r]], LogMax)]
      /\ told' = [told EXCEPT ![AgentOf[r]] = Append(told[AgentOf[r]], x)]
  <2>1. told' = [told EXCEPT ![AgentOf[r]] = Append(told[AgentOf[r]], x)]
    BY <1>3 DEF Answer
  <2>2. StoreAgentSession(AgentOf[r], verdict)
    BY AnswerWrites
  <2>3. decisions' = [decisions EXCEPT ![AgentOf[r]] = Pushed(verdict, decisions[AgentOf[r]], LogMax)]
    BY AnswerWrites
  <2>4. QED
    BY <2>1, <2>2, <2>3 DEF StoreAgentSession
<1>5. /\ NewestFirst(decisions[a], told[a]) /\ SinceSilence(agentSession[a], told[a], now)
      /\ KeyLasts(a)
  BY DEF OneStory
<1>6. CASE a # AgentOf[r]
  <2>1. /\ agentSession'[a] = agentSession[a] /\ decisions'[a] = decisions[a]
        /\ told'[a] = told[a] /\ agentExpire'[a] = agentExpire[a]
    BY Zenon, <1>1, <1>4, <1>6
  <2>2. QED
    BY Zenon, <1>5, <2>1 DEF KeyLasts
<1>7. CASE a = AgentOf[r]
  <2>1. /\ agentSession'[a] = Append(agentSession[a], verdict) /\ agentExpire'[a] = now + SessionTTL
        /\ decisions'[a] = Pushed(verdict, decisions[a], LogMax) /\ told'[a] = Append(told[a], x)
    BY Zenon, <1>1, <1>4, <1>7
  <2>2. agentSession[a] \in Seq(Verdicts) /\ decisions[a] \in Seq(Verdicts) /\ told[a] \in Seq(Told)
    BY <1>1
  <2>3. NewestFirst(decisions'[a], told'[a])
    BY Zenon, <1>3, <1>5, <2>1, <2>2, LogKeeps
  <2>4. SinceSilence(agentSession'[a], told'[a], now')
    <3>1. SinceSilence(Append(agentSession[a], verdict),
                       Append(told[a], [verdict |-> verdict, at |-> now]), now)
      BY Zenon, <1>2, <1>5, <2>2, SessionKeeps
    <3>2. now' = now
      OBVIOUS
    <3>3. QED
      BY Zenon, <1>3, <2>1, <3>1, <3>2
  <2>5. KeyLasts(a)'
    <3>1. PICK n \in Nat : /\ n = Len(told[a]) /\ Len(Append(told[a], x)) = n + 1
                           /\ Append(told[a], x)[n + 1] = x
      BY Zenon, <2>2, AppendTold
    <3>2. PICK all : all = Append(told[a], x) /\ Len(all) = n + 1 /\ all[n + 1] = x
      BY Zenon, <3>1
    <3>3. all # <<>>
      BY <3>2, EmptySeq
    <3>4. now < now + SessionTTL
      BY <1>2
    <3>5. QED
      BY Zenon, <1>3, <2>1, <3>2, <3>3, <3>4 DEF KeyLasts
  <2>6. QED
    BY <2>3, <2>4, <2>5
<1>8. QED
  BY <1>6, <1>7

\* A tick takes the sessions whose keys expire.
LEMMA TickTells ==
    ASSUME Shape, OneStory, Tick, NEW a \in Agents
    PROVE  /\ NewestFirst(decisions'[a], told'[a])
           /\ SinceSilence(agentSession'[a], told'[a], now') /\ KeyLasts(a)'
<1>1. /\ agentSession[a] \in Seq(Verdicts) /\ told[a] \in Seq(Told) /\ agentExpire[a] \in Nat
      /\ now \in Nat /\ now' = now + 1 /\ UNCHANGED <<told, decisions>>
  BY DEF Shape, TypeOK, RecordsOK, Tick, history
<1>2. /\ agentSession'[a] = IF agentExpire[a] = now + 1 THEN <<>> ELSE agentSession[a]
      /\ agentExpire'[a] = IF agentExpire[a] = now + 1 THEN 0 ELSE agentExpire[a]
  BY Zenon, <1>1 DEF Tick
<1>3. /\ NewestFirst(decisions[a], told[a]) /\ SinceSilence(agentSession[a], told[a], now)
      /\ KeyLasts(a)
  BY DEF OneStory
<1>4. CASE agentSession[a] = <<>>
  <2>1. agentSession'[a] = agentSession[a]
    BY <1>2, <1>4
  <2>2. SinceSilence(agentSession[a], told[a], now + 1)
    BY Zenon, <1>1, <1>3, <1>4, SessionLasts
  <2>3. QED
    BY Zenon, <1>1, <1>3, <1>4, <2>1, <2>2 DEF KeyLasts
<1>5. CASE agentSession[a] # <<>>
  <2>1. PICK e \in Nat : /\ e = agentExpire[a] /\ e = told[a][Len(told[a])].at + SessionTTL
                         /\ now < e /\ told[a] # <<>>
    BY <1>1, <1>3, <1>5 DEF KeyLasts
  <2>2. CASE e = now + 1
    <3>1. agentSession'[a] = <<>>
      BY Zenon, <1>2, <2>1, <2>2
    <3>2. SinceSilence(<<>>, told[a], now + 1)
      BY Zenon, <1>1, <1>3, <2>1, <2>2, SessionLasts
    <3>3. QED
      BY Zenon, <1>1, <1>3, <3>1, <3>2 DEF KeyLasts
  <2>3. CASE e # now + 1
    <3>1. now + 1 < e
      BY <1>1, <2>1, <2>3
    <3>2. agentSession'[a] = agentSession[a] /\ agentExpire'[a] = agentExpire[a]
      BY Zenon, <1>2, <2>1, <2>3
    <3>3. SinceSilence(agentSession[a], told[a], now + 1)
      BY Zenon, <1>1, <1>3, <2>1, <3>1, SessionLasts
    <3>4. QED
      BY Zenon, <1>1, <1>3, <2>1, <3>1, <3>2, <3>3 DEF KeyLasts
  <2>4. QED
    BY <2>2, <2>3
<1>6. QED
  BY <1>4, <1>5

LEMMA AnswerAudits ==
    ASSUME Shape, AuditInv, NEW r \in Requests, NEW verdict \in Verdicts, NEW screened, now' = now,
           Answer(r, verdict, screened), pc[r] # "done", pc' = [pc EXCEPT ![r] = "done"]
    PROVE  AuditInv'
<1>1. \A q \in Requests : pc'[q] # "done" => reply'[q] = "none"
  <2>1. /\ reply' = [reply EXCEPT ![r] = verdict]
        /\ reply \in [Requests -> Verdicts \cup {"none"}]
        /\ pc \in [Requests -> {"idle", "opening", "gather", "stages", "done"}]
    BY DEF Answer, Shape, TypeOK
  <2>2. QED
    BY <2>1 DEF AuditInv
<1>2. \A v \in Verdicts : IsFiniteSet(Executed(v)')
  BY AnswerExecuted
<1>3. ASSUME faults' = 0 PROVE OneStory'
  <2>1. OneStory
    BY <1>3, AnswerWrites DEF AuditInv
  <2>2. counters \in [Verdicts -> Nat] /\ AgentOf[r] \in Agents
    BY DEF Shape, TypeOK, ServiceAssumption
  <2>3. CASE Entry[r] = "execute"
    <3>1. counters' = [counters EXCEPT ![verdict] = counters[verdict] + 1]
      BY <1>3, <2>3, AnswerWrites
    <3>2. ASSUME NEW v \in Verdicts PROVE counters'[v] = Cardinality(Executed(v)')
      <4>1. counters[v] = Cardinality(Executed(v)) /\ IsFiniteSet(Executed(v)) /\ counters[v] \in Nat
        BY <2>1, <2>2 DEF OneStory, AuditInv
      <4>2. CASE v = verdict
        <5>1. Executed(v)' = Executed(v) \cup {r} /\ r \notin Executed(v)
          BY <2>3, <4>2, AnswerExecuted
        <5>2. Cardinality(Executed(v) \cup {r}) = Cardinality(Executed(v)) + 1
          BY <4>1, <5>1, FS_AddElement
        <5>3. counters'[v] = counters[v] + 1
          BY <2>2, <3>1, <4>2
        <5>4. QED
          BY <4>1, <5>1, <5>2, <5>3
      <4>3. CASE v # verdict
        <5>1. Executed(v)' = Executed(v)
          BY <4>3, AnswerExecuted
        <5>2. counters'[v] = counters[v]
          BY <2>2, <3>1, <4>3
        <5>3. QED
          BY <4>1, <5>1, <5>2
      <4>4. QED
        BY <4>2, <4>3
    <3>3. ASSUME NEW a \in Agents
          PROVE  /\ NewestFirst(decisions'[a], told'[a])
                 /\ SinceSilence(agentSession'[a], told'[a], now') /\ KeyLasts(a)'
      BY <1>3, <2>1, <2>3, AnswerTold DEF OneStory
    <3>4. QED
      BY <3>2, <3>3 DEF OneStory
  <2>4. CASE Entry[r] # "execute"
    <3>1. UNCHANGED <<counters, agentSession, agentExpire, decisions, told, now>>
      BY <1>3, <2>4, AnswerWrites DEF Answer
    <3>2. \A v \in Verdicts : Executed(v)' = Executed(v)
      BY <2>4, AnswerExecuted
    <3>3. QED
      BY <2>1, <3>1, <3>2 DEF OneStory, KeyLasts
  <2>5. QED
    BY <2>3, <2>4
<1>4. QED
  BY <1>1, <1>2, <1>3 DEF AuditInv

LEMMA AuditInvariant == Spec => []AuditInv
<1>1. Init => AuditInv
  <2> SUFFICES ASSUME Init PROVE AuditInv
    OBVIOUS
  <2>1. /\ reply = [r \in Requests |-> "none"] /\ counters = [v \in Verdicts |-> 0]
        /\ \A a \in Agents : agentSession[a] = <<>> /\ decisions[a] = <<>> /\ told[a] = <<>>
    BY DEF Init, Per
  <2>2. \A v \in Verdicts : Executed(v) = {}
    BY <2>1 DEF Executed, Verdicts
  <2>3. Cardinality({}) = 0 /\ IsFiniteSet({})
    BY FS_EmptySet
  <2>4. \A v \in Verdicts : counters[v] = Cardinality(Executed(v))
    BY <2>1, <2>2, <2>3
  <2>5. PICK none : none = <<>> /\ Len(none) = 0
    BY EmptySeq
  <2>6. NewestFirst(none, none) /\ SinceSilence(none, none, now)
    BY <2>5 DEF NewestFirst, SinceSilence
  <2>6a. \A a \in Agents : /\ NewestFirst(decisions[a], told[a])
                            /\ SinceSilence(agentSession[a], told[a], now) /\ KeyLasts(a)
    BY Zenon, <2>1, <2>5, <2>6 DEF KeyLasts
  <2>7. QED
    BY <2>1, <2>2, <2>3, <2>4, <2>6a DEF AuditInv, OneStory
<1>2. Shape /\ AuditInv /\ [Next]_vars => AuditInv'
  <2> SUFFICES ASSUME Shape, AuditInv, [Next]_vars PROVE AuditInv'
    OBVIOUS
  <2>1. ASSUME NEW r \in Requests, Serve(r) PROVE AuditInv'
    <3>0. pc \in [Requests -> {"idle", "opening", "gather", "stages", "done"}]
      BY DEF Shape, TypeOK
    <3>1. CASE Arrive(r) /\ r \in Refused
      <4>1. /\ Answer(r, "BLOCKED", Entry[r] = "triage") /\ "BLOCKED" \in Verdicts
            /\ pc[r] # "done" /\ pc' = [pc EXCEPT ![r] = "done"] /\ now' = now
        BY <3>1 DEF Arrive, Finish, Verdicts, Untouched
      <4>2. QED
        BY <4>1, AnswerAudits
    <3>2. CASE Conclude(r)
      <4>1. pc[r] # "done" /\ pc' = [pc EXCEPT ![r] = "done"] /\ now' = now
        BY <3>2 DEF Conclude, Finish, Untouched
      <4>2. PICK verdict \in Verdicts : Answer(r, verdict, TRUE)
        BY <3>2, ConcludeFacts
      <4>3. QED
        BY <4>1, <4>2, AnswerAudits
    <3>3. CASE ~(Arrive(r) /\ r \in Refused) /\ ~Conclude(r)
      <4>1. UNCHANGED <<reply, counters, agentSession, agentExpire, decisions, told, now>>
        BY <2>1, <3>3 DEF Serve, Arrive, redisVars, OpenSession, Gather, ReadSession,
             DriftTimeout, AppendDrift, DriftOnly
      <4>2. \A q \in Requests : pc'[q] # "done" => pc[q] # "done"
        BY <2>1, <3>0, ServeMoves
      <4>3. faults' = 0 => faults = 0
        BY <2>1, FaultsGrow
      <4>4. QED
        BY <4>1, <4>2, <4>3 DEF AuditInv, OneStory, KeyLasts, Executed
    <3>4. QED
      BY <3>1, <3>2, <3>3
  <2>2. CASE Tick
    <3>1. UNCHANGED <<pc, reply, counters, faults>>
      BY <2>2 DEF Tick
    <3>2. OneStory => \A a \in Agents : /\ NewestFirst(decisions'[a], told'[a])
                                         /\ SinceSilence(agentSession'[a], told'[a], now')
                                         /\ KeyLasts(a)'
      BY <2>2, TickTells
    <3>3. QED
      BY <3>1, <3>2 DEF AuditInv, OneStory, Executed
  <2>3. CASE UNCHANGED vars
    BY <2>3 DEF AuditInv, OneStory, KeyLasts, Executed, vars, redisVars, history
  <2>4. QED
    BY <2>1, <2>2, <2>3 DEF Next, Quiet
<1>3. QED
  BY <1>1, <1>2, ShapeInvariant, PTL DEF Spec

\* While Redis has not failed, the counters count every answer /execute gave, the decision log
\* holds an agent's newest verdicts up to its cap, and its session those since the key expired.
THEOREM AuditTrailKept == Spec => []AuditTrail
<1>1. AuditInv => AuditTrail
  BY DEF AuditInv, OneStory, Executed, AuditTrail
<1>2. QED
  BY <1>1, AuditInvariant, PTL

----------------------------------------------------------------------------
(* From a request's arrival to its answer.                                 *)

\* The most steps a request has still to take, in the coroutine and on the thread of stage 5.
StepsLeft(at, thread) ==
    CASE at = "idle" -> 6 [] at = "opening" -> 5 [] at = "gather" -> 4
      [] at = "stages" -> (CASE thread = "reading" -> 3 [] thread = "read" -> 2 [] OTHER -> 1)
      [] OTHER -> 0

\* Every step of a request brings it nearer to its answer, a thread that comes back after its time
\* limit takes none, and whatever the others do leaves it where it is with the answer it has.
AnsweredInSteps ==
    [][\A r \in Requests :
          \/ StepsLeft(pc'[r], drift'[r]) < StepsLeft(pc[r], drift[r]) /\ pc[r] # "done"
          \/ pc'[r] = pc[r] /\ drift'[r] = drift[r] /\ reply'[r] = reply[r]]_vars

\* Stage 5 is under way while its request awaits the stages, and an answer ends a request.
StandsAt(r) ==
    /\ pc[r] = "stages" <=> drift[r] # "none" /\ reply[r] = "none"
    /\ pc[r] = "done" <=> reply[r] # "none"
    /\ drift[r] \in {"reading", "read"} => pc[r] = "stages"

\* What one request's step leaves of another.
Elsewhere(q) == pc'[q] = pc[q] /\ drift'[q] = drift[q] /\ reply'[q] = reply[q]

LEMMA OneServed ==
    ASSUME Shape, NEW r \in Requests, StandsAt(r), Serve(r)
    PROVE  /\ StepsLeft(pc'[r], drift'[r]) < StepsLeft(pc[r], drift[r]) /\ pc[r] # "done"
           /\ StandsAt(r)'
           /\ \A q \in Requests : q # r => Elsewhere(q)
<1>t. /\ pc \in [Requests -> {"idle", "opening", "gather", "stages", "done"}]
      /\ drift \in [Requests -> {"none", "reading", "read", "scored", "timeout"}]
      /\ reply \in [Requests -> Verdicts \cup {"none"}]
  BY DEF Shape, TypeOK
<1> USE DEF StandsAt, Elsewhere, StepsLeft
<1>1. CASE Arrive(r) /\ r \in Refused
  <2>1. /\ pc[r] = "idle" /\ pc' = [pc EXCEPT ![r] = "done"] /\ drift' = drift
        /\ reply' = [reply EXCEPT ![r] = "BLOCKED"]
    BY <1>1 DEF Arrive, Finish, Answer, Untouched
  <2>2. QED
    BY <1>t, <2>1
<1>2. CASE Arrive(r) /\ r \notin Refused
  <2>1. /\ pc[r] = "idle" /\ UNCHANGED <<drift, reply>>
        /\ \E p \in {"opening", "gather"} : pc' = [pc EXCEPT ![r] = p]
    BY <1>2 DEF Arrive
  <2>2. QED
    BY <1>t, <2>1
<1>3. CASE OpenSession(r)
  BY <1>t, <1>3 DEF OpenSession
<1>4. CASE Gather(r)
  BY <1>t, <1>4 DEF Gather
<1>5. CASE ReadSession(r) \/ DriftTimeout(r) \/ AppendDrift(r)
  <2>1. /\ UNCHANGED <<pc, reply>>
        /\ \/ drift[r] = "reading" /\ drift' = [drift EXCEPT ![r] = "read"]
           \/ drift[r] \in {"reading", "read"} /\ drift' = [drift EXCEPT ![r] = "timeout"]
           \/ drift[r] = "read" /\ drift' = [drift EXCEPT ![r] = "scored"]
    BY <1>5 DEF ReadSession, DriftTimeout, AppendDrift, DriftOnly
  <2>2. QED
    BY <1>t, <2>1
<1>6. CASE Conclude(r)
  <2>1. pc[r] = "stages" /\ drift[r] \in {"scored", "timeout"} /\ drift' = drift
    BY <1>6 DEF Conclude, Untouched
  <2>2. PICK verdict \in Verdicts : Answer(r, verdict, TRUE)
    BY <1>6, ConcludeFacts
  <2>3. pc' = [pc EXCEPT ![r] = "done"] /\ reply' = [reply EXCEPT ![r] = verdict]
    BY <1>6, <2>2 DEF Conclude, Finish, Answer
  <2>4. verdict # "none"
    BY DEF Verdicts
  <2>5. QED
    BY <1>t, <2>1, <2>3, <2>4
<1>7. QED
  BY <1>1, <1>2, <1>3, <1>4, <1>5, <1>6 DEF Serve

LEMMA EachServed ==
    ASSUME Shape, \A r \in Requests : StandsAt(r), [Next]_vars, NEW q \in Requests
    PROVE  /\ StandsAt(q)'
           /\ \/ StepsLeft(pc'[q], drift'[q]) < StepsLeft(pc[q], drift[q]) /\ pc[q] # "done"
              \/ Elsewhere(q)
<1>1. CASE Elsewhere(q)
  BY <1>1 DEF Elsewhere, StandsAt
<1>2. ASSUME NEW r \in Requests, Serve(r)
      PROVE  \/ Elsewhere(q)
             \/ /\ StepsLeft(pc'[q], drift'[q]) < StepsLeft(pc[q], drift[q]) /\ pc[q] # "done"
                /\ StandsAt(q)'
  BY <1>2, OneServed
<1>3. Tick \/ Quiet \/ UNCHANGED vars => Elsewhere(q)
  BY DEF Tick, Quiet, vars, Elsewhere
<1>4. QED
  BY <1>1, <1>2, <1>3 DEF Next

\* For any requests that overlap, sessions they share and writes that fail: each is answered within
\* six steps of its own, once.
THEOREM AnsweredOnce == Spec => AnsweredInSteps
<1> DEFINE AllStand == \A r \in Requests : StandsAt(r)
<1>1. Init => AllStand
  BY DEF Init, StandsAt, Per
<1>2. Shape /\ AllStand /\ [Next]_vars => AllStand'
  BY EachServed
<1>3. Shape /\ AllStand /\ [Next]_vars =>
         [\A r \in Requests :
             \/ StepsLeft(pc'[r], drift'[r]) < StepsLeft(pc[r], drift[r]) /\ pc[r] # "done"
             \/ pc'[r] = pc[r] /\ drift'[r] = drift[r] /\ reply'[r] = reply[r]]_vars
  BY EachServed DEF Elsewhere
<1> HIDE DEF AllStand
<1>4. QED
  BY <1>1, <1>2, <1>3, ShapeInvariant, PTL DEF Spec, AnsweredInSteps
=============================================================================
