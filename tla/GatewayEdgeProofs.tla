------------------------- MODULE GatewayEdgeProofs -------------------------
(***************************************************************************)
(* The gateway's protection against load, for any number of requests,      *)
(* slots, agents and sources, tables of any size and any thresholds: first *)
(* the middlewares (GatewayEdge), then the two guards (GatewayGuards),     *)
(* which share no state with them.                                         *)
(***************************************************************************)
EXTENDS GatewayEdge, GatewayGuards, FiniteSetTheorems, SequenceTheorems, TLAPS

-----------------------------------------------------------------------------
(* The middlewares. *)

\* Every variable keeps its type, active_requests never goes negative included.
THEOREM TypeCorrect == Spec => []TypeOK
<1>1. Init => TypeOK
  BY EdgeAssumption DEF Init, TypeOK, Codes
<1>2. TypeOK /\ [Next]_vars => TypeOK'
  <2> SUFFICES ASSUME TypeOK, [Next]_vars PROVE TypeOK'
    OBVIOUS
  <2> USE EdgeAssumption DEF TypeOK, Codes
  <2>1. ASSUME NEW r \in Requests, SizeLimit(r) \/ Shed(r) PROVE TypeOK'
    BY <2>1 DEF SizeLimit, Shed, Move
  <2>2. ASSUME NEW r \in Requests, Admit(r) PROVE TypeOK'
    BY <2>2 DEF Admit
  <2>3. ASSUME NEW r \in Requests, EndpointEnds(r) PROVE TypeOK'
    BY <2>3 DEF EndpointEnds, Move
  <2>4. ASSUME NEW r \in Requests, PaddingEnds(r) \/ TimeUp(r) PROVE TypeOK'
    BY <2>4 DEF PaddingEnds, TimeUp, Move
  <2>5. ASSUME NEW r \in Requests, Leave(r) PROVE TypeOK'
    BY <2>5 DEF Leave, Released, Move
  <2>6. CASE Tick
    BY <2>6 DEF Tick, Timed
  <2>7. CASE Quiet \/ UNCHANGED vars
    BY <2>7 DEF Quiet, vars
  <2>8. QED
    BY <2>1, <2>2, <2>3, <2>4, <2>5, <2>6, <2>7 DEF Next
<1>3. QED
  BY <1>1, <1>2, PTL DEF Spec

----------------------------------------------------------------------------
(* The slots.  Only Admit puts a request among those that hold one, only   *)
(* Leave takes it out, and each changes the counter with it.               *)

LEMMA HoldingFinite == IsFiniteSet(Holding) /\ Cardinality(Holding) \in Nat
<1>1. Holding \in SUBSET Requests
  BY DEF Holding
<1>2. IsFiniteSet(Holding)
  BY <1>1, FS_Subset, EdgeAssumption
<1>3. QED
  BY <1>2, FS_CardinalityType

\* The counter is exact and within its maximum, however requests leave.
THEOREM SlotsExact == Spec => []SlotsCounted
<1>1. Init => SlotsCounted
  <2> SUFFICES ASSUME Init PROVE SlotsCounted
    OBVIOUS
  <2>1. Holding = {}
    BY DEF Init, Holding
  <2>2. QED
    BY <2>1, FS_EmptySet, EdgeAssumption DEF Init, SlotsCounted
<1>2. TypeOK /\ SlotsCounted /\ [Next]_vars => SlotsCounted'
  <2> SUFFICES ASSUME TypeOK, SlotsCounted, [Next]_vars PROVE SlotsCounted'
    OBVIOUS
  <2>1. ASSUME Holding' = Holding, active' = active PROVE SlotsCounted'
    BY <2>1 DEF SlotsCounted
  <2>2. ASSUME NEW r \in Requests, SizeLimit(r) \/ Shed(r) PROVE SlotsCounted'
    <3>1. Holding' = Holding /\ active' = active
      BY <2>2 DEF SizeLimit, Shed, Move, Holding, TypeOK
    <3>2. QED
      BY <3>1, <2>1
  <2>3. ASSUME NEW r \in Requests, Admit(r) PROVE SlotsCounted'
    <3>1. CASE r \in Excluded
      <4>1. Holding' = Holding /\ active' = active
        BY <2>3, <3>1 DEF Admit, Holding, TypeOK
      <4>2. QED
        BY <4>1, <2>1
    <3>2. CASE r \notin Excluded
      <4>1. active' = active + 1 /\ active < MaxActive
        BY <2>3, <3>2 DEF Admit, HasSlot
      <4>2. r \notin Holding /\ Holding' = Holding \cup {r}
        BY <2>3, <3>2 DEF Admit, Holding, TypeOK
      <4>3. Cardinality(Holding') = Cardinality(Holding) + 1
        BY <4>2, HoldingFinite, FS_AddElement
      <4>4. QED
        BY <4>1, <4>3, EdgeAssumption DEF SlotsCounted, TypeOK
    <3>3. QED
      BY <3>1, <3>2
  <2>4. ASSUME NEW r \in Requests, EndpointEnds(r) PROVE SlotsCounted'
    <3>1. Holding' = Holding /\ active' = active
      BY <2>4 DEF EndpointEnds, Awaited, Move, Holding, TypeOK
    <3>2. QED
      BY <3>1, <2>1
  <2>5. ASSUME NEW r \in Requests, PaddingEnds(r) \/ TimeUp(r) PROVE SlotsCounted'
    <3>1. Holding' = Holding /\ active' = active
      BY <2>5 DEF PaddingEnds, TimeUp, LimitReached, Move, Holding, TypeOK
    <3>2. QED
      BY <3>1, <2>1
  <2>6. ASSUME NEW r \in Requests, Leave(r) PROVE SlotsCounted'
    <3>1. CASE r \in Excluded
      <4>1. Holding' = Holding /\ active' = active
        BY <2>6, <3>1 DEF Leave, Released, Move, Holding, TypeOK
      <4>2. QED
        BY <4>1, <2>1
    <3>2. CASE r \notin Excluded
      <4>1. r \in Holding /\ Holding' = Holding \ {r}
        BY <2>6, <3>2 DEF Leave, Move, Holding, TypeOK
      <4>2. Cardinality(Holding') = Cardinality(Holding) - 1
        BY <4>1, HoldingFinite, FS_RemoveElement
      <4>3. Cardinality(Holding) # 0
        BY <4>1, HoldingFinite, FS_EmptySet
      <4>4. active' = active - 1
        BY <2>6, <3>2, <4>3 DEF Leave, Released, SlotsCounted
      <4>5. QED
        BY <4>2, <4>4, EdgeAssumption DEF SlotsCounted, TypeOK
    <3>3. QED
      BY <3>1, <3>2
  <2>7. CASE Tick \/ Quiet \/ UNCHANGED vars
    <3>1. Holding' = Holding /\ active' = active
      BY <2>7 DEF Tick, Quiet, vars, Holding
    <3>2. QED
      BY <3>1, <2>1
  <2>8. QED
    BY <2>2, <2>3, <2>4, <2>5, <2>6, <2>7 DEF Next
<1>3. QED
  BY <1>1, <1>2, TypeCorrect, PTL DEF Spec

----------------------------------------------------------------------------
(* The endpoints at work, and the answers.                                 *)

\* An endpoint runs while its request is awaited, or after a 504; a request still
\* inside or being padded has no answer yet.
Unfinished ==
    \A r \in Requests :
        /\ work[r] = "running" =>
              \/ pc[r] = "inside"
              \/ r \notin Excluded /\ pc[r] \in {"leaving", "answered"} /\ code[r] = "timeout"
        /\ code[r] # "none" <=> pc[r] \in {"leaving", "answered"}
        /\ pc[r] = "padding" => work[r] = "ended"

LEMMA UnfinishedHolds == Spec => []Unfinished
<1>1. Init => Unfinished
  BY DEF Init, Unfinished
<1>2. TypeOK /\ Unfinished /\ [Next]_vars => Unfinished'
  <2> SUFFICES ASSUME TypeOK, Unfinished, [Next]_vars PROVE Unfinished'
    OBVIOUS
  <2> USE DEF TypeOK, Unfinished
  <2>1. ASSUME NEW r \in Requests, SizeLimit(r) \/ Shed(r) PROVE Unfinished'
    BY <2>1 DEF SizeLimit, Shed, Move
  <2>2. ASSUME NEW r \in Requests, Admit(r) PROVE Unfinished'
    BY <2>2 DEF Admit
  <2>3. ASSUME NEW r \in Requests, EndpointEnds(r) PROVE Unfinished'
    BY <2>3 DEF EndpointEnds, Awaited, Move
  <2>4. ASSUME NEW r \in Requests, PaddingEnds(r) \/ TimeUp(r) PROVE Unfinished'
    BY <2>4 DEF PaddingEnds, TimeUp, LimitReached, Move
  <2>5. ASSUME NEW r \in Requests, Leave(r) PROVE Unfinished'
    BY <2>5 DEF Leave, Move
  <2>6. CASE Tick \/ Quiet \/ UNCHANGED vars
    BY <2>6 DEF Tick, Quiet, vars
  <2>7. QED
    BY <2>1, <2>2, <2>3, <2>4, <2>5, <2>6 DEF Next
<1>3. QED
  BY <1>1, <1>2, TypeCorrect, PTL DEF Spec

\* No more endpoints run than there are slots, those left behind by a 504 aside.
THEOREM WorkStaysBounded == Spec => []WorkBounded
<1>1. Unfinished /\ SlotsCounted => WorkBounded
  <2> SUFFICES ASSUME Unfinished, SlotsCounted PROVE WorkBounded
    OBVIOUS
  <2>1. Working \ LeftBehind \in SUBSET Holding
    BY DEF Working, LeftBehind, Holding, Unfinished
  <2>2. Cardinality(Working \ LeftBehind) <= Cardinality(Holding)
        /\ Cardinality(Working \ LeftBehind) \in Nat
    BY <2>1, HoldingFinite, FS_Subset, FS_CardinalityType
  <2>3. QED
    BY <2>2, HoldingFinite, EdgeAssumption DEF SlotsCounted, WorkBounded
<1>2. QED
  BY <1>1, UnfinishedHolds, SlotsExact, PTL

\* No step changes an answer once there is one.
THEOREM OneAnswerOnly == Spec => OneAnswer
<1> DEFINE Kept == \A r \in Requests : code[r] # "none" => code'[r] = code[r]
<1>1. TypeOK /\ Unfinished /\ [Next]_vars => [Kept]_vars
  <2> SUFFICES ASSUME TypeOK, Unfinished, Next PROVE Kept
    OBVIOUS
  <2> USE DEF TypeOK, Unfinished
  <2>1. ASSUME NEW r \in Requests, SizeLimit(r) \/ Shed(r) PROVE Kept
    BY <2>1 DEF SizeLimit, Shed, Move
  <2>2. ASSUME NEW r \in Requests, Admit(r) PROVE Kept
    BY <2>2 DEF Admit
  <2>3. ASSUME NEW r \in Requests, EndpointEnds(r) PROVE Kept
    BY <2>3 DEF EndpointEnds, Awaited, Move
  <2>4. ASSUME NEW r \in Requests, PaddingEnds(r) \/ TimeUp(r) PROVE Kept
    BY <2>4 DEF PaddingEnds, TimeUp, LimitReached, Move
  <2>5. ASSUME NEW r \in Requests, Leave(r) PROVE Kept
    BY <2>5 DEF Leave, Move
  <2>6. CASE Tick \/ Quiet
    BY <2>6 DEF Tick, Quiet, vars
  <2>7. QED
    BY <2>1, <2>2, <2>3, <2>4, <2>5, <2>6 DEF Next
<1>2. QED
  BY <1>1, TypeCorrect, UnfinishedHolds, PTL DEF Spec, OneAnswer

-----------------------------------------------------------------------------
(* The guards.                                                             *)
(*                                                                         *)
(* The profiles are of agents, and the metrics judge each as is_suspicious *)
(* does: the two differ in shape only.                                     *)

ProfilesOfAgents == DOMAIN profiles \subseteq Agents

LEMMA TableOf ==
    ASSUME NEW T, NEW table, NEW x \in T, NEW old, NEW e, DOMAIN table \subseteq T
    PROVE  DOMAIN With(table, x, old, e) \subseteq T
BY DEF With

LEMMA ProfilesStep == ProfilesOfAgents /\ [GuardsNext]_guardsVars => ProfilesOfAgents'
<1> SUFFICES ASSUME ProfilesOfAgents, [GuardsNext]_guardsVars PROVE ProfilesOfAgents'
  OBVIOUS
<1>1. ASSUME NEW a \in Agents, NEW tool \in Tools, RecordRequest(a, tool) PROVE ProfilesOfAgents'
  <2>1. \E e : profiles' = With(profiles, a, Evicted(a), e)
    BY <1>1 DEF RecordRequest
  <2>2. QED
    BY <2>1, TableOf DEF ProfilesOfAgents
<1>2. ASSUME NEW a \in Agents, RecordFailure(a) \/ RecordBlock(a) PROVE ProfilesOfAgents'
  BY <1>2 DEF RecordFailure, RecordBlock, ProfilesOfAgents
<1>3. ASSUME UNCHANGED profiles PROVE ProfilesOfAgents'
  BY <1>3 DEF ProfilesOfAgents
<1>4. ASSUME NEW a \in Agents, Succeed(a) PROVE UNCHANGED profiles
  BY <1>4 DEF Succeed
<1>5. ASSUME NEW t \in Tasks, GetSuspiciousAgents(t) \/ Wait(t) PROVE UNCHANGED profiles
  BY <1>5 DEF GetSuspiciousAgents, Wait
<1>6. ASSUME NEW s \in Sources, RecordInternal(s) \/ RecordSuspicious(s) PROVE UNCHANGED profiles
  BY <1>6 DEF RecordInternal, RecordSuspicious, FailureStep, behaviorVars
<1>7. ASSUME GuardsTick \/ UNCHANGED guardsVars PROVE UNCHANGED profiles
  BY <1>7 DEF GuardsTick, FailureStep, behaviorVars, guardsVars
<1>8. QED
  BY <1>1, <1>2, <1>3, <1>4, <1>5, <1>6, <1>7 DEF GuardsNext

\* The chain of elif in get_metrics and the returns of is_suspicious judge a profile alike.
LEMMA SameJudgement ==
    ASSUME NEW p
    PROVE  Counted(p) <=> FailureRateHigh(p) \/ BlockRateHigh(p) \/ Spike(p) \/ Focus(p)
BY DEF Counted

\* /metrics/security counts exactly the agents is_suspicious names.
THEOREM MetricsTrue == GuardsSpec => []MetricsAgree
<1>1. GuardsInit => ProfilesOfAgents
  BY DEF GuardsInit, ProfilesOfAgents, Empty
<1>2. ProfilesOfAgents => MetricsAgree
  <2> SUFFICES ASSUME ProfilesOfAgents
               PROVE  {a \in DOMAIN profiles :
                          profiles[a].requests >= MinRequests /\ Counted(profiles[a])}
                      = {a \in Agents : IsSuspicious(a)}
    BY DEF MetricsAgree, SuspectsCounted
  <2>1. ASSUME NEW a \in DOMAIN profiles
        PROVE  IsSuspicious(a) <=> profiles[a].requests >= MinRequests /\ Counted(profiles[a])
    BY <2>1, SameJudgement DEF IsSuspicious
  <2>2. \A a : IsSuspicious(a) => a \in DOMAIN profiles
    BY DEF IsSuspicious
  <2>3. QED
    BY <2>1, <2>2 DEF ProfilesOfAgents
<1>3. QED
  BY <1>1, <1>2, ProfilesStep, PTL DEF GuardsSpec

-----------------------------------------------------------------------------
(* A tracker never counts more than its source has done, whether it is new *)
(* or was kept through the evictions of others.                            *)

Counts == [suspicious : Nat, last : Nat, start : Nat]

TrackerInv ==
    /\ clock \in Nat /\ guilty \in [Sources -> Nat]
    /\ DOMAIN trackers \subseteq Sources
    /\ \A s \in DOMAIN trackers : trackers[s] \in Counts /\ trackers[s].suspicious <= guilty[s]

\* The tracker a failure of s is recorded in, before it is.
LEMMA TrackerFound ==
    ASSUME TrackerInv, NEW s \in Sources
    PROVE  TrackerOf(s) \in Counts /\ TrackerOf(s).suspicious <= guilty[s]
BY DEF TrackerInv, TrackerOf, Counts

LEMMA CountedUp ==
    ASSUME NEW t \in Counts, NEW now \in Nat
    PROVE  /\ [t EXCEPT !.suspicious = @ + 1, !.last = now] \in Counts
           /\ [t EXCEPT !.suspicious = @ + 1, !.last = now].suspicious = t.suspicious + 1
<1>1. t.suspicious \in Nat
  BY DEF Counts
<1>2. ASSUME NEW n \in Nat
      PROVE  /\ [t EXCEPT !.suspicious = n, !.last = now] \in Counts
             /\ [t EXCEPT !.suspicious = n, !.last = now].suspicious = n
  BY DEF Counts
<1>3. t.suspicious + 1 \in Nat
  BY <1>1
<1>4. QED
  BY <1>2, <1>3, Zenon

\* A step that gives s the entry e, which counts no more than s has done.
LEMMA Recorded ==
    ASSUME TrackerInv, NEW s \in Sources, NEW old, NEW e \in Counts,
           trackers' = With(trackers, s, old, e), clock' = clock,
           guilty' \in [Sources -> Nat], \A u \in Sources : guilty[u] <= guilty'[u],
           e.suspicious <= guilty'[s]
    PROVE  TrackerInv'
<1>1. DOMAIN trackers' = (DOMAIN trackers \ old) \cup {s} /\ trackers'[s] = e
  BY DEF With
<1>2. \A u \in DOMAIN trackers' \ {s} : u \in DOMAIN trackers /\ trackers'[u] = trackers[u]
  BY DEF With
<1>3. ASSUME NEW u \in DOMAIN trackers'
      PROVE  trackers'[u] \in Counts /\ trackers'[u].suspicious <= guilty'[u]
  <2>1. CASE u = s
    BY <1>1, <2>1
  <2>2. CASE u # s
    <3>1. u \in Sources /\ u \in DOMAIN trackers /\ trackers'[u] = trackers[u]
      BY <1>2, <1>3, <2>2 DEF TrackerInv
    <3>2. trackers[u] \in Counts /\ trackers[u].suspicious <= guilty[u] /\ guilty[u] <= guilty'[u]
      BY <3>1 DEF TrackerInv
    <3>3. trackers[u].suspicious \in Nat /\ guilty[u] \in Nat /\ guilty'[u] \in Nat
      BY <3>1, <3>2 DEF TrackerInv, Counts
    <3>4. QED
      BY <3>1, <3>2, <3>3
  <2>3. QED
    BY <2>1, <2>2
<1>4. QED
  BY <1>1, <1>3 DEF TrackerInv

LEMMA TrackerStep == TrackerInv /\ [GuardsNext]_guardsVars => TrackerInv'
<1> SUFFICES ASSUME TrackerInv, [GuardsNext]_guardsVars PROVE TrackerInv'
  OBVIOUS
<1>1. ASSUME NEW s \in Sources, RecordInternal(s) PROVE TrackerInv'
  <2> DEFINE e == [TrackerOf(s) EXCEPT !.suspicious = CountsInternal(@), !.last = clock]
  <2>1. PICK old \in Dropped(s) : trackers' = With(trackers, s, old, e)
    BY <1>1 DEF RecordInternal
  <2>2. clock' = clock /\ guilty' = guilty /\ clock \in Nat /\ guilty \in [Sources -> Nat]
    BY <1>1 DEF RecordInternal, TrackerInv
  <2>3. e \in Counts /\ e.suspicious = TrackerOf(s).suspicious
    BY <2>2, TrackerFound DEF CountsInternal, Counts
  <2>4. e.suspicious <= guilty'[s] /\ \A u \in Sources : guilty[u] <= guilty'[u]
    BY <2>2, <2>3, TrackerFound
  <2> HIDE DEF e
  <2>5. QED
    BY <2>1, <2>2, <2>3, <2>4, Recorded
<1>2. ASSUME NEW s \in Sources, RecordSuspicious(s) PROVE TrackerInv'
  <2> DEFINE e == [TrackerOf(s) EXCEPT !.suspicious = @ + 1, !.last = clock]
  <2>1. PICK old \in Dropped(s) : trackers' = With(trackers, s, old, e)
    BY <1>2 DEF RecordSuspicious
  <2>2. /\ clock' = clock /\ clock \in Nat /\ guilty \in [Sources -> Nat]
        /\ guilty' = [guilty EXCEPT ![s] = @ + 1]
    BY <1>2 DEF RecordSuspicious, TrackerInv
  <2>3. TrackerOf(s) \in Counts /\ TrackerOf(s).suspicious <= guilty[s]
    BY TrackerFound
  <2>4. e \in Counts /\ e.suspicious = TrackerOf(s).suspicious + 1
    BY <2>2, <2>3, CountedUp
  <2>5. guilty' \in [Sources -> Nat] /\ \A u \in Sources : guilty[u] <= guilty'[u]
    BY <2>2
  <2>6. e.suspicious <= guilty'[s]
    <3>1. TrackerOf(s).suspicious \in Nat /\ guilty[s] \in Nat /\ guilty'[s] = guilty[s] + 1
      BY <2>2, <2>3 DEF Counts
    <3>2. QED
      BY <2>3, <2>4, <3>1
  <2> HIDE DEF e
  <2>7. QED
    BY <2>1, <2>2, <2>4, <2>5, <2>6, Recorded
<1>3. CASE GuardsTick
  BY <1>3 DEF GuardsTick, TrackerInv
<1>4. ASSUME UNCHANGED failureVars PROVE TrackerInv'
  BY <1>4 DEF failureVars, TrackerInv
<1>5. QED
  BY <1>1, <1>2, <1>3, <1>4
  DEF GuardsNext, Succeed, RecordFailure, RecordBlock, RecordRequest, GetSuspiciousAgents, Wait,
      BehaviorStep, guardsVars

\* No source is held suspicious for what others did, or for failures that were the system's own.
THEOREM RightlyAccused == GuardsSpec => []AccusedRightly
<1>1. GuardsInit => TrackerInv
  BY DEF GuardsInit, TrackerInv, Empty
<1>2. TrackerInv => AccusedRightly
  <2> SUFFICES ASSUME TrackerInv, NEW s \in Sources, IsSuspiciousSource(s)
               PROVE  guilty[s] > RateThreshold * (clock - trackers[s].start)
    BY DEF AccusedRightly
  <2> DEFINE allowed == RateThreshold * (clock - trackers[s].start)
  <2>1. trackers[s] \in Counts /\ trackers[s].suspicious <= guilty[s] /\ guilty[s] \in Nat
    BY DEF IsSuspiciousSource, TrackerInv
  <2>2. trackers[s].suspicious > allowed
    BY DEF IsSuspiciousSource
  <2>3. trackers[s].start \in Nat /\ trackers[s].suspicious \in Nat /\ clock \in Nat
    BY <2>1 DEF Counts, TrackerInv
  <2>4. allowed \in Int
    BY <2>3, GuardsAssumption
  <2> HIDE DEF allowed
  <2>5. guilty[s] > allowed
    BY <2>1, <2>2, <2>3, <2>4
  <2>6. QED
    BY <2>5 DEF allowed
<1>3. QED
  BY <1>1, <1>2, TrackerStep, PTL DEF GuardsSpec
-----------------------------------------------------------------------------
(* Types.  That the tables keep their limits and that recency is exactly   *)
(* the agents that are tracked go together: the one that makes room is the *)
(* head of the list, and the one that comes goes to its end.               *)

\* A table that has room, or has been made room in, keeps its limit.
LEMMA Fits ==
    ASSUME NEW table, NEW x, NEW old, NEW e, NEW limit \in Nat \ {0},
           IsFiniteSet(DOMAIN table), Cardinality(DOMAIN table) <= limit,
           \/ old = {} /\ (x \in DOMAIN table \/ Cardinality(DOMAIN table) < limit)
           \/ \E u \in DOMAIN table : old = {u}
    PROVE  /\ IsFiniteSet(DOMAIN With(table, x, old, e))
           /\ Cardinality(DOMAIN With(table, x, old, e)) <= limit
<1> DEFINE D == DOMAIN table
           K == D \ old
<1>1. DOMAIN With(table, x, old, e) = K \cup {x} /\ Cardinality(D) \in Nat
  BY FS_CardinalityType DEF With
<1>2. CASE old = {} /\ x \in D
  <2>1. K \cup {x} = D
    BY <1>2
  <2>2. QED
    BY <1>1, <2>1
<1>3. CASE old = {} /\ Cardinality(D) < limit
  <2>1. K = D
    BY <1>3
  <2>2. IsFiniteSet(D \cup {x})
        /\ Cardinality(D \cup {x}) = IF x \in D THEN Cardinality(D) ELSE Cardinality(D) + 1
    BY FS_AddElement
  <2>3. QED
    BY <1>1, <1>3, <2>1, <2>2
<1>4. ASSUME NEW u \in D, old = {u}
      PROVE  IsFiniteSet(K \cup {x}) /\ Cardinality(K \cup {x}) <= limit
  <2>1. IsFiniteSet(K) /\ Cardinality(K) = Cardinality(D) - 1
    BY <1>4, FS_RemoveElement
  <2>2. IsFiniteSet(K \cup {x})
        /\ Cardinality(K \cup {x}) = IF x \in K THEN Cardinality(K) ELSE Cardinality(K) + 1
    BY <2>1, FS_AddElement
  <2>3. QED
    BY <1>1, <2>1, <2>2
<1>5. QED
  BY <1>1, <1>2, <1>3, <1>4

\* What is before and what is after position i.
LEMMA PartsOf ==
    ASSUME NEW S, NEW q, NEW n \in Nat, NEW i \in 1..n,
           \A j \in 1..(i - 1) : q[j] \in S, \A j \in (i + 1)..n : q[j] \in S
    PROVE  /\ SubSeq(q, 1, i - 1) \in Seq(S) /\ Len(SubSeq(q, 1, i - 1)) = i - 1
           /\ \A k \in 1..(i - 1) : SubSeq(q, 1, i - 1)[k] = q[k]
           /\ SubSeq(q, i + 1, n) \in Seq(S) /\ Len(SubSeq(q, i + 1, n)) = n - i
           /\ \A k \in 1..(n - i) : SubSeq(q, i + 1, n)[k] = q[k + i]
<1>1. PICK m \in Int : m = i - 1
  OBVIOUS
<1>2. /\ SubSeq(q, 1, m) \in Seq(S) /\ Len(SubSeq(q, 1, m)) = IF 1 <= m THEN m - 1 + 1 ELSE 0
      /\ \A k \in 1..(m - 1 + 1) : SubSeq(q, 1, m)[k] = q[1 + k - 1]
  BY <1>1, SubSeqProperties
<1>3. PICK p \in Int : p = i + 1
  OBVIOUS
<1>4. /\ SubSeq(q, p, n) \in Seq(S) /\ Len(SubSeq(q, p, n)) = IF p <= n THEN n - p + 1 ELSE 0
      /\ \A k \in 1..(n - p + 1) : SubSeq(q, p, n)[k] = q[p + k - 1]
  BY <1>3, SubSeqProperties
<1>5. /\ Len(SubSeq(q, 1, m)) = m /\ \A k \in 1..m : SubSeq(q, 1, m)[k] = q[k]
  <2>1. m - 1 + 1 = m /\ \A k \in 1..m : 1 + k - 1 = k
    BY <1>1
  <2>2. QED
    BY <1>1, <1>2, <2>1
<1>6. /\ Len(SubSeq(q, p, n)) = n - i /\ \A k \in 1..(n - i) : SubSeq(q, p, n)[k] = q[k + i]
  <2>1. n - p + 1 = n - i /\ \A k \in 1..(n - i) : p + k - 1 = k + i
    BY <1>3
  <2>2. QED
    BY <1>3, <1>4, <2>1
<1>7. QED
  BY <1>1, <1>2, <1>3, <1>4, <1>5, <1>6

\* What remains of a list without repetition when one element is taken out of it.
LEMMA TakenOut ==
    ASSUME NEW S, NEW q \in Seq(S), IsInjective(q), NEW x
    PROVE  /\ RemoveFirst(q, x) \in Seq(S) /\ IsInjective(RemoveFirst(q, x))
           /\ ToSet(RemoveFirst(q, x)) = ToSet(q) \ {x}
<1> DEFINE n == Len(q)
<1>1. n \in Nat /\ DOMAIN q = 1..n /\ \A j \in 1..n : q[j] \in S
  BY LenProperties, ElementOfSeq
<1>2. CASE ~ \E i \in 1..n : q[i] = x
  <2>1. RemoveFirst(q, x) = q
    BY <1>2 DEF RemoveFirst
  <2>2. x \notin ToSet(q)
    BY <1>1, <1>2 DEF ToSet
  <2>3. QED
    BY <2>1, <2>2
<1>3. ASSUME NEW i \in 1..n, q[i] = x
      PROVE  /\ RemoveFirst(q, x) \in Seq(S) /\ IsInjective(RemoveFirst(q, x))
             /\ ToSet(RemoveFirst(q, x)) = ToSet(q) \ {x}
  <2> DEFINE front == SubSeq(q, 1, i - 1)
             back == SubSeq(q, i + 1, n)
             t == front \o back
  <2>1. \A j \in 1..n : q[j] = x => j = i
    BY <1>1, <1>3 DEF IsInjective
  <2>2. RemoveFirst(q, x) = t
    <3>1. {j \in 1..n : q[j] = x} = {i}
      BY <1>3, <2>1
    <3>2. Min({i}) = i
      BY DEF Min
    <3>3. QED
      BY <1>3, <3>1, <3>2 DEF RemoveFirst, SelectInSeq, RemoveAt
  <2> HIDE DEF n
  <2>3. /\ front \in Seq(S) /\ Len(front) = i - 1 /\ \A k \in 1..(i - 1) : front[k] = q[k]
        /\ back \in Seq(S) /\ Len(back) = n - i /\ \A k \in 1..(n - i) : back[k] = q[k + i]
    <3>1. \A j \in 1..(i - 1) : q[j] \in S
      BY <1>1
    <3>2. \A j \in (i + 1)..n : q[j] \in S
      BY <1>1
    <3>3. QED
      BY <1>1, <3>1, <3>2, PartsOf
  <2> HIDE DEF front, back
  <2>4. t \in Seq(S) /\ Len(t) = n - 1
        /\ \A k \in 1..(n - 1) : t[k] = IF k <= i - 1 THEN front[k] ELSE back[k - (i - 1)]
    <3>1. /\ t \in Seq(S) /\ Len(t) = Len(front) + Len(back)
          /\ \A k \in 1..(Len(front) + Len(back)) :
                t[k] = IF k <= Len(front) THEN front[k] ELSE back[k - Len(front)]
      BY <2>3, ConcatProperties
    <3>2. Len(front) = i - 1 /\ Len(front) + Len(back) = n - 1
      BY <1>1, <2>3
    <3>3. QED
      BY <3>1, <3>2
  <2> HIDE DEF t
  <2>5. t \in Seq(S) /\ DOMAIN t = 1..(n - 1)
        /\ \A k \in 1..(n - 1) : t[k] = IF k < i THEN q[k] ELSE q[k + 1]
    <3>1. DOMAIN t = 1..(n - 1)
      BY <2>4, LenProperties
    <3>2. ASSUME NEW k \in 1..(n - 1), k < i PROVE t[k] = q[k]
      BY <1>1, <2>3, <2>4, <3>2
    <3>3. ASSUME NEW k \in 1..(n - 1), ~ (k < i) PROVE t[k] = q[k + 1]
      <4>1. PICK m \in 1..(n - i) : m = k - (i - 1) /\ m + i = k + 1
        BY <1>1, <3>3
      <4>2. t[k] = back[m] /\ back[m] = q[m + i]
        BY <1>1, <2>3, <2>4, <3>3, <4>1
      <4>3. QED
        BY <4>1, <4>2
    <3>4. QED
      BY <2>4, <3>1, <3>2, <3>3
  <2>6. IsInjective(t)
    <3> SUFFICES ASSUME NEW j \in 1..(n - 1), NEW k \in 1..(n - 1), t[j] = t[k] PROVE j = k
      BY <2>5 DEF IsInjective
    <3> DEFINE at(m) == IF m < i THEN m ELSE m + 1
    <3>1. at(j) \in 1..n /\ at(k) \in 1..n /\ t[j] = q[at(j)] /\ t[k] = q[at(k)]
      BY <1>1, <2>5
    <3>2. at(j) = at(k)
      BY <1>1, <3>1 DEF IsInjective
    <3>3. QED
      BY <1>1, <3>2
  <2>7. ToSet(t) = ToSet(q) \ {x}
    <3>1. ASSUME NEW k \in 1..(n - 1) PROVE t[k] \in ToSet(q) \ {x}
      <4> DEFINE m == IF k < i THEN k ELSE k + 1
      <4>1. m \in 1..n /\ m # i /\ t[k] = q[m]
        BY <1>1, <2>5
      <4>2. q[m] # x /\ q[m] \in ToSet(q)
        BY <1>1, <2>1, <4>1 DEF ToSet
      <4>3. QED
        BY <4>1, <4>2
    <3>2. ASSUME NEW m \in 1..n, q[m] # x PROVE \E k \in 1..(n - 1) : t[k] = q[m]
      <4>1. m # i
        BY <1>3, <3>2
      <4>2. CASE m < i
        BY <1>1, <2>5, <4>2
      <4>3. CASE m > i
        <5>1. m - 1 \in 1..(n - 1) /\ ~(m - 1 < i) /\ (m - 1) + 1 = m
          BY <1>1, <4>3
        <5>2. QED
          BY <2>5, <5>1
      <4>4. QED
        BY <1>1, <4>1, <4>2, <4>3
    <3>3. ToSet(t) = {t[k] : k \in 1..(n - 1)} /\ ToSet(q) = {q[m] : m \in 1..n}
      BY <1>1, <2>5 DEF ToSet
    <3>4. QED
      BY <3>1, <3>2, <3>3
  <2>8. QED
    BY <2>2, <2>5, <2>6, <2>7
<1>4. QED
  BY <1>2, <1>3

\* A list without repetition is as long as the set of what it holds.
LEMMA AsLong ==
    ASSUME NEW S, NEW q \in Seq(S), IsInjective(q)
    PROVE  IsFiniteSet(ToSet(q)) /\ Cardinality(ToSet(q)) = Len(q)
<1>1. Len(q) \in Nat /\ DOMAIN q = 1..Len(q)
  BY LenProperties
<1>2. PICK n \in Nat : n = Len(q)
  BY <1>1
<1>3. q \in [1..n -> ToSet(q)]
  <2>1. q \in [1..n -> S] /\ ToSet(q) = {q[i] : i \in 1..n}
    BY <1>1, <1>2, SeqDef DEF ToSet
  <2>2. QED
    BY <2>1
<1>4. q \in Bijection(1..n, ToSet(q))
  <2>1. \A i, j \in 1..n : q[i] = q[j] => i = j
    BY <1>1, <1>2 DEF IsInjective
  <2>2. \A e \in ToSet(q) : \E i \in 1..n : q[i] = e
    BY <1>1, <1>2 DEF ToSet
  <2>3. QED
    BY <1>3, <2>1, <2>2 DEF Bijection, Injection, Surjection, IsInjective
<1>5. ExistsBijection(1..n, ToSet(q))
  BY <1>4 DEF ExistsBijection
<1>6. QED
  BY <1>2, <1>5, FS_NatBijection, FS_CountingElements

OrderInv ==
    /\ DOMAIN profiles \subseteq Agents
    /\ IsFiniteSet(DOMAIN profiles) /\ Cardinality(DOMAIN profiles) <= MaxTrackedAgents
    /\ recency \in Seq(Agents) /\ IsInjective(recency) /\ ToSet(recency) = DOMAIN profiles

ProfilesInv ==
    /\ \A a \in DOMAIN profiles : profiles[a] \in Profile
    /\ open \in [Agents -> 0..MaxRequests]
    /\ holder \in Tasks \cup {NoTask} /\ waiting \subseteq Tasks \ {holder}

SourcesInv ==
    /\ DOMAIN trackers \subseteq Sources
    /\ IsFiniteSet(DOMAIN trackers) /\ Cardinality(DOMAIN trackers) <= MaxTrackedSources
    /\ \A s \in DOMAIN trackers : trackers[s] \in Tracker
    /\ clock \in 0..MaxTime /\ guilty \in [Sources -> 0..MaxFailures]

TypeInv == subject \in {"agents", "sources"} /\ OrderInv /\ ProfilesInv /\ SourcesInv

LEMMA OrderTypes == OrderInv => /\ Len(recency) = Cardinality(DOMAIN profiles)
                                /\ \A i \in DOMAIN recency : recency[i] \in DOMAIN profiles
<1> SUFFICES ASSUME OrderInv PROVE /\ Len(recency) = Cardinality(DOMAIN profiles)
                                   /\ \A i \in DOMAIN recency : recency[i] \in DOMAIN profiles
  OBVIOUS
<1>1. Cardinality(ToSet(recency)) = Len(recency)
  BY AsLong DEF OrderInv
<1>2. \A i \in DOMAIN recency : recency[i] \in ToSet(recency)
  BY DEF ToSet
<1>3. QED
  BY <1>1, <1>2 DEF OrderInv

\* Who makes room is tracked, and all of the list but him stays.
LEMMA RoomMade ==
    ASSUME OrderInv, NEW a \in Agents
    PROVE  /\ \/ Evicted(a) = {} /\ (a \in DOMAIN profiles
                                     \/ Cardinality(DOMAIN profiles) < MaxTrackedAgents)
              \/ \E u \in DOMAIN profiles : Evicted(a) = {u} /\ a \notin DOMAIN profiles
           /\ \E q \in Seq(Agents) : /\ q = IF Evicted(a) = {} THEN recency ELSE Tail(recency)
                                     /\ IsInjective(q)
                                     /\ ToSet(q) = DOMAIN profiles \ Evicted(a)
<1> USE GuardsAssumption
<1>1. CASE Evicted(a) = {}
  <2>1. a \in DOMAIN profiles \/ Cardinality(DOMAIN profiles) < MaxTrackedAgents
    BY <1>1 DEF Evicted
  <2>2. QED
    BY <1>1, <2>1 DEF OrderInv
<1>2. CASE Evicted(a) # {}
  <2>1. /\ a \notin DOMAIN profiles /\ ~(Cardinality(DOMAIN profiles) < MaxTrackedAgents)
        /\ Evicted(a) = {Head(recency)}
    BY <1>2 DEF Evicted
  <2>2. /\ recency \in Seq(Agents) /\ Len(recency) = Cardinality(DOMAIN profiles)
        /\ Cardinality(DOMAIN profiles) \in Nat /\ MaxTrackedAgents \in Nat \ {0}
    BY OrderTypes, FS_CardinalityType DEF OrderInv
  <2>3. Len(recency) \in Nat \ {0}
    BY <2>1, <2>2
  <2>4. DOMAIN recency = 1..Len(recency) /\ recency # <<>> /\ Head(recency) = recency[1]
    BY <2>2, <2>3, LenProperties, EmptySeq
  <2>5. PICK n \in Nat \ {0} : n = Len(recency)
    BY <2>3
  <2>6. PICK t \in Seq(Agents) : t = Tail(recency) /\ Len(t) = n - 1
                                 /\ \A i \in 1..(n - 1) : t[i] = recency[i + 1]
    <3>1. /\ Tail(recency) \in Seq(Agents) /\ Len(Tail(recency)) = Len(recency) - 1
          /\ \A i \in 1..Len(Tail(recency)) : Tail(recency)[i] = recency[i + 1]
      BY <2>2, <2>4, HeadTailProperties
    <3>2. QED
      BY <2>5, <3>1
  <2>7. DOMAIN t = 1..(n - 1)
    BY <2>6, LenProperties
  <2>8. \A i, j \in 1..n : recency[i] = recency[j] => i = j
    BY <2>4, <2>5 DEF OrderInv, IsInjective
  <2>9. IsInjective(t)
    <3>1. ASSUME NEW i \in 1..(n - 1), NEW j \in 1..(n - 1), t[i] = t[j] PROVE i = j
      <4>1. i + 1 \in 1..n /\ j + 1 \in 1..n /\ recency[i + 1] = recency[j + 1]
        BY <2>6, <3>1
      <4>2. QED
        BY <2>8, <4>1
    <3>2. QED
      BY <2>7, <3>1 DEF IsInjective
  <2>10. ToSet(t) = DOMAIN profiles \ {recency[1]}
    <3>1. ToSet(t) = {t[i] : i \in 1..(n - 1)} /\ DOMAIN profiles = {recency[i] : i \in 1..n}
      BY <2>4, <2>5, <2>7 DEF OrderInv, ToSet
    <3>2. ASSUME NEW i \in 1..(n - 1)
          PROVE  t[i] # recency[1] /\ \E j \in 1..n : t[i] = recency[j]
      <4>1. i + 1 \in 1..n /\ 1 \in 1..n /\ i + 1 # 1
        OBVIOUS
      <4>2. QED
        BY <2>6, <2>8, <4>1
    <3>3. ASSUME NEW j \in 1..n, j # 1 PROVE \E i \in 1..(n - 1) : t[i] = recency[j]
      <4>1. j - 1 \in 1..(n - 1) /\ (j - 1) + 1 = j
        BY <3>3
      <4>2. QED
        BY <2>6, <4>1
    <3>4. ASSUME NEW b \in ToSet(t) PROVE b \in DOMAIN profiles \ {recency[1]}
      <4>1. PICK i \in 1..(n - 1) : b = t[i]
        BY <3>1
      <4>2. PICK j \in 1..n : b = recency[j]
        BY <3>2, <4>1
      <4>3. QED
        BY <3>1, <3>2, <4>1, <4>2
    <3>5. ASSUME NEW b \in DOMAIN profiles, b # recency[1] PROVE b \in ToSet(t)
      <4>1. PICK j \in 1..n : b = recency[j]
        BY <3>1
      <4>2. QED
        BY <3>1, <3>3, <3>5, <4>1
    <3>6. QED
      BY <3>4, <3>5
  <2>11. recency[1] \in DOMAIN profiles
    BY <2>3, <2>4, OrderTypes
  <2>12. QED
    BY <1>2, <2>1, <2>4, <2>6, <2>9, <2>10, <2>11
<1>3. QED
  BY <1>1, <1>2

\* Whoever is seen goes to the end of the list, and is in it once.
LEMMA SeenLast ==
    ASSUME OrderInv, NEW a \in Agents
    PROVE  /\ Seen(a) \in Seq(Agents) /\ IsInjective(Seen(a))
           /\ ToSet(Seen(a)) = (DOMAIN profiles \ Evicted(a)) \cup {a}
<1>1. PICK q \in Seq(Agents) : /\ q = IF Evicted(a) = {} THEN recency ELSE Tail(recency)
                               /\ IsInjective(q) /\ ToSet(q) = DOMAIN profiles \ Evicted(a)
  BY RoomMade
<1>2. PICK p \in Seq(Agents) : /\ p = RemoveFirst(q, a) /\ IsInjective(p)
                               /\ ToSet(p) = (DOMAIN profiles \ Evicted(a)) \ {a}
  <2>1. /\ RemoveFirst(q, a) \in Seq(Agents) /\ IsInjective(RemoveFirst(q, a))
        /\ ToSet(RemoveFirst(q, a)) = ToSet(q) \ {a}
    BY <1>1, TakenOut
  <2>2. QED
    BY <1>1, <2>1
<1>3. PICK t \in Seq(Agents) : t = Append(p, a)
  BY AppendProperties
<1>4. Seen(a) = t
  BY <1>1, <1>2, <1>3 DEF Seen
<1>5. PICK n \in Nat : n = Len(p)
  BY LenProperties
<1>6. /\ DOMAIN p = 1..n /\ DOMAIN t = 1..(n + 1) /\ t[n + 1] = a
      /\ \A i \in 1..n : t[i] = p[i]
  BY <1>3, <1>5, AppendProperties, LenProperties
<1>7. ToSet(p) = {p[i] : i \in 1..n} /\ ToSet(t) = {t[i] : i \in 1..(n + 1)}
  BY <1>6 DEF ToSet
<1>8. \A i \in 1..n : p[i] # a
  BY <1>2, <1>7
<1>9. IsInjective(t)
  <2>1. \A i, j \in 1..n : p[i] = p[j] => i = j
    BY <1>2, <1>6 DEF IsInjective
  <2>2. ASSUME NEW i \in 1..(n + 1), NEW j \in 1..(n + 1), t[i] = t[j] PROVE i = j
    <3>1. i \in 1..n \/ i = n + 1
      OBVIOUS
    <3>2. j \in 1..n \/ j = n + 1
      OBVIOUS
    <3>3. QED
      BY <1>6, <1>8, <2>1, <2>2, <3>1, <3>2
  <2>3. QED
    BY <1>6, <2>2 DEF IsInjective
<1>10. ToSet(t) = ToSet(p) \cup {a}
  <2>1. \A i \in 1..(n + 1) : i \in 1..n \/ i = n + 1
    OBVIOUS
  <2>2. n + 1 \in 1..(n + 1) /\ \A i \in 1..n : i \in 1..(n + 1)
    OBVIOUS
  <2>3. QED
    BY <1>6, <1>7, <2>1, <2>2
<1>11. QED
  BY <1>2, <1>4, <1>9, <1>10

LEMMA RequestTypes ==
    ASSUME TypeInv, NEW a \in Agents, NEW tool \in Tools, RecordRequest(a, tool)
    PROVE  TypeInv'
<1> DEFINE p == IF a \in DOMAIN profiles THEN profiles[a]
                ELSE [requests |-> 0, failures |-> 0, blocks |-> 0, tools |-> {}]
           e == [p EXCEPT !.requests = @ + 1, !.tools = @ \cup {tool}]
<1>1. /\ profiles' = With(profiles, a, Evicted(a), e) /\ recency' = Seen(a)
      /\ p.requests < MaxRequests
      /\ open[a] < MaxRequests /\ open' = [open EXCEPT ![a] = @ + 1]
      /\ UNCHANGED <<subject, holder, waiting, failureVars>>
  BY DEF RecordRequest, BehaviorStep, LockFree
<1>2. MaxRequests \in Nat \ {0} /\ MaxTrackedAgents \in Nat \ {0}
  BY GuardsAssumption
<1>3. e \in Profile
  <2>1. PICK r \in [requests : 0..MaxRequests, failures : Nat, blocks : Nat, tools : SUBSET Tools] :
            r = p
    <3>1. CASE a \in DOMAIN profiles
      BY <1>2, <3>1 DEF TypeInv, ProfilesInv, Profile
    <3>2. CASE a \notin DOMAIN profiles
      <4>1. [requests |-> 0, failures |-> 0, blocks |-> 0, tools |-> {}]
            \in [requests : 0..MaxRequests, failures : Nat, blocks : Nat, tools : SUBSET Tools]
        BY <1>2
      <4>2. p = [requests |-> 0, failures |-> 0, blocks |-> 0, tools |-> {}]
        BY <3>2
      <4>3. QED
        BY <4>1, <4>2, Zenon
    <3>3. QED
      BY <3>1, <3>2
  <2>2. e = [r EXCEPT !.requests = @ + 1, !.tools = @ \cup {tool}] /\ r.requests < MaxRequests
    BY <1>1, <2>1
  <2> HIDE DEF p, e
  <2>3. r.requests + 1 \in 1..MaxRequests /\ r.tools \cup {tool} \in (SUBSET Tools) \ {{}}
    BY <1>2, <2>2
  <2>4. QED
    BY <2>2, <2>3 DEF Profile
<1> HIDE DEF p, e
<1>4. DOMAIN profiles' = (DOMAIN profiles \ Evicted(a)) \cup {a} /\ profiles'[a] = e
      /\ \A b \in DOMAIN profiles' \ {a} : b \in DOMAIN profiles /\ profiles'[b] = profiles[b]
  BY <1>1 DEF With
<1>5. OrderInv'
  <2>1. IsFiniteSet(DOMAIN profiles') /\ Cardinality(DOMAIN profiles') <= MaxTrackedAgents
    BY <1>1, <1>2, RoomMade, Fits DEF TypeInv, OrderInv
  <2>2. recency' \in Seq(Agents) /\ IsInjective(recency') /\ ToSet(recency') = DOMAIN profiles'
    BY <1>1, <1>4, SeenLast DEF TypeInv
  <2>3. QED
    BY <1>4, <2>1, <2>2 DEF TypeInv, OrderInv
<1>6. ProfilesInv'
  <2>1. \A b \in DOMAIN profiles' : profiles'[b] \in Profile
    BY <1>3, <1>4 DEF TypeInv, ProfilesInv
  <2>2. open' \in [Agents -> 0..MaxRequests]
    BY <1>1, <1>2 DEF TypeInv, ProfilesInv
  <2>3. QED
    BY <1>1, <2>1, <2>2 DEF TypeInv, ProfilesInv
<1>7. QED
  BY <1>1, <1>5, <1>6 DEF TypeInv, SourcesInv, failureVars

\* A request that is over, whatever is recorded of it.
LEMMA OverTypes ==
    ASSUME TypeInv, NEW a \in Agents, Succeed(a) \/ RecordFailure(a) \/ RecordBlock(a)
    PROVE  TypeInv'
<1>1. /\ open[a] > 0 /\ open' = [open EXCEPT ![a] = @ - 1]
      /\ UNCHANGED <<subject, recency, holder, waiting, failureVars>>
  BY DEF Succeed, RecordFailure, RecordBlock, BehaviorStep, LockFree, Over
<1>2. open' \in [Agents -> 0..MaxRequests]
  <2>1. MaxRequests \in Nat /\ open \in [Agents -> 0..MaxRequests]
    BY GuardsAssumption DEF TypeInv, ProfilesInv
  <2>2. QED
    BY <1>1, <2>1
<1>3. /\ DOMAIN profiles' = DOMAIN profiles
      /\ \A b \in DOMAIN profiles : profiles'[b] \in Profile
  <2>1. \A b \in DOMAIN profiles : profiles[b] \in Profile
    BY DEF TypeInv, ProfilesInv
  <2>2. CASE UNCHANGED profiles
    BY <2>1, <2>2
  <2>3. CASE a \in DOMAIN profiles /\ profiles' = [profiles EXCEPT ![a].failures = @ + 1]
    <3>1. [profiles[a] EXCEPT !.failures = @ + 1] \in Profile
      BY <2>1, <2>3 DEF Profile
    <3>2. QED
      BY <2>1, <2>3, <3>1
  <2>4. CASE a \in DOMAIN profiles /\ profiles' = [profiles EXCEPT ![a].blocks = @ + 1]
    <3>1. [profiles[a] EXCEPT !.blocks = @ + 1] \in Profile
      BY <2>1, <2>4 DEF Profile
    <3>2. QED
      BY <2>1, <2>4, <3>1
  <2>5. QED
    BY <2>2, <2>3, <2>4 DEF Succeed, RecordFailure, RecordBlock
<1>4. OrderInv'
  BY <1>1, <1>3 DEF TypeInv, OrderInv
<1>5. QED
  BY <1>1, <1>2, <1>3, <1>4 DEF TypeInv, ProfilesInv, SourcesInv, failureVars

LEMMA LockTypes ==
    ASSUME TypeInv, NEW t \in Tasks, GetSuspiciousAgents(t) \/ Wait(t)
    PROVE  TypeInv'
<1>1. UNCHANGED <<subject, profiles, recency, open, failureVars>>
  BY DEF GetSuspiciousAgents, Wait, BehaviorStep
<1>2. holder' \in Tasks \cup {NoTask} /\ waiting' \subseteq Tasks \ {holder'}
  BY DEF TypeInv, ProfilesInv, GetSuspiciousAgents, Wait
<1>3. QED
  BY <1>1, <1>2 DEF TypeInv, OrderInv, ProfilesInv, SourcesInv, failureVars

\* What was in the table, or is new, and a failure more or less.
LEMMA TrackerTypes ==
    ASSUME TypeInv, NEW s \in Sources, RecordInternal(s) \/ RecordSuspicious(s)
    PROVE  TypeInv'
<1>1. /\ MaxFailures \in Nat \ {0} /\ MaxTrackedSources \in Nat \ {0} /\ MaxTime \in Nat
      /\ clock \in 0..MaxTime
  BY GuardsAssumption DEF TypeInv, SourcesInv
<1>2. TrackerOf(s) \in Tracker
  BY <1>1 DEF TypeInv, SourcesInv, TrackerOf, Tracker
<1>3. PICK t \in Tracker : t = TrackerOf(s)
  BY <1>2
<1>4. t.suspicious < MaxFailures /\ UNCHANGED <<subject, clock, behaviorVars>>
  BY <1>3 DEF RecordInternal, RecordSuspicious, FailureStep
<1>5. PICK old \in Dropped(s), e \in Tracker : trackers' = With(trackers, s, old, e)
  <2>1. t.suspicious + 1 \in 0..MaxFailures
    BY <1>1, <1>4 DEF Tracker
  <2>2. [t EXCEPT !.suspicious = @ + 1, !.last = clock] \in Tracker
    BY <1>1, <2>1 DEF Tracker
  <2>3. [t EXCEPT !.suspicious = CountsInternal(@), !.last = clock] \in Tracker
    BY <1>1 DEF Tracker, CountsInternal
  <2>4. QED
    BY <1>3, <2>2, <2>3 DEF RecordInternal, RecordSuspicious
<1>6. \/ old = {} /\ (s \in DOMAIN trackers \/ Cardinality(DOMAIN trackers) < MaxTrackedSources)
      \/ \E u \in DOMAIN trackers : old = {u}
  <2>1. CASE s \in DOMAIN trackers \/ Cardinality(DOMAIN trackers) < MaxTrackedSources
    BY <2>1 DEF Dropped
  <2>2. CASE ~ (s \in DOMAIN trackers \/ Cardinality(DOMAIN trackers) < MaxTrackedSources)
    BY <2>2 DEF Dropped
  <2>3. QED
    BY <2>1, <2>2
<1>7. IsFiniteSet(DOMAIN trackers') /\ Cardinality(DOMAIN trackers') <= MaxTrackedSources
  BY <1>1, <1>5, <1>6, Fits DEF TypeInv, SourcesInv
<1>8. DOMAIN trackers' \subseteq Sources /\ \A u \in DOMAIN trackers' : trackers'[u] \in Tracker
  BY <1>5 DEF TypeInv, SourcesInv, With
<1>9. guilty' \in [Sources -> 0..MaxFailures]
  BY <1>1 DEF TypeInv, SourcesInv, RecordInternal, RecordSuspicious
<1>10. QED
  BY <1>1, <1>4, <1>7, <1>8, <1>9
  DEF TypeInv, OrderInv, ProfilesInv, SourcesInv, behaviorVars

\* Every variable keeps its type: the tables keep their limits, and recency holds just the
\* agents that have a profile, each once.
THEOREM GuardsTypeCorrect == GuardsSpec => []GuardsTypeOK
<1>1. GuardsInit => TypeInv
  <2> SUFFICES ASSUME GuardsInit PROVE TypeInv
    OBVIOUS
  <2>1. DOMAIN profiles = {} /\ DOMAIN trackers = {}
    BY DEF GuardsInit, Empty
  <2>2. {MaxTrackedAgents, MaxTrackedSources, MaxRequests, MaxFailures, MaxTime} \subseteq Nat
    BY GuardsAssumption
  <2>3. recency \in Seq(Agents) /\ DOMAIN recency = {}
    BY EmptySeq, LenProperties DEF GuardsInit
  <2>4. IsInjective(recency) /\ ToSet(recency) = {}
    BY <2>3 DEF IsInjective, ToSet
  <2>5. OrderInv
    BY <2>1, <2>2, <2>3, <2>4, FS_EmptySet DEF OrderInv
  <2>6. SourcesInv
    BY <2>1, <2>2, FS_EmptySet DEF SourcesInv, GuardsInit
  <2>7. ProfilesInv
    BY <2>1, <2>2 DEF ProfilesInv, GuardsInit
  <2>8. QED
    BY <2>5, <2>6, <2>7 DEF TypeInv, GuardsInit
<1>2. TypeInv /\ [GuardsNext]_guardsVars => TypeInv'
  <2> SUFFICES ASSUME TypeInv, [GuardsNext]_guardsVars PROVE TypeInv'
    OBVIOUS
  <2>1. CASE GuardsTick
    <3>1. clock' \in 0..MaxTime /\ UNCHANGED <<subject, behaviorVars, trackers, guilty>>
      BY <2>1, GuardsAssumption DEF TypeInv, SourcesInv, GuardsTick, FailureStep
    <3>2. QED
      BY <3>1 DEF TypeInv, OrderInv, ProfilesInv, SourcesInv, behaviorVars
  <2>2. CASE UNCHANGED guardsVars
    BY <2>2 DEF guardsVars, behaviorVars, failureVars, TypeInv, OrderInv, ProfilesInv, SourcesInv
  <2>3. QED
    BY <2>1, <2>2, RequestTypes, OverTypes, LockTypes, TrackerTypes DEF GuardsNext
<1>3. TypeInv => GuardsTypeOK
  BY OrderTypes DEF TypeInv, OrderInv, ProfilesInv, SourcesInv, GuardsTypeOK
<1>4. QED
  BY <1>1, <1>2, <1>3, PTL DEF GuardsSpec

-----------------------------------------------------------------------------
(* The lock of BehaviorGuard. *)

\* Whoever asked for the lock and has not been answered: the task that awaits it while holding it,
\* and those behind it.
Unanswered(t) == holder # NoTask /\ t \in waiting \cup {holder}

\* Who is unanswered stays so, and what the guard knows of the agents is what it knew when
\* get_suspicious_agents began: nothing is recorded any more, and nobody is evicted.
HeldForGood ==
    /\ \A t \in Tasks : [](Unanswered(t) => []Unanswered(t))
    /\ [][holder # NoTask => UNCHANGED <<profiles, recency, holder>>]_guardsVars

\* A step while the lock is held leaves it with its holder, and only adds to those who wait.
LEMMA StillHeld ==
    ASSUME holder # NoTask, [GuardsNext]_guardsVars
    PROVE  holder' = holder /\ waiting \subseteq waiting' /\ UNCHANGED <<profiles, recency>>
<1>1. ASSUME NEW a \in Agents, Succeed(a) \/ RecordFailure(a) \/ RecordBlock(a)
                               \/ \E tool \in Tools : RecordRequest(a, tool)
      PROVE  UNCHANGED <<profiles, recency, holder, waiting>>
  BY <1>1 DEF Succeed, Over, RecordFailure, RecordBlock, RecordRequest, LockFree
<1>2. ASSUME NEW t \in Tasks, GetSuspiciousAgents(t) \/ Wait(t)
      PROVE  UNCHANGED <<profiles, recency, holder>> /\ waiting \subseteq waiting'
  BY <1>2 DEF GetSuspiciousAgents, Wait
<1>3. ASSUME \/ \E s \in Sources : RecordInternal(s) \/ RecordSuspicious(s)
             \/ GuardsTick
             \/ UNCHANGED guardsVars
      PROVE  UNCHANGED <<profiles, recency, holder, waiting>>
  BY <1>3 DEF RecordInternal, RecordSuspicious, GuardsTick, FailureStep, behaviorVars, guardsVars
<1>4. QED
  BY <1>1, <1>2, <1>3 DEF GuardsNext

\* What the run guards_lock shows on one instance, for any agents, tasks and table: asyncio.Lock is
\* not reentrant, and get_suspicious_agents asks for it twice.
THEOREM LockNeverReleased == GuardsSpec => HeldForGood
<1>1. ASSUME NEW t \in Tasks PROVE GuardsSpec => [](Unanswered(t) => []Unanswered(t))
  <2>1. Unanswered(t) /\ [GuardsNext]_guardsVars => Unanswered(t)'
    BY StillHeld DEF Unanswered
  <2>2. QED
    BY <2>1, PTL DEF GuardsSpec
<1>2. GuardsSpec => [][holder # NoTask => UNCHANGED <<profiles, recency, holder>>]_guardsVars
  <2>1. [GuardsNext]_guardsVars =>
            [holder # NoTask => UNCHANGED <<profiles, recency, holder>>]_guardsVars
    BY StillHeld
  <2>2. QED
    BY <2>1, PTL DEF GuardsSpec
<1>3. GuardsSpec => \A t \in Tasks : [](Unanswered(t) => []Unanswered(t))
  BY <1>1
<1>4. QED
  BY <1>2, <1>3 DEF HeldForGood
=============================================================================
