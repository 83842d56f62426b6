--------------------- MODULE GatewayDependenciesProofs ---------------------
(* What the dependency wrappers keep for any callers, any threshold, any   *)
(* times and any number of trial calls.                                    *)
EXTENDS GatewayDependencies, FiniteSetTheorems, TLAPS

(* How a step changes the calls that run through the breaker. *)

LEMMA RunningFinite == IsFiniteSet(Running) /\ Cardinality(Running) \in Nat
<1>1. Running \in SUBSET Callers
  BY DEF Running
<1>2. QED
  BY <1>1, FS_Subset, FS_CardinalityType, DependencyAssumption

LEMMA CallBegins ==
    ASSUME TypeOK, NEW c \in Callers, NEW op \in RedisOps,
           call[c] = "none", call' = [call EXCEPT ![c] = op]
    PROVE  c \notin Running /\ Running' = Running \cup {c}
BY DEF TypeOK, Running, RedisOps

LEMMA CallEnds ==
    ASSUME TypeOK, NEW c \in Callers, NEW to \in {"none", "opa"},
           call' = [call EXCEPT ![c] = to]
    PROVE  c \notin Running' /\ Running' = Running \ {c}
BY DEF TypeOK, Running, RedisOps

-----------------------------------------------------------------------------
(* Types: what each group of actions leaves of the state. *)

LEMMA TypeInit == Init => TypeOK
<1> SUFFICES ASSUME Init PROVE TypeOK
  OBVIOUS
<1>1. 0 \in 0..FailureThreshold /\ 0 \in 0..HalfOpenMaxCalls /\ 0 \in 0..CallTime /\ 0 \in 0..HoldTime
  BY DependencyAssumption
<1>2. RecoveryTimeout \in 0..RecoveryTimeout
  BY DependencyAssumption
<1>3. QED
  BY <1>1, <1>2 DEF Init, TypeOK, States, Answers

LEMMA TypeStep == TypeOK /\ [Next]_vars => TypeOK'
<1> SUFFICES ASSUME TypeOK, [Next]_vars PROVE TypeOK'
  OBVIOUS
<1> USE DependencyAssumption DEF TypeOK, States, Answers, RedisOps
<1>1. ASSUME NEW c \in Callers, NEW op \in RedisOps, Enter(c, op) PROVE TypeOK'
  BY <1>1 DEF Enter, Await, Refuses, StateSeen, CallsSeen, server
<1>2. ASSUME NEW c \in Callers, Refuse(c) PROVE TypeOK'
  BY <1>2 DEF Refuse, Refuses, StateSeen, CallsSeen, server
<1>3. ASSUME NEW c \in Callers, Runs(c) PROVE TypeOK'
  BY <1>3 DEF Runs, RunsHGetAll, RunsLRange, RunsLua, RunsSet, RedisSets, Finds, breaker
<1>4. ASSUME NEW c \in Callers, Strays(c) PROVE TypeOK'
  BY <1>4 DEF Strays, RedisSets, breaker
<1>5. ASSUME NEW c \in Callers, Replies(c) PROVE TypeOK'
  BY <1>5 DEF Replies, OnSuccess, Return, Running
<1>6. ASSUME NEW c \in Callers, Fails(c) PROVE TypeOK'
  BY <1>6 DEF Fails, OnFailure, LeaveBehind, Return, Capped
<1>7. ASSUME NEW c \in Callers, Cancel(c) PROVE TypeOK'
  BY <1>7 DEF Cancel, OnCancel, LeaveBehind, Return
<1>8. CASE CloseClients
  BY <1>8 DEF CloseClients, breaker, server
<1>9. ASSUME NEW c \in Callers, AskOpa(c) PROVE TypeOK'
  BY <1>9 DEF AskOpa, Await, breaker, server
<1>10. ASSUME NEW c \in Callers, NEW reply \in OpaReplies, OpaAnswers(c, reply) PROVE TypeOK'
  BY <1>10 DEF OpaAnswers, Return, breaker, server
<1>11. ASSUME NEW c \in Callers, OpaFails(c) PROVE TypeOK'
  BY <1>11 DEF OpaFails, Return, breaker, server
<1>12. CASE Tick
  BY <1>12 DEF Tick, Capped
<1>13. CASE UNCHANGED vars
  BY <1>13 DEF vars, breaker, server
<1>14. QED
  BY <1>1, <1>2, <1>3, <1>4, <1>5, <1>6, <1>7, <1>8, <1>9, <1>10, <1>11, <1>12, <1>13 DEF Next

\* The breaker's counters stay within their limits whatever calls end late.
THEOREM TypeCorrect == Spec => []TypeOK
BY TypeInit, TypeStep, PTL DEF Spec

-----------------------------------------------------------------------------
(* The breaker.  While it is open, whatever runs began before the last     *)
(* failure; a call does not last as long as the rest, so that none is left *)
(* when a trial begins, and halfOpenCalls counts all that run in it.       *)

OldCallsLast == state = "open" => \A c \in Running : sinceFailure <= elapsed[c]
TrialCounted == state = "half_open" => Cardinality(Running) <= halfOpenCalls
BreakerInv == TypeOK /\ ClosedBelowThreshold /\ OldCallsLast /\ TrialCounted

\* A trial begins with nothing running.
LEMMA NothingLeft ==
    ASSUME BreakerInv, Recovered PROVE Running = {} /\ sinceFailure = RecoveryTimeout
BY DependencyAssumption DEF BreakerInv, TypeOK, OldCallsLast, Recovered, Running

LEMMA BreakerInit == Init => BreakerInv
BY TypeInit, DependencyAssumption
DEF Init, BreakerInv, ClosedBelowThreshold, OldCallsLast, TrialCounted

\* Refusing changes nothing of the breaker.
LEMMA RefusingIsIdle ==
    ASSUME TypeOK, NEW c \in Callers, Refuse(c)
    PROVE  UNCHANGED <<state, halfOpenCalls, failures, sinceFailure, call, elapsed>>
BY DependencyAssumption DEF Refuse, Refuses, StateSeen, CallsSeen, Recovered, TypeOK, States

\* A call that leaves the breaker leaves fewer running.
LEMMA FewerRun ==
    ASSUME TypeOK, NEW c \in Running, Running' = Running \ {c}
    PROVE  Cardinality(Running') = Cardinality(Running) - 1
BY RunningFinite, FS_RemoveElement

LEMMA BreakerStep == BreakerInv /\ [Next]_vars => BreakerInv'
<1> SUFFICES ASSUME BreakerInv, [Next]_vars PROVE BreakerInv'
  OBVIOUS
<1>t. TypeOK /\ TypeOK'
  BY TypeStep DEF BreakerInv
<1>k. Cardinality(Running) \in Nat
  BY RunningFinite
<1>u. ASSUME UNCHANGED <<state, halfOpenCalls, failures, sinceFailure, elapsed>>, Running' = Running
      PROVE  BreakerInv'
  BY <1>t, <1>u DEF BreakerInv, ClosedBelowThreshold, OldCallsLast, TrialCounted
<1>1. ASSUME NEW c \in Callers, NEW op \in RedisOps, Enter(c, op) PROVE BreakerInv'
  <2>1. c \notin Running /\ Running' = Running \cup {c}
    BY <1>1, <1>t, CallBegins DEF Enter, Await
  <2>2. Cardinality(Running') = Cardinality(Running) + 1
    BY <2>1, RunningFinite, FS_AddElement
  <2>3. state' # "open" /\ (state' = "closed" <=> state = "closed") /\ failures' = failures
    BY <1>1, <1>t DEF Enter, Refuses, StateSeen, Recovered, TypeOK, States
  <2>4. ClosedBelowThreshold' /\ OldCallsLast'
    BY <2>3 DEF BreakerInv, ClosedBelowThreshold, OldCallsLast
  <2>5. TrialCounted'
    <3>1. CASE Recovered
      <4>1. Running = {}
        BY <3>1, NothingLeft
      <4>2. Cardinality(Running') = 1 /\ halfOpenCalls' = 1
        BY <1>1, <2>2, <3>1, <4>1, FS_EmptySet DEF Enter, Recovered, StateSeen, CallsSeen
      <4>3. QED
        BY <4>2 DEF TrialCounted
    <3>2. CASE ~Recovered
      <4>1. state' = state /\ (state = "half_open" => halfOpenCalls' = halfOpenCalls + 1)
        BY <1>1, <3>2 DEF Enter, StateSeen, CallsSeen
      <4>2. QED
        BY <1>t, <1>k, <2>2, <4>1 DEF BreakerInv, TrialCounted, TypeOK
    <3>3. QED
      BY <3>1, <3>2
  <2>6. QED
    BY <1>t, <2>4, <2>5 DEF BreakerInv
<1>2. ASSUME NEW c \in Callers, Refuse(c) PROVE BreakerInv'
  <2>1. UNCHANGED <<state, halfOpenCalls, failures, sinceFailure, call, elapsed>>
    BY <1>2, <1>t, RefusingIsIdle
  <2>2. QED
    BY <2>1, <1>u DEF Running
<1>3. ASSUME NEW c \in Callers, Runs(c) \/ Strays(c) PROVE BreakerInv'
  <2>1. UNCHANGED <<state, halfOpenCalls, failures, sinceFailure, call, elapsed>>
    BY <1>3 DEF Runs, Strays, breaker
  <2>2. QED
    BY <2>1, <1>u DEF Running
<1>4. ASSUME NEW c \in Callers, Replies(c) \/ Fails(c) \/ Cancel(c) PROVE BreakerInv'
  <2>1. c \in Running
    BY <1>4 DEF Replies, Fails, Cancel
  <2>2. Running' = Running \ {c}
    BY <1>4, <1>t, CallEnds DEF Replies, Fails, Cancel, Return
  <2>3. Cardinality(Running') = Cardinality(Running) - 1
    BY <2>1, <2>2, <1>t, FewerRun
  <2>4. halfOpenCalls' = halfOpenCalls /\ \A d \in Running' : elapsed'[d] = elapsed[d]
    BY <1>4, <1>t, <2>2 DEF Replies, Fails, Cancel, Return, OnSuccess, OnFailure, OnCancel, Running, TypeOK
  <2>5. ClosedBelowThreshold'
    BY <1>4, <1>t, DependencyAssumption
    DEF BreakerInv, ClosedBelowThreshold, Replies, Fails, Cancel, OnSuccess, OnFailure, OnCancel,
        Capped, TypeOK, States
  <2>6. state' = "half_open" => state = "half_open"
    BY <1>4 DEF Replies, Fails, Cancel, OnSuccess, OnFailure, OnCancel
  <2>7. TrialCounted'
    BY <1>t, <1>k, <2>3, <2>4, <2>6 DEF BreakerInv, TrialCounted, TypeOK
  <2>8. OldCallsLast'
    <3>1. CASE Fails(c)
      <4>1. sinceFailure' = 0 /\ \A d \in Running' : elapsed'[d] \in Nat
        BY <3>1, <1>t, DependencyAssumption DEF Fails, OnFailure, TypeOK, Running
      <4>2. QED
        BY <4>1 DEF OldCallsLast
    <3>2. CASE Replies(c) \/ Cancel(c)
      <4>1. sinceFailure' = sinceFailure /\ (state' = "open" => state = "open")
        BY <3>2 DEF Replies, Cancel, OnSuccess, OnCancel
      <4>2. QED
        BY <2>2, <2>4, <4>1 DEF BreakerInv, OldCallsLast
    <3>3. QED
      BY <1>4, <3>1, <3>2
  <2>9. QED
    BY <1>t, <2>5, <2>7, <2>8 DEF BreakerInv
<1>5. CASE CloseClients
  <2>1. UNCHANGED <<state, halfOpenCalls, failures, sinceFailure, call, elapsed>>
    BY <1>5 DEF CloseClients, breaker
  <2>2. QED
    BY <2>1, <1>u DEF Running
<1>6. ASSUME NEW c \in Callers, AskOpa(c) PROVE BreakerInv'
  <2>1. Running' = Running
    BY <1>6, <1>t, CallEnds DEF AskOpa, Await, Running, RedisOps
  <2>2. QED
    BY <1>6, <2>1, <1>u DEF AskOpa, Await, breaker
<1>7. ASSUME NEW c \in Callers, OpaFails(c) \/ \E reply \in OpaReplies : OpaAnswers(c, reply)
      PROVE  BreakerInv'
  <2>1. c \notin Running /\ Running' = Running \ {c}
    BY <1>7, <1>t, CallEnds DEF OpaFails, OpaAnswers, Return, Running, RedisOps
  <2>2. \A d \in Running' : elapsed'[d] = elapsed[d]
    BY <1>7, <1>t, <2>1 DEF OpaFails, OpaAnswers, Return, TypeOK, Running
  <2>3. UNCHANGED <<state, halfOpenCalls, failures, sinceFailure>>
    BY <1>7 DEF OpaFails, OpaAnswers, breaker
  <2>4. QED
    BY <1>t, <2>1, <2>2, <2>3 DEF BreakerInv, ClosedBelowThreshold, OldCallsLast, TrialCounted
<1>8. CASE Tick
  <2>1. Running' = Running /\ UNCHANGED <<state, halfOpenCalls, failures>>
    BY <1>8 DEF Tick, Running
  <2>2. \A c \in Running : elapsed'[c] = elapsed[c] + 1 /\ elapsed[c] \in Nat
    BY <1>8, <1>t, DependencyAssumption DEF Tick, Running, RedisOps, TypeOK
  <2>3. sinceFailure' <= sinceFailure + 1 /\ sinceFailure \in Nat /\ sinceFailure' \in Nat
    BY <1>8, <1>t, DependencyAssumption DEF Tick, Capped, TypeOK
  <2>4. OldCallsLast'
    BY <2>1, <2>2, <2>3 DEF BreakerInv, OldCallsLast
  <2>5. QED
    BY <1>t, <2>1, <2>4 DEF BreakerInv, ClosedBelowThreshold, TrialCounted
<1>9. CASE UNCHANGED vars
  BY <1>9, <1>u DEF vars, breaker, Running
<1>10. QED
  BY <1>1, <1>2, <1>3, <1>4, <1>5, <1>6, <1>7, <1>8, <1>9 DEF Next

LEMMA BreakerHolds == Spec => []BreakerInv
BY BreakerInit, BreakerStep, PTL DEF Spec

\* However calls overlap, time out and are cancelled, at most half_open_max_calls run in a trial.
THEOREM TrialsAlone == Spec => []TrialAlone
<1>1. BreakerInv => TrialAlone
  BY RunningFinite, DependencyAssumption DEF BreakerInv, TrialCounted, TrialAlone, TypeOK
<1>2. QED
  BY <1>1, BreakerHolds, PTL

-----------------------------------------------------------------------------
(* How a trial ends, and how it does not.                                  *)

\* Somebody attends to a trial, or a call of it was cancelled: no other way out of call() leaves the
\* breaker half open.
TrialAttended == state = "half_open" => Running # {} \/ lostProbe

\* All calls a trial may have are counted, and none of them runs any more.
Abandoned == state = "half_open" /\ halfOpenCalls >= HalfOpenMaxCalls /\ Running = {}

\* Once all calls of a trial were cancelled, every later call is refused, whatever time passes.
RefusesForEver == [](Abandoned => [](Abandoned /\ Refuses))

LEMMA AttendedStep == BreakerInv /\ TrialAttended /\ [Next]_vars => TrialAttended'
<1> SUFFICES ASSUME BreakerInv, TrialAttended, [Next]_vars PROVE TrialAttended'
  OBVIOUS
<1>t. TypeOK
  BY DEF BreakerInv
<1>u. ASSUME UNCHANGED <<state, lostProbe>>, Running' = Running PROVE TrialAttended'
  BY <1>u DEF TrialAttended
<1>1. ASSUME NEW c \in Callers, NEW op \in RedisOps, Enter(c, op) PROVE TrialAttended'
  <2>1. Running' = Running \cup {c}
    BY <1>1, <1>t, CallBegins DEF Enter, Await
  <2>2. QED
    BY <2>1 DEF TrialAttended
<1>2. ASSUME NEW c \in Callers, Refuse(c) PROVE TrialAttended'
  <2>1. UNCHANGED <<state, call, lostProbe>>
    BY <1>2, <1>t, RefusingIsIdle DEF Refuse
  <2>2. QED
    BY <2>1, <1>u DEF Running
<1>3. ASSUME NEW c \in Callers, Runs(c) \/ Strays(c) PROVE TrialAttended'
  <2>1. UNCHANGED <<state, call, lostProbe>>
    BY <1>3 DEF Runs, Strays, breaker
  <2>2. QED
    BY <2>1, <1>u DEF Running
<1>4. ASSUME NEW c \in Callers, Replies(c) PROVE TrialAttended'
  BY <1>4 DEF Replies, OnSuccess, TrialAttended
<1>5. ASSUME NEW c \in Callers, Fails(c) PROVE TrialAttended'
  <2>1. state = "half_open" => failures' >= FailureThreshold
    BY <1>5, <1>t, DependencyAssumption DEF Fails, OnFailure, Capped, BreakerInv, ClosedBelowThreshold, TypeOK
  <2>2. state' # "half_open"
    BY <1>5, <2>1 DEF Fails, OnFailure
  <2>3. QED
    BY <2>2 DEF TrialAttended
<1>6. ASSUME NEW c \in Callers, Cancel(c) PROVE TrialAttended'
  BY <1>6 DEF Cancel, OnCancel, TrialAttended
<1>7. CASE CloseClients \/ Tick
  <2>1. UNCHANGED <<state, call, lostProbe>>
    BY <1>7 DEF CloseClients, Tick, breaker
  <2>2. QED
    BY <2>1, <1>u DEF Running
<1>8. ASSUME NEW c \in Callers, AskOpa(c) PROVE TrialAttended'
  <2>1. Running' = Running
    BY <1>8, <1>t, CallEnds DEF AskOpa, Await, Running, RedisOps
  <2>2. QED
    BY <1>8, <2>1, <1>u DEF AskOpa, breaker
<1>9. ASSUME NEW c \in Callers, OpaFails(c) \/ \E reply \in OpaReplies : OpaAnswers(c, reply)
      PROVE  TrialAttended'
  <2>1. c \notin Running /\ Running' = Running \ {c}
    BY <1>9, <1>t, CallEnds DEF OpaFails, OpaAnswers, Return, Running, RedisOps
  <2>2. UNCHANGED <<state, lostProbe>> /\ Running' = Running
    BY <1>9, <2>1 DEF OpaFails, OpaAnswers, breaker
  <2>3. QED
    BY <2>2, <1>u
<1>10. CASE UNCHANGED vars
  BY <1>10, <1>u DEF vars, breaker, Running
<1>11. QED
  BY <1>1, <1>2, <1>3, <1>4, <1>5, <1>6, <1>7, <1>8, <1>9, <1>10 DEF Next

\* A half-open breaker without a cancelled call has a call of the trial under way, which wait_for
\* ends in time: what TrialEnds needs of the states it passes through.
THEOREM TrialsAttended == Spec => []TrialAttended
<1>1. Init => TrialAttended
  BY DEF Init, TrialAttended
<1>2. QED
  BY <1>1, AttendedStep, BreakerHolds, PTL DEF Spec

LEMMA AbandonedStep ==
    ASSUME TypeOK, Abandoned, [Next]_vars
    PROVE  Abandoned'
<1>1. Refuses /\ ~Recovered
  BY DEF Abandoned, Refuses, StateSeen, CallsSeen, Recovered
<1>u. ASSUME UNCHANGED <<state, halfOpenCalls>>, Running' = Running PROVE Abandoned'
  BY <1>u DEF Abandoned
<1>2. ASSUME NEW c \in Callers
      PROVE  /\ \A op \in RedisOps : ~Enter(c, op)
             /\ ~Replies(c) /\ ~Fails(c) /\ ~Cancel(c)
  BY <1>1 DEF Abandoned, Enter, Replies, Fails, Cancel
<1>3. ASSUME NEW c \in Callers, Refuse(c) PROVE Abandoned'
  <2>1. UNCHANGED <<state, halfOpenCalls, call>>
    BY <1>3, RefusingIsIdle
  <2>2. QED
    BY <2>1, <1>u DEF Running
<1>4. CASE CloseClients \/ Tick \/ (\E c \in Callers : Runs(c) \/ Strays(c)) \/ UNCHANGED vars
  <2>1. UNCHANGED <<state, halfOpenCalls, call>>
    BY <1>4 DEF CloseClients, Tick, Runs, Strays, breaker, vars
  <2>2. QED
    BY <2>1, <1>u DEF Running
<1>5. ASSUME NEW c \in Callers, AskOpa(c) PROVE Abandoned'
  <2>1. Running' = Running
    BY <1>5, CallEnds DEF AskOpa, Await, Running, RedisOps, TypeOK
  <2>2. QED
    BY <1>5, <2>1, <1>u DEF AskOpa, breaker
<1>6. ASSUME NEW c \in Callers, OpaFails(c) \/ \E reply \in OpaReplies : OpaAnswers(c, reply)
      PROVE  Abandoned'
  <2>1. c \notin Running /\ Running' = Running \ {c}
    BY <1>6, CallEnds DEF OpaFails, OpaAnswers, Return, Running, RedisOps
  <2>2. UNCHANGED <<state, halfOpenCalls>> /\ Running' = Running
    BY <1>6, <2>1 DEF OpaFails, OpaAnswers, breaker
  <2>3. QED
    BY <2>2, <1>u
<1>7. QED
  BY <1>2, <1>3, <1>4, <1>5, <1>6 DEF Next

\* What the run deps_trial shows on one instance, for every threshold, limit and number of callers: a
\* trial whose calls were all cancelled is the end of the breaker, since CancelledError passes the
\* except clause of call() by and nothing else ends a trial.
THEOREM LostForGood == Spec => RefusesForEver
<1>1. TypeOK /\ Abandoned /\ [Next]_vars => Abandoned'
  BY AbandonedStep
<1>2. Abandoned => Abandoned /\ Refuses
  BY DEF Abandoned, Refuses, StateSeen, CallsSeen, Recovered
<1>3. QED
  BY <1>1, <1>2, TypeCorrect, PTL DEF Spec, RefusesForEver

-----------------------------------------------------------------------------
(* The breaker implements BreakerPromise.                                  *)

LEMMA PromiseInit == Init => Promise!Init
BY DEF Init, Promise!Init, Running, RedisOps

LEMMA PromiseStep == BreakerInv /\ [Next]_vars => [Promise!Next]_(Promise!vars)
<1> SUFFICES ASSUME BreakerInv, [Next]_vars PROVE [Promise!Next]_(Promise!vars)
  OBVIOUS
<1>t. TypeOK
  BY DEF BreakerInv
<1>s. ASSUME UNCHANGED <<state, sinceFailure>>, Running' = Running PROVE UNCHANGED Promise!vars
  BY <1>s DEF Promise!vars
<1>1. ASSUME NEW c \in Callers, NEW op \in RedisOps, Enter(c, op) PROVE Promise!Next
  <2>1. c \notin Running /\ Running' = Running \cup {c} /\ sinceFailure' = sinceFailure
    BY <1>1, <1>t, CallBegins DEF Enter, Await
  <2>2. CASE Recovered
    <3>1. Running = {} /\ sinceFailure = RecoveryTimeout
      BY <2>2, NothingLeft
    <3>2. state = "open" /\ state' = "half_open"
      BY <1>1, <2>2 DEF Enter, StateSeen, Recovered
    <3>3. Promise!Trial(c)
      BY <2>1, <3>1, <3>2 DEF Promise!Trial
    <3>4. QED
      BY <3>3 DEF Promise!Next
  <2>3. CASE ~Recovered
    <3>1. state' = state /\ state # "open" /\ (state = "half_open" => halfOpenCalls < HalfOpenMaxCalls)
      BY <1>1, <1>t, <2>3, DependencyAssumption
      DEF Enter, Refuses, StateSeen, CallsSeen, TypeOK
    <3>2. state = "half_open" => Cardinality(Running) < HalfOpenMaxCalls
      BY <1>t, <3>1, RunningFinite, DependencyAssumption DEF BreakerInv, TrialCounted, TypeOK
    <3>3. Promise!Cardinality(Running) = Cardinality(Running)
      BY DEF Promise!Cardinality, Cardinality
    <3>4. Promise!Start(c)
      BY <1>t, <2>1, <3>1, <3>2, <3>3 DEF Promise!Start, TypeOK, States
    <3>5. QED
      BY <3>4 DEF Promise!Next
  <2>4. QED
    BY <2>2, <2>3
<1>2. ASSUME NEW c \in Callers, Refuse(c) PROVE UNCHANGED Promise!vars
  <2>1. UNCHANGED <<state, sinceFailure, call>>
    BY <1>2, <1>t, RefusingIsIdle
  <2>2. QED
    BY <2>1, <1>s DEF Running
<1>3. ASSUME NEW c \in Callers, Runs(c) \/ Strays(c) PROVE UNCHANGED Promise!vars
  <2>1. UNCHANGED <<state, sinceFailure, call>>
    BY <1>3 DEF Runs, Strays, breaker
  <2>2. QED
    BY <2>1, <1>s DEF Running
<1>4. ASSUME NEW c \in Callers, Replies(c) \/ Fails(c) \/ Cancel(c) PROVE Promise!Next
  <2>1. c \in Running
    BY <1>4 DEF Replies, Fails, Cancel
  <2>2. Running' = Running \ {c}
    BY <1>4, <1>t, CallEnds DEF Replies, Fails, Cancel, Return
  <2>3. CASE Replies(c) \/ Cancel(c)
    <3>1. /\ sinceFailure' = sinceFailure
          /\ state' \in (IF state = "half_open" THEN {"half_open", "closed"} ELSE {state})
      BY <2>3 DEF Replies, Cancel, OnSuccess, OnCancel
    <3>2. QED
      BY <2>1, <2>2, <3>1 DEF Promise!Next, Promise!End
  <2>4. CASE Fails(c)
    <3>1. sinceFailure' = 0
      BY <2>4 DEF Fails, OnFailure
    <3>2. state' \in (IF state = "closed" THEN {"closed", "open"} ELSE {"open"})
      BY <2>4, <1>t, DependencyAssumption
      DEF Fails, OnFailure, Capped, BreakerInv, ClosedBelowThreshold, TypeOK
    <3>3. QED
      BY <2>1, <2>2, <3>1, <3>2 DEF Promise!Next, Promise!End
  <2>5. QED
    BY <1>4, <2>3, <2>4
<1>5. CASE CloseClients
  <2>1. UNCHANGED <<state, sinceFailure, call>>
    BY <1>5 DEF CloseClients, breaker
  <2>2. QED
    BY <2>1, <1>s DEF Running
<1>6. ASSUME NEW c \in Callers, AskOpa(c) PROVE UNCHANGED Promise!vars
  <2>1. Running' = Running
    BY <1>6, <1>t, CallEnds DEF AskOpa, Await, Running, RedisOps
  <2>2. QED
    BY <1>6, <2>1, <1>s DEF AskOpa, breaker
<1>7. ASSUME NEW c \in Callers, OpaFails(c) \/ \E reply \in OpaReplies : OpaAnswers(c, reply)
      PROVE  UNCHANGED Promise!vars
  <2>1. Running' = Running
    BY <1>7, <1>t, CallEnds DEF OpaFails, OpaAnswers, Return, Running, RedisOps
  <2>2. QED
    BY <1>7, <2>1, <1>s DEF OpaFails, OpaAnswers, breaker
<1>8. CASE Tick
  <2>1. Running' = Running /\ state' = state
    BY <1>8 DEF Tick, Running
  <2>2. CASE sinceFailure < RecoveryTimeout
    <3>1. sinceFailure' = sinceFailure + 1
      BY <1>8, <1>t, <2>2, DependencyAssumption DEF Tick, Capped, TypeOK
    <3>2. QED
      BY <2>1, <2>2, <3>1 DEF Promise!Next, Promise!Wait
  <2>3. CASE sinceFailure = RecoveryTimeout
    <3>1. sinceFailure' = sinceFailure
      BY <1>8, <2>3, DependencyAssumption DEF Tick, Capped
    <3>2. QED
      BY <2>1, <3>1, <1>s
  <2>4. QED
    BY <1>t, <2>2, <2>3, DependencyAssumption DEF TypeOK
<1>9. CASE UNCHANGED vars
  BY <1>9, <1>s DEF vars, breaker, Running
<1>10. QED
  BY <1>1, <1>2, <1>3, <1>4, <1>5, <1>6, <1>7, <1>8, <1>9 DEF Next

\* What the breaker promises whoever calls through it: calls end as calls of the period they
\* began in, and a trial is only decided by a call of that trial.
THEOREM Implements == Spec => KeepsPromise
BY PromiseInit, PromiseStep, BreakerHolds, PTL DEF Spec, KeepsPromise, Promise!Spec

-----------------------------------------------------------------------------
(* What the wrappers tell.  A caller told to have set the key was answered *)
(* within its time, and the key holds for longer than that.                *)

ClaimsHeld ==
    \A c \in Callers : found[c] = "set" =>
        call[c] = "set" /\ key = c /\ hold + elapsed[c] >= HoldTime
WrapperInv == TypeOK /\ ClaimsHeld /\ ClaimExclusive /\ PermitsOnWord

LEMMA WrapperInit == Init => WrapperInv
BY TypeInit DEF Init, WrapperInv, ClaimsHeld, ClaimExclusive, PermitsOnWord

LEMMA WrapperStep == WrapperInv /\ [Next]_vars => WrapperInv'
<1> SUFFICES ASSUME WrapperInv, [Next]_vars PROVE WrapperInv'
  OBVIOUS
<1>t. TypeOK /\ TypeOK'
  BY TypeStep DEF WrapperInv
<1> USE DependencyAssumption
<1> DEFINE Keeps == ClaimsHeld' /\ ClaimExclusive' /\ PermitsOnWord'
<1>1. ASSUME NEW c \in Callers, NEW op \in RedisOps, Enter(c, op) PROVE Keeps
  BY <1>1, <1>t
  DEF Enter, Await, server, WrapperInv, ClaimsHeld, ClaimExclusive, PermitsOnWord, TypeOK
<1>2. ASSUME NEW c \in Callers, Refuse(c) PROVE Keeps
  BY <1>2, <1>t
  DEF Refuse, server, WrapperInv, ClaimsHeld, ClaimExclusive, PermitsOnWord, TypeOK
<1>3. ASSUME NEW c \in Callers, Runs(c) PROVE Keeps
  <2>1. PermitsOnWord' /\ UNCHANGED <<call, elapsed, claimed>>
    BY <1>3 DEF Runs, WrapperInv, PermitsOnWord
  <2>2. CASE RunsSet(c) /\ key = NoOne
    <3>1. key' = c /\ hold' = HoldTime /\ found' = [found EXCEPT ![c] = "set"] /\ call[c] = "set"
      BY <2>2 DEF RunsSet, RedisSets
    <3>2. claimed = {} /\ \A d \in Callers : found[d] # "set"
      BY <2>2 DEF WrapperInv, ClaimExclusive, ClaimsHeld
    <3>3. ClaimExclusive'
      BY <2>1, <3>2 DEF ClaimExclusive
    <3>4. ClaimsHeld'
      BY <1>t, <2>1, <3>1, <3>2 DEF ClaimsHeld, TypeOK
    <3>5. QED
      BY <2>1, <3>3, <3>4
  <2>3. CASE ~(RunsSet(c) /\ key = NoOne)
    <3>1. UNCHANGED <<key, hold>> /\ \E what \in Answers \ {"set"} : found' = [found EXCEPT ![c] = what]
      BY <1>3, <2>3
      DEF Runs, RunsHGetAll, RunsLRange, RunsLua, RunsSet, RedisSets, Finds, Answers
    <3>2. QED
      BY <1>t, <2>1, <3>1 DEF WrapperInv, ClaimsHeld, ClaimExclusive, TypeOK
  <2>4. QED
    BY <2>2, <2>3
<1>4. ASSUME NEW c \in Callers, Strays(c) PROVE Keeps
  <2>1. UNCHANGED <<call, elapsed, found, claimed, told, word>>
    BY <1>4 DEF Strays
  <2>2. UNCHANGED <<key, hold>> \/ key = NoOne
    BY <1>4 DEF Strays, RedisSets
  <2>3. QED
    BY <2>1, <2>2 DEF WrapperInv, ClaimsHeld, ClaimExclusive, PermitsOnWord
<1>5. ASSUME NEW c \in Callers, Replies(c) PROVE Keeps
  <2>1. ClaimsHeld' /\ PermitsOnWord'
    BY <1>5, <1>t DEF Replies, Return, Running, WrapperInv, ClaimsHeld, PermitsOnWord, TypeOK
  <2>2. ClaimExclusive'
    BY <1>5 DEF Replies, Running, WrapperInv, ClaimsHeld, ClaimExclusive
  <2>3. QED
    BY <2>1, <2>2
<1>6. ASSUME NEW c \in Callers, Fails(c) \/ Cancel(c) PROVE Keeps
  BY <1>6, <1>t
  DEF Fails, Cancel, Return, WrapperInv, ClaimsHeld, ClaimExclusive, PermitsOnWord, TypeOK
<1>7. ASSUME CloseClients PROVE Keeps
  BY <1>7 DEF CloseClients, server, WrapperInv, ClaimsHeld, ClaimExclusive, PermitsOnWord
<1>8. ASSUME NEW c \in Callers, AskOpa(c) PROVE Keeps
  BY <1>8, <1>t
  DEF AskOpa, Await, server, WrapperInv, ClaimsHeld, ClaimExclusive, PermitsOnWord, TypeOK
<1>9. ASSUME NEW c \in Callers, NEW reply \in OpaReplies, OpaAnswers(c, reply) PROVE Keeps
  BY <1>9, <1>t
  DEF OpaAnswers, Permits, Return, server, WrapperInv, ClaimsHeld, ClaimExclusive, PermitsOnWord, TypeOK
<1>10. ASSUME NEW c \in Callers, OpaFails(c) PROVE Keeps
  BY <1>10, <1>t
  DEF OpaFails, Return, server, WrapperInv, ClaimsHeld, ClaimExclusive, PermitsOnWord, TypeOK
<1>11. ASSUME Tick PROVE Keeps
  <2>1. UNCHANGED <<call, found, told, word>>
    BY <1>11 DEF Tick
  <2>2. ASSUME NEW c \in Callers, found[c] = "set"
        PROVE  call[c] = "set" /\ key' = c /\ hold' + elapsed'[c] >= HoldTime
    <3>1. call[c] = "set" /\ key = c /\ hold + elapsed[c] >= HoldTime
      BY <2>2 DEF WrapperInv, ClaimsHeld
    <3>2. elapsed[c] < CallTime /\ elapsed'[c] = elapsed[c] + 1
      BY <1>11, <3>1 DEF Tick
    <3>3. hold > 1 /\ hold' = hold - 1
      BY <1>11, <1>t, <3>1, <3>2 DEF Tick, TypeOK
    <3>4. key' = key
      BY <1>11, <1>t, <3>3 DEF Tick, TypeOK
    <3>5. QED
      BY <1>t, <3>1, <3>2, <3>3, <3>4 DEF TypeOK
  <2>3. ClaimsHeld'
    BY <2>1, <2>2 DEF ClaimsHeld
  <2>4. ClaimExclusive'
    BY <1>11 DEF Tick, WrapperInv, ClaimExclusive
  <2>5. PermitsOnWord'
    BY <2>1 DEF WrapperInv, PermitsOnWord
  <2>6. QED
    BY <2>3, <2>4, <2>5
<1>12. ASSUME UNCHANGED vars PROVE Keeps
  BY <1>12 DEF vars, server, WrapperInv, ClaimsHeld, ClaimExclusive, PermitsOnWord
<1>13. Keeps
  BY <1>1, <1>2, <1>3, <1>4, <1>5, <1>6, <1>7, <1>8, <1>9, <1>10, <1>11, <1>12 DEF Next
<1>14. QED
  BY <1>t, <1>13 DEF WrapperInv

\* Of the callers of redis_set that are told they set a key at most one is, and it did; nobody
\* is permitted without OPA's word: whatever times out, is cancelled or fails.
THEOREM TrueAnswers == Spec => []AnswersTrue
<1>1. WrapperInv => AnswersTrue
  BY DEF WrapperInv, AnswersTrue
<1>2. QED
  BY <1>1, WrapperInit, WrapperStep, PTL DEF Spec
=============================================================================
