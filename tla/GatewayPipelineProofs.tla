----------------------- MODULE GatewayPipelineProofs -----------------------
(***************************************************************************)
(* What holds of the pipeline for any set of requests, ids, agents, tools  *)
(* and rules and any limits, TTL, clock bound and number of faults.        *)
(*                                                                         *)
(* ReplayPerStore is not inductive: it says nothing of the key or the      *)
(* dictionary entry that keeps the next duplicate out.  ReplayInv adds     *)
(* that a pass less than ReplayTTL old is still held by the store that     *)
(* granted it.  SequenceJustified needs, for a request between LRANGE and  *)
(* EXEC whose WATCH is clean, that the rules hold of the list as it is     *)
(* now, not as it was read.                                                *)
(*                                                                         *)
(* GlobalBudget speaks of what was let through; GlobalInv ties it to what  *)
(* the limiters have counted: the lives of the Redis key do not overlap,   *)
(* each has counted all it let through, and the process's own list has     *)
(* everybody of the last window.  FreshInv turns ReplayInv round: until a  *)
(* Redis call fails, whatever a store holds was put there by a pass.       *)
(***************************************************************************)
EXTENDS GatewayPipeline, FiniteSetTheorems, TLAPS

USE RequestsAssumption, RulesAssumption, LimitsAssumption

\* Requests that have not been through step 4b.
Unpassed == {"global", "globalMem", "replay", "replayMem"}

ReplayInv ==
    /\ \A i \in Ids : replayExpires[i] # 0 => now < replayExpires[i]
    /\ \A i \in Ids : memSeen[i] <= now
    /\ \A r \in Requests : pc[r] \in Unpassed => passedBy[r] = "none"
    /\ \A r \in Requests : passedBy[r] # "none" => passedAt[r] \in 1..now
    /\ \A r \in Requests :
          passedBy[r] = "redis" /\ now < passedAt[r] + ReplayTTL
          => replayExpires[IdOf[r]] >= passedAt[r] + ReplayTTL
    /\ \A r \in Requests :
          passedBy[r] = "memory" /\ now < passedAt[r] + ReplayTTL
          => memSeen[IdOf[r]] >= passedAt[r]
    /\ ReplayPerStore

SequenceInv ==
    /\ \A r \in Requests : pc[r] = "exec" /\ watch[r] = "clean"
          => RulesHold(ToolOf[r], sequence[AgentOf[r]])
    /\ SequenceJustified

----------------------------------------------------------------------------
(* Types.                                                                  *)

MovesOK == pc' \in [Requests -> Steps] /\ reason' \in [Requests -> Reasons]

LEMMA GotoType ==
    ASSUME TypeOK, NEW r \in Requests, NEW step \in Steps, Goto(r, step)
    PROVE  MovesOK
BY DEF TypeOK, Goto, MovesOK

LEMMA DecideType ==
    ASSUME TypeOK, NEW r \in Requests, NEW why \in Reasons, Decide(r, why)
    PROVE  MovesOK
BY DEF TypeOK, Decide, MovesOK, Steps

\* The step a request takes in the pipeline leaves pc and reason typed.
LEMMA StepMoves ==
    ASSUME TypeOK, NEW r \in Requests, Step(r)
    PROVE  MovesOK
<1> USE DEF Steps, Reasons
<1>1. ASSUME NEW step \in Steps, Goto(r, step) PROVE MovesOK
  BY <1>1, GotoType
<1>2. ASSUME NEW why \in Reasons, Decide(r, why) PROVE MovesOK
  BY <1>2, DecideType
<1>3. GlobalRate(r) => \/ \E step \in Steps : Goto(r, step) \/ \E why \in Reasons : Decide(r, why)
  BY DEF GlobalRate, GlobalReply, Admit, ValidateJwt
<1>4. GlobalRateInMemory(r) => \/ \E step \in Steps : Goto(r, step) \/ \E why \in Reasons : Decide(r, why)
  BY DEF GlobalRateInMemory, Admit, ValidateJwt
<1>5. Replay(r) \/ ReplayInMemory(r)
        => \/ \E step \in Steps : Goto(r, step) \/ \E why \in Reasons : Decide(r, why)
  BY DEF Replay, ReplayInMemory, Pass
<1>6. SessionLookup(r) \/ RbacCheck(r) \/ Triage(r)
        => \/ \E step \in Steps : Goto(r, step) \/ \E why \in Reasons : Decide(r, why)
  BY DEF SessionLookup, RbacCheck, Triage
<1>7. AgentRate(r) \/ Watch(r) \/ ReadSequence(r) \/ ExecSequence(r)
        => \/ \E step \in Steps : Goto(r, step) \/ \E why \in Reasons : Decide(r, why)
  BY DEF AgentRate, AgentReply, Watch, ReadSequence, ExecSequence
<1>8. QED
  BY <1>1, <1>2, <1>3, <1>4, <1>5, <1>6, <1>7 DEF Step

\* Every variable of the pipeline keeps its type in every reachable state.
THEOREM TypeCorrect == Spec => []TypeOK
<1>1. Init => TypeOK
  BY DEF Init, TypeOK, Steps, Reasons, Stores, Keys
<1>2. TypeOK /\ [Next]_vars => TypeOK'
  <2> SUFFICES ASSUME TypeOK, [Next]_vars PROVE TypeOK'
    OBVIOUS
  <2> USE DEF TypeOK, MovesOK, redisVars, memVars, history, setup, Clean, Fault
  <2>1. ASSUME NEW r \in Requests, Step(r) PROVE TypeOK'
    <3>0. MovesOK
      BY <2>1, StepMoves
    <3>1. CASE GlobalRate(r)
      <4>1. globalCount' \in 0..GlobalLimit /\ globalExpires' \in Nat
        BY <3>1 DEF GlobalRate, GlobalReply, GlobalScript
      <4>2. admittedBy' \in [Requests -> Stores] /\ admittedAt' \in [Requests -> Nat]
        BY <3>1, <4>1 DEF GlobalRate, GlobalReply, Admit, Stores
      <4>3. faults' \in 0..MaxFaults
        BY <3>1 DEF GlobalRate
      <4>4. QED
        BY <3>0, <3>1, <4>1, <4>2, <4>3 DEF GlobalRate
    <3>2. CASE GlobalRateInMemory(r)
      <4>1. memAdmits' \in SUBSET (Requests \X Nat)
        BY <3>2 DEF GlobalRateInMemory, MemLive
      <4>2. admittedBy' \in [Requests -> Stores] /\ admittedAt' \in [Requests -> Nat]
        BY <3>2 DEF GlobalRateInMemory, Admit, Stores
      <4>3. QED
        BY <3>0, <3>2, <4>1, <4>2 DEF GlobalRateInMemory
    <3>3. CASE Replay(r)
      <4>1. replayExpires' \in [Ids -> Nat]
        BY <3>3 DEF Replay, SetReplay
      <4>2. passedBy' \in [Requests -> Stores] /\ passedAt' \in [Requests -> Nat]
        BY <3>3 DEF Replay, Pass, Stores
      <4>3. faults' \in 0..MaxFaults
        BY <3>3 DEF Replay
      <4>4. QED
        BY <3>0, <3>3, <4>1, <4>2, <4>3 DEF Replay
    <3>4. CASE ReplayInMemory(r)
      <4>0. SeenPruned \in [Ids -> Nat] /\ now \in Nat
        BY DEF SeenPruned
      <4>a. \/ memSeen' = SeenPruned /\ UNCHANGED <<passedBy, passedAt>>
            \/ memSeen' = [SeenPruned EXCEPT ![IdOf[r]] = now] /\ Pass(r, "memory")
        BY <3>4 DEF ReplayInMemory
      <4>1. memSeen' \in [Ids -> Nat]
        BY <4>0, <4>a
      <4>2. passedBy' \in [Requests -> Stores] /\ passedAt' \in [Requests -> Nat]
        <5>1. now \in Nat /\ "memory" \in Stores
          BY DEF Stores
        <5>2. CASE UNCHANGED <<passedBy, passedAt>>
          BY <5>2
        <5>3. CASE Pass(r, "memory")
          BY <5>1, <5>3 DEF Pass
        <5>4. QED
          BY <4>a, <5>2, <5>3
      <4>3. QED
        BY <3>0, <3>4, <4>1, <4>2 DEF ReplayInMemory
    <3>5. CASE SessionLookup(r)
      BY <3>0, <3>5 DEF SessionLookup
    <3>6. CASE RbacCheck(r)
      <4>0. now \in Nat
        OBVIOUS
      <4>1. stamp' \in [Requests -> Nat]
        BY <3>6, <4>0 DEF RbacCheck
      <4>2. QED
        BY <3>0, <3>6, <4>1 DEF RbacCheck
    <3>7. CASE AgentRate(r)
      <4>0. AgentScript(KeyOf(r), stamp[r]) \/ UNCHANGED <<windowScores, windowExpires>>
        BY <3>7 DEF AgentRate, AgentReply
      <4>a. KeyOf(r) \in Keys /\ stamp[r] \in Nat /\ now + AgentWindow \in Nat
        BY DEF KeyOf, Keys
      <4>b. WindowAfter(KeyOf(r), stamp[r]) \in SUBSET Nat
        BY <4>a DEF WindowAfter, InWindow
      <4>1. windowScores' \in [Keys -> SUBSET Nat] /\ windowExpires' \in [Keys -> Nat]
        BY <4>0, <4>a, <4>b DEF AgentScript
      <4>2. faults' \in 0..MaxFaults
        BY <3>7 DEF AgentRate
      <4>3. QED
        BY <3>0, <3>7, <4>1, <4>2 DEF AgentRate
    <3>8. CASE Watch(r)
      BY <3>0, <3>8 DEF Watch
    <3>9. CASE ReadSequence(r)
      BY <3>0, <3>9 DEF ReadSequence, Unwatch
    <3>10. CASE ExecSequence(r)
      <4>1. sequence' \in [Agents -> SUBSET Tools]
        BY <3>10 DEF ExecSequence, Push
      <4>2. watch' \in [Requests -> {"off", "clean", "dirty"}]
        BY <3>10 DEF ExecSequence, Push, Unwatch
      <4>3. faults' \in 0..MaxFaults
        BY <3>10 DEF ExecSequence
      <4>4. QED
        BY <3>0, <3>10, <4>1, <4>2, <4>3 DEF ExecSequence
    <3>11. CASE Triage(r)
      BY <3>0, <3>11 DEF Triage
    <3>12. QED
      BY <2>1, <3>1, <3>2, <3>3, <3>4, <3>5, <3>6, <3>7, <3>8, <3>9, <3>10, <3>11 DEF Step
  <2>2. ASSUME NEW a \in Agents, SequenceExpires(a) PROVE TypeOK'
    BY <2>2 DEF SequenceExpires
  <2>3. CASE Tick
    BY <2>3 DEF Tick
  <2>4. CASE UNCHANGED vars
    BY <2>4 DEF vars
  <2>5. QED
    BY <2>1, <2>2, <2>3, <2>4 DEF Next, Finished
<1>3. QED
  BY <1>1, <1>2, PTL DEF Spec

----------------------------------------------------------------------------
(* Replay protection.                                                      *)

replayState == <<now, replayExpires, memSeen, passedBy, passedAt>>

ReplayTypes ==
    /\ now \in Nat /\ now > 0 /\ ReplayTTL \in Nat /\ ReplayTTL > 0
    /\ replayExpires \in [Ids -> Nat] /\ memSeen \in [Ids -> Nat]
    /\ passedBy \in [Requests -> Stores] /\ passedAt \in [Requests -> Nat]
    /\ IdOf \in [Requests -> Ids]

LEMMA ReplayTyped == TypeOK => ReplayTypes
BY DEF TypeOK, ReplayTypes

\* A step of the pipeline other than 4b leaves the replay state alone and takes no
\* request back before it.
LEMMA OtherSteps ==
    ASSUME TypeOK, NEW r \in Requests, Step(r), ~Replay(r), ~ReplayInMemory(r)
    PROVE  /\ UNCHANGED replayState
           /\ \A s \in Requests : pc'[s] \in Unpassed => pc[s] \in Unpassed
<1> USE DEF TypeOK, replayState, redisVars, memVars, history, setup, Unpassed, Goto, Decide
<1>1. CASE GlobalRate(r)
  BY <1>1 DEF GlobalRate, GlobalReply, Admit, ValidateJwt
<1>2. CASE GlobalRateInMemory(r)
  BY <1>2 DEF GlobalRateInMemory, Admit, ValidateJwt
<1>3. CASE SessionLookup(r)
  BY <1>3 DEF SessionLookup
<1>4. CASE RbacCheck(r)
  BY <1>4 DEF RbacCheck
<1>5. CASE AgentRate(r)
  BY <1>5 DEF AgentRate, AgentReply
<1>6. CASE Watch(r)
  BY <1>6 DEF Watch
<1>7. CASE ReadSequence(r)
  BY <1>7 DEF ReadSequence
<1>8. CASE ExecSequence(r)
  BY <1>8 DEF ExecSequence
<1>9. CASE Triage(r)
  BY <1>9 DEF Triage
<1>10. QED
  BY <1>1, <1>2, <1>3, <1>4, <1>5, <1>6, <1>7, <1>8, <1>9 DEF Step

LEMMA ReplayFrame ==
    ASSUME TypeOK, ReplayInv, UNCHANGED replayState,
           \A s \in Requests : pc'[s] \in Unpassed => pc[s] \in Unpassed
    PROVE  ReplayInv'
BY DEF ReplayInv, ReplayPerStore, SameId, replayState

\* A request that 4b turns away leaves both stores holding what they held.
LEMMA ReplayRefused ==
    ASSUME TypeOK, ReplayInv, NEW i \in Ids, SetReplay(i) \/ UNCHANGED replayExpires,
           UNCHANGED <<now, memSeen, passedBy, passedAt>>,
           \A s \in Requests : pc'[s] \in Unpassed => pc[s] \in Unpassed
    PROVE  ReplayInv'
<1>1. \A j \in Ids : replayExpires'[j] = replayExpires[j]
                     \/ (replayExpires[j] = 0 /\ replayExpires'[j] = now + ReplayTTL)
  BY DEF SetReplay, ReplayHeld, TypeOK
<1>2. ReplayPerStore'
  BY DEF ReplayInv, ReplayPerStore, SameId
<1>3. ReplayTypes
  BY ReplayTyped
<1>4. \A j \in Ids : replayExpires'[j] # 0 => now' < replayExpires'[j]
  BY <1>1, <1>3 DEF ReplayInv, ReplayTypes
<1>5. \A s \in Requests :
         passedBy'[s] = "redis" /\ now' < passedAt'[s] + ReplayTTL
         => replayExpires'[IdOf[s]] >= passedAt'[s] + ReplayTTL
  BY <1>1, <1>3 DEF ReplayInv, ReplayTypes
<1>6. QED
  BY <1>2, <1>4, <1>5 DEF ReplayInv

LEMMA ReplayStep ==
    ASSUME TypeOK, TypeOK', ReplayInv, NEW r \in Requests, Replay(r)
    PROVE  ReplayInv'
<1> DEFINE i == IdOf[r]
<1>0. i \in Ids /\ pc[r] = "replay" /\ passedBy[r] = "none" /\ UNCHANGED <<now, memSeen>>
  BY DEF Replay, ReplayInv, Unpassed, memVars
<1>1. CASE UNCHANGED <<passedBy, passedAt>>
  <2>1. SetReplay(i) \/ UNCHANGED replayExpires
    BY <1>1 DEF Replay
  <2>2. \A s \in Requests : pc'[s] \in Unpassed => pc[s] \in Unpassed
    BY <1>0 DEF Replay, Pass, Goto, Decide, Unpassed, TypeOK
  <2>3. QED
    BY <1>0, <1>1, <2>1, <2>2, ReplayRefused
<1>2. CASE ~ReplayHeld(i) /\ SetReplay(i) /\ Pass(r, "redis")
  <2>1. /\ replayExpires[i] = 0
        /\ replayExpires' = [replayExpires EXCEPT ![i] = now + ReplayTTL]
    BY <1>2 DEF ReplayHeld, SetReplay
  <2>2. /\ passedBy' = [passedBy EXCEPT ![r] = "redis"]
        /\ passedAt' = [passedAt EXCEPT ![r] = now]
        /\ pc' = [pc EXCEPT ![r] = "session"]
    BY <1>2 DEF Pass, Goto
  <2>3. \A s \in Requests : IdOf[s] = i /\ passedBy[s] = "redis" => now >= passedAt[s] + ReplayTTL
    BY <2>1, ReplayTyped DEF ReplayInv, ReplayTypes
  <2>4. ReplayPerStore'
    BY <1>0, <2>2, <2>3 DEF ReplayInv, ReplayPerStore, SameId, TypeOK
  <2>5. \A s \in Requests : pc'[s] \in Unpassed => passedBy'[s] = "none"
    BY <2>2 DEF ReplayInv, Unpassed, TypeOK
  <2>6. \A s \in Requests : passedBy'[s] # "none" => passedAt'[s] \in 1..now'
    BY <1>0, <2>2 DEF ReplayInv, TypeOK
  <2>7. \A s \in Requests :
           passedBy'[s] = "redis" /\ now' < passedAt'[s] + ReplayTTL
           => replayExpires'[IdOf[s]] >= passedAt'[s] + ReplayTTL
    BY <1>0, <2>1, <2>2, <2>3 DEF ReplayInv, TypeOK
  <2>8. \A s \in Requests :
           passedBy'[s] = "memory" /\ now' < passedAt'[s] + ReplayTTL
           => memSeen'[IdOf[s]] >= passedAt'[s]
    BY <1>0, <2>2 DEF ReplayInv, TypeOK
  <2>9. \A j \in Ids : replayExpires'[j] # 0 => now' < replayExpires'[j]
    BY <1>0, <2>1 DEF ReplayInv, TypeOK
  <2>10. \A j \in Ids : memSeen'[j] <= now'
    BY <1>0 DEF ReplayInv
  <2>11. QED
    BY <2>4, <2>5, <2>6, <2>7, <2>8, <2>9, <2>10 DEF ReplayInv
<1>3. QED
  BY <1>1, <1>2 DEF Replay

LEMMA ReplayInMemoryStep ==
    ASSUME TypeOK, TypeOK', ReplayInv, NEW r \in Requests, ReplayInMemory(r)
    PROVE  ReplayInv'
<1> DEFINE i == IdOf[r]
<1>0. /\ i \in Ids /\ pc[r] \in Unpassed /\ passedBy[r] = "none" /\ now \in 1..MaxTime
      /\ UNCHANGED <<now, replayExpires>>
  BY DEF ReplayInMemory, ReplayInv, Unpassed, redisVars, TypeOK
<1>1. \A j \in Ids : SeenPruned[j] = memSeen[j] \/ (SeenPruned[j] = 0 /\ ~SeenLive(j))
  BY DEF SeenPruned
<1>2. SeenPruned \in [Ids -> Nat]
  BY DEF SeenPruned, TypeOK
<1>3. \A s \in Requests : passedBy[s] = "memory" /\ ~SeenLive(IdOf[s])
        => now >= passedAt[s] + ReplayTTL
  BY <1>0 DEF ReplayInv, SeenLive, TypeOK
<1>4. CASE memSeen' = SeenPruned /\ UNCHANGED <<passedBy, passedAt>>
  <2>1. \A s \in Requests : pc'[s] \in Unpassed => pc[s] \in Unpassed
    BY <1>0 DEF ReplayInMemory, Pass, Goto, Decide, Unpassed, TypeOK
  <2>2. \A s \in Requests :
           passedBy'[s] = "memory" /\ now' < passedAt'[s] + ReplayTTL
           => memSeen'[IdOf[s]] >= passedAt'[s]
    BY <1>0, <1>1, <1>3, <1>4 DEF ReplayInv, TypeOK
  <2>3. \A j \in Ids : memSeen'[j] <= now'
    BY <1>0, <1>1, <1>4, ReplayTyped DEF ReplayInv, ReplayTypes
  <2>4. ReplayPerStore'
    BY <1>4 DEF ReplayInv, ReplayPerStore, SameId
  <2>5. QED
    BY <1>0, <1>4, <2>1, <2>2, <2>3, <2>4 DEF ReplayInv
<1>5. CASE ~SeenLive(i) /\ memSeen' = [SeenPruned EXCEPT ![i] = now] /\ Pass(r, "memory")
  <2>1. /\ passedBy' = [passedBy EXCEPT ![r] = "memory"]
        /\ passedAt' = [passedAt EXCEPT ![r] = now]
        /\ pc' = [pc EXCEPT ![r] = "session"]
    BY <1>5 DEF Pass, Goto
  <2>2. ReplayPerStore'
    BY <1>0, <1>3, <1>5, <2>1 DEF ReplayInv, ReplayPerStore, SameId, TypeOK
  <2>3. \A s \in Requests : pc'[s] \in Unpassed => passedBy'[s] = "none"
    BY <2>1 DEF ReplayInv, Unpassed, TypeOK
  <2>4. \A s \in Requests : passedBy'[s] # "none" => passedAt'[s] \in 1..now'
    BY <1>0, <2>1 DEF ReplayInv, TypeOK
  <2>5. \A s \in Requests :
           passedBy'[s] = "redis" /\ now' < passedAt'[s] + ReplayTTL
           => replayExpires'[IdOf[s]] >= passedAt'[s] + ReplayTTL
    BY <1>0, <2>1 DEF ReplayInv, TypeOK
  <2>6. \A j \in Ids : memSeen'[j] = IF j = i THEN now ELSE SeenPruned[j]
    BY <1>0, <1>2, <1>5
  <2>7. \A s \in Requests :
           passedBy'[s] = "memory" /\ now' < passedAt'[s] + ReplayTTL
           => memSeen'[IdOf[s]] >= passedAt'[s]
    <3> SUFFICES ASSUME NEW s \in Requests, passedBy'[s] = "memory",
                        now' < passedAt'[s] + ReplayTTL
                 PROVE  memSeen'[IdOf[s]] >= passedAt'[s]
      OBVIOUS
    <3>1. IdOf[s] \in Ids
      OBVIOUS
    <3>2. CASE s = r
      BY <1>0, <2>1, <2>6, <3>2 DEF TypeOK
    <3>3. CASE s # r
      <4>1. passedBy[s] = "memory" /\ passedAt'[s] = passedAt[s] /\ passedAt[s] \in 1..now
        BY <2>1, <3>3 DEF ReplayInv, TypeOK
      <4>2. now < passedAt[s] + ReplayTTL /\ SeenLive(IdOf[s])
        BY <1>0, <1>3, <4>1 DEF TypeOK
      <4>3. memSeen[IdOf[s]] >= passedAt[s] /\ SeenPruned[IdOf[s]] = memSeen[IdOf[s]]
        BY <1>1, <3>1, <4>1, <4>2 DEF ReplayInv
      <4>4. QED
        BY <1>0, <2>6, <3>1, <4>1, <4>3 DEF TypeOK
    <3>4. QED
      BY <3>2, <3>3
  <2>8. \A j \in Ids : memSeen'[j] <= now'
    BY <1>0, <1>1, <2>6, ReplayTyped DEF ReplayInv, ReplayTypes
  <2>9. QED
    BY <1>0, <2>2, <2>3, <2>4, <2>5, <2>7, <2>8 DEF ReplayInv
<1>6. QED
  BY <1>4, <1>5 DEF ReplayInMemory

LEMMA ReplayTick ==
    ASSUME TypeOK, TypeOK', ReplayInv, Tick
    PROVE  ReplayInv'
<1>1. /\ now' = now + 1 /\ now \in Nat
      /\ replayExpires' = [j \in Ids |-> IF replayExpires[j] = now' THEN 0 ELSE replayExpires[j]]
      /\ UNCHANGED <<pc, memSeen, passedBy, passedAt>>
  BY DEF Tick, TypeOK, memVars, history
<1>2. \A j \in Ids : replayExpires'[j] # 0 => now' < replayExpires'[j]
  BY <1>1 DEF ReplayInv, TypeOK
<1>3. \A s \in Requests :
         passedBy'[s] = "redis" /\ now' < passedAt'[s] + ReplayTTL
         => replayExpires'[IdOf[s]] >= passedAt'[s] + ReplayTTL
  BY <1>1 DEF ReplayInv, TypeOK
<1>4. ReplayPerStore'
  BY <1>1 DEF ReplayInv, ReplayPerStore, SameId
<1>5. \A j \in Ids : memSeen'[j] <= now'
  BY <1>1, ReplayTyped DEF ReplayInv, ReplayTypes
<1>6. \A s \in Requests : passedBy'[s] # "none" => passedAt'[s] \in 1..now'
  BY <1>1, ReplayTyped DEF ReplayInv, ReplayTypes
<1>7. \A s \in Requests :
         passedBy'[s] = "memory" /\ now' < passedAt'[s] + ReplayTTL
         => memSeen'[IdOf[s]] >= passedAt'[s]
  BY <1>1, ReplayTyped DEF ReplayInv, ReplayTypes
<1>8. QED
  BY <1>1, <1>2, <1>3, <1>4, <1>5, <1>6, <1>7 DEF ReplayInv

LEMMA ReplayInvariant == Spec => []ReplayInv
<1>1. Init => ReplayInv
  BY DEF Init, ReplayInv, ReplayPerStore
<1>2. TypeOK /\ TypeOK' /\ ReplayInv /\ [Next]_vars => ReplayInv'
  <2> SUFFICES ASSUME TypeOK, TypeOK', ReplayInv, [Next]_vars PROVE ReplayInv'
    OBVIOUS
  <2>1. ASSUME NEW r \in Requests, Step(r) PROVE ReplayInv'
    BY <2>1, OtherSteps, ReplayFrame, ReplayStep, ReplayInMemoryStep
  <2>2. ASSUME NEW a \in Agents, SequenceExpires(a) PROVE ReplayInv'
    <3>1. UNCHANGED <<replayState, pc>>
      BY <2>2 DEF SequenceExpires, replayState, memVars, history
    <3>2. QED
      BY <3>1, ReplayFrame
  <2>3. CASE UNCHANGED vars
    <3>1. UNCHANGED <<replayState, pc>>
      BY <2>3 DEF vars, replayState, memVars, history, redisVars
    <3>2. QED
      BY <3>1, ReplayFrame
  <2>4. QED
    BY <2>1, <2>2, <2>3, ReplayTick DEF Next, Finished
<1>3. QED
  BY <1>1, <1>2, TypeCorrect, PTL DEF Spec

\* No store lets an id through twice within ReplayTTL: step_4b_replay_protection is
\* at-most-once per store, for any interleaving and any loss of Redis replies.
THEOREM ReplaySafe == Spec => []ReplayPerStore
<1>1. ReplayInv => ReplayPerStore
  BY DEF ReplayInv
<1>2. QED
  BY <1>1, ReplayInvariant, PTL

----------------------------------------------------------------------------
(* Sequence analysis.                                                      *)

sequenceState == <<sequence, watch>>

\* Steps outside step 6 push nothing, watch nothing, and bring nobody to EXEC.
LEMMA OutsideSequence ==
    ASSUME TypeOK, NEW r \in Requests, Step(r),
           ~Watch(r), ~ReadSequence(r), ~ExecSequence(r)
    PROVE  /\ UNCHANGED sequenceState
           /\ \A s \in Requests : pc'[s] = "exec" => pc[s] = "exec"
<1> USE DEF TypeOK, sequenceState, redisVars, Goto, Decide
<1>1. CASE GlobalRate(r)
  BY <1>1 DEF GlobalRate, GlobalReply, Admit, ValidateJwt
<1>2. CASE GlobalRateInMemory(r)
  BY <1>2 DEF GlobalRateInMemory, Admit, ValidateJwt
<1>3. CASE Replay(r)
  BY <1>3 DEF Replay, Pass
<1>4. CASE ReplayInMemory(r)
  BY <1>4 DEF ReplayInMemory, Pass
<1>5. CASE SessionLookup(r)
  BY <1>5 DEF SessionLookup
<1>6. CASE RbacCheck(r)
  BY <1>6 DEF RbacCheck
<1>7. CASE AgentRate(r)
  BY <1>7 DEF AgentRate, AgentReply
<1>8. CASE Triage(r)
  BY <1>8 DEF Triage
<1>9. QED
  BY <1>1, <1>2, <1>3, <1>4, <1>5, <1>6, <1>7, <1>8 DEF Step

\* The rules ask for events; more events never break them.
LEMMA RulesMonotone ==
    ASSUME NEW t \in Tools, NEW few, NEW many, few \subseteq many, RulesHold(t, few)
    PROVE  RulesHold(t, many)
BY DEF RulesHold

LEMMA SequenceFrame ==
    ASSUME SequenceInv, UNCHANGED sequenceState,
           \A s \in Requests : pc'[s] = "exec" => pc[s] = "exec"
    PROVE  SequenceInv'
BY DEF SequenceInv, SequenceJustified, sequenceState

\* An EXEC that takes effect pushes a justified event, and what the other clean
\* watchers read is gone or was read of another list.
LEMMA PushStep ==
    ASSUME TypeOK, SequenceInv, NEW r \in Requests, Push(r), pc[r] = "exec",
           \A s \in Requests : pc'[s] = "exec" => pc[s] = "exec"
    PROVE  SequenceInv'
<1> DEFINE a == AgentOf[r]
<1>1. a \in Agents /\ ToolOf[r] \in Tools /\ RulesHold(ToolOf[r], sequence[a])
  BY DEF Push, SequenceInv
<1>2. sequence' = [sequence EXCEPT ![a] = sequence[a] \cup {ToolOf[r]}]
  BY DEF Push
<1>3. \A b \in Agents : sequence[b] \subseteq sequence'[b] /\ (b # a => sequence'[b] = sequence[b])
  BY <1>2 DEF TypeOK
<1>4. \A b \in Agents : \A t \in sequence'[b] : t \in Tools /\ RulesHold(t, sequence[b])
  BY <1>1, <1>2 DEF TypeOK, SequenceInv, SequenceJustified
<1>5. SequenceJustified'
  BY <1>3, <1>4, RulesMonotone DEF SequenceJustified, RulesHold
<1>6. \A s \in Requests : watch'[s] = "clean" => watch[s] = "clean" /\ AgentOf[s] # a
  BY DEF Push, TypeOK
<1>7. \A s \in Requests : pc'[s] = "exec" /\ watch'[s] = "clean"
        => RulesHold(ToolOf[s], sequence'[AgentOf[s]])
  BY <1>3, <1>6 DEF SequenceInv
<1>8. QED
  BY <1>5, <1>7 DEF SequenceInv, RulesHold

\* Every event of a sequence list has its prerequisites in that list: WATCH closes
\* step_6_sequence_analysis against pushes and expiry between LRANGE and EXEC.
THEOREM SequenceSafe == Spec => []SequenceJustified
<1>1. Init => SequenceInv
  BY DEF Init, SequenceInv, SequenceJustified
<1>2. TypeOK /\ SequenceInv /\ [Next]_vars => SequenceInv'
  <2> SUFFICES ASSUME TypeOK, SequenceInv, [Next]_vars PROVE SequenceInv'
    OBVIOUS
  <2>1. ASSUME NEW r \in Requests, Step(r) PROVE SequenceInv'
    <3>1. CASE Watch(r)
      <4>1. UNCHANGED sequence /\ pc'[r] # "exec" /\ \A s \in Requests \ {r} :
               pc'[s] = pc[s] /\ watch'[s] = watch[s]
        BY <3>1 DEF Watch, Goto, Decide, TypeOK, redisVars
      <4>2. QED
        BY <4>1 DEF SequenceInv, SequenceJustified, RulesHold
    <3>2. CASE ReadSequence(r)
      <4>1. UNCHANGED sequence /\ \A s \in Requests \ {r} :
               pc'[s] = pc[s] /\ watch'[s] = watch[s]
        BY <3>2 DEF ReadSequence, Unwatch, Goto, Decide, TypeOK, redisVars
      <4>2. pc'[r] = "exec" => RulesHold(ToolOf[r], sequence[AgentOf[r]])
        BY <3>2 DEF ReadSequence, Goto, Decide, TypeOK
      <4>3. QED
        BY <4>1, <4>2 DEF SequenceInv, SequenceJustified, RulesHold
    <3>3. CASE ExecSequence(r)
      <4>1. pc[r] = "exec" /\ \A s \in Requests : pc'[s] = "exec" => pc[s] = "exec" /\ s # r
        BY <3>3 DEF ExecSequence, Goto, Decide, TypeOK
      <4>2. CASE Push(r)
        BY <4>1, <4>2, PushStep
      <4>3. CASE Unwatch(r) /\ UNCHANGED sequence
        <5>1. \A s \in Requests : watch'[s] = "clean" => watch[s] = "clean"
          BY <4>3 DEF Unwatch, TypeOK
        <5>2. QED
          BY <4>1, <4>3, <5>1 DEF SequenceInv, SequenceJustified, RulesHold
      <4>4. QED
        BY <3>3, <4>2, <4>3 DEF ExecSequence
    <3>4. QED
      BY <2>1, <3>1, <3>2, <3>3, OutsideSequence, SequenceFrame
  <2>2. ASSUME NEW a \in Agents, SequenceExpires(a) PROVE SequenceInv'
    <3>1. /\ UNCHANGED pc /\ sequence' = [sequence EXCEPT ![a] = {}]
          /\ \A s \in Requests : watch'[s] = "clean" => watch[s] = "clean" /\ AgentOf[s] # a
      BY <2>2 DEF SequenceExpires, TypeOK
    <3>2. \A b \in Agents : sequence'[b] = IF b = a THEN {} ELSE sequence[b]
      BY <3>1 DEF TypeOK
    <3>3. QED
      BY <3>1, <3>2 DEF SequenceInv, SequenceJustified, RulesHold
  <2>3. CASE Tick
    BY <2>3, SequenceFrame DEF Tick, sequenceState
  <2>4. CASE UNCHANGED vars
    BY <2>4, SequenceFrame DEF vars, sequenceState, redisVars
  <2>5. QED
    BY <2>1, <2>2, <2>3, <2>4 DEF Next, Finished
<1>3. SequenceInv => SequenceJustified
  BY DEF SequenceInv
<1>4. QED
  BY <1>1, <1>2, <1>3, TypeCorrect, PTL DEF Spec

----------------------------------------------------------------------------
(* The global rate.  GlobalBudget is not inductive: it says nothing of the *)
(* entries the in-memory limiter counts, nor of what the Redis key has     *)
(* still to give in the life that is running.                              *)

globalState == <<now, globalCount, globalExpires, memAdmits, admittedBy, admittedAt>>

\* Requests that have not been through step 1.
Unadmitted == {"global", "globalMem"}

Admitted == {r \in Requests : admittedBy[r] # "none"}

\* What the Redis key that expired, or expires, at t let through.
RedisAt(t) == {r \in Requests : admittedBy[r] = "redis" /\ admittedAt[r] = t}

\* What the in-memory limiter let through in the window that ends with t.
MemoryIn(t) == {r \in Requests : /\ admittedBy[r] = "memory"
                                 /\ t - GlobalWindow < admittedAt[r] /\ admittedAt[r] <= t}

\* A life of the key is at most a window ahead, and starts after all the others are over.
KeyInv ==
    /\ globalCount = 0 <=> globalExpires = 0
    /\ globalExpires # 0 => now < globalExpires /\ globalExpires <= now + GlobalWindow
    /\ \A r \in Requests : admittedBy[r] = "redis" =>
          admittedAt[r] <= now \/ (globalExpires # 0 /\ admittedAt[r] = globalExpires)
    /\ globalExpires # 0 => \A r \in Requests : admittedBy[r] = "redis" =>
          admittedAt[r] = globalExpires \/ admittedAt[r] + GlobalWindow <= globalExpires
    /\ \A r, s \in Requests :
          admittedBy[r] = "redis" /\ admittedBy[s] = "redis" /\ admittedAt[r] < admittedAt[s]
          => admittedAt[s] - admittedAt[r] >= GlobalWindow

\* A life lets through no more than it has counted.
LivesInv ==
    /\ globalExpires # 0 => Cardinality(RedisAt(globalExpires)) <= globalCount
    /\ \A r \in Requests : admittedBy[r] = "redis" => Cardinality(RedisAt(admittedAt[r])) <= GlobalLimit

\* Whoever the limiter let through within a window is among the entries it keeps.
LimiterInv ==
    /\ IsFiniteSet(memAdmits)
    /\ \A r \in Requests : admittedBy[r] = "memory" => admittedAt[r] \in 1..now
    /\ \A r \in Requests : admittedBy[r] = "memory" /\ admittedAt[r] > now - GlobalWindow
          => <<r, admittedAt[r]>> \in memAdmits
    /\ \A t \in 1..now : Cardinality(MemoryIn(t)) <= GlobalLimit

GlobalInv ==
    /\ IsFiniteSet(Admitted)
    /\ \A r \in Requests : pc[r] \in Unadmitted => admittedBy[r] = "none"
    /\ KeyInv /\ LivesInv /\ LimiterInv

GlobalTypes ==
    /\ now \in Nat /\ now > 0
    /\ globalCount \in 0..GlobalLimit /\ globalExpires \in Nat
    /\ memAdmits \in SUBSET (Requests \X Nat)
    /\ admittedBy \in [Requests -> Stores] /\ admittedAt \in [Requests -> Nat]

LEMMA GlobalTyped == TypeOK => GlobalTypes
BY DEF TypeOK, GlobalTypes

\* A step of the pipeline other than step 1 leaves the limiters alone and takes no
\* request back before it.
LEMMA AfterGlobal ==
    ASSUME TypeOK, NEW r \in Requests, Step(r), ~GlobalRate(r), ~GlobalRateInMemory(r)
    PROVE  /\ UNCHANGED globalState
           /\ \A s \in Requests : pc'[s] \in Unadmitted => pc[s] \in Unadmitted
<1> USE DEF TypeOK, globalState, redisVars, memVars, history, setup, Unadmitted, Goto, Decide
<1>1. CASE Replay(r)
  BY <1>1 DEF Replay, Pass
<1>2. CASE ReplayInMemory(r)
  BY <1>2 DEF ReplayInMemory, Pass
<1>3. CASE SessionLookup(r)
  BY <1>3 DEF SessionLookup
<1>4. CASE RbacCheck(r)
  BY <1>4 DEF RbacCheck
<1>5. CASE AgentRate(r)
  BY <1>5 DEF AgentRate, AgentReply
<1>6. CASE Watch(r)
  BY <1>6 DEF Watch
<1>7. CASE ReadSequence(r)
  BY <1>7 DEF ReadSequence
<1>8. CASE ExecSequence(r)
  BY <1>8 DEF ExecSequence
<1>9. CASE Triage(r)
  BY <1>9 DEF Triage
<1>10. QED
  BY <1>1, <1>2, <1>3, <1>4, <1>5, <1>6, <1>7, <1>8, <1>9 DEF Step

LEMMA GlobalFrame ==
    ASSUME GlobalInv, UNCHANGED globalState,
           \A s \in Requests : pc'[s] \in Unadmitted => pc[s] \in Unadmitted
    PROVE  GlobalInv'
<1>1. /\ UNCHANGED <<now, globalCount, globalExpires, memAdmits, admittedBy, admittedAt>>
      /\ Admitted' = Admitted
  BY DEF globalState, Admitted
<1>2. \A t : RedisAt(t)' = RedisAt(t) /\ MemoryIn(t)' = MemoryIn(t)
  BY <1>1 DEF RedisAt, MemoryIn
<1>3. KeyInv' /\ LivesInv' /\ LimiterInv'
  BY <1>1, <1>2 DEF GlobalInv, KeyInv, LivesInv, LimiterInv
<1>4. QED
  BY <1>1, <1>3 DEF GlobalInv

LEMMA AdmittedCounts ==
    ASSUME IsFiniteSet(Admitted), NEW t
    PROVE  /\ IsFiniteSet(RedisAt(t)) /\ Cardinality(RedisAt(t)) \in Nat
           /\ IsFiniteSet(MemoryIn(t)) /\ Cardinality(MemoryIn(t)) \in Nat
<1>1. RedisAt(t) \in SUBSET Admitted /\ MemoryIn(t) \in SUBSET Admitted
  BY DEF RedisAt, MemoryIn, Admitted
<1>2. IsFiniteSet(RedisAt(t)) /\ IsFiniteSet(MemoryIn(t))
  BY <1>1, FS_Subset
<1>3. QED
  BY <1>2, FS_CardinalityType

\* The script, run once or twice for whoever asked: the key's life goes on or begins.
LEMMA ScriptFacts ==
    ASSUME TypeOK, KeyInv, NEW n \in {1, 2}, GlobalScript(n)
    PROVE  /\ globalCount' # 0 /\ globalExpires' # 0 /\ now < globalExpires'
           /\ globalExpires' <= now + GlobalWindow
           /\ globalExpires # 0 => globalExpires' = globalExpires /\ globalCount' >= globalCount
           /\ globalExpires = 0 => globalExpires' = now + GlobalWindow
           /\ GlobalAdmits(n) => globalCount' >= globalCount + 1
<1>1. GlobalTypes
  BY GlobalTyped
<1>2. QED
  BY <1>1 DEF GlobalTypes, KeyInv, GlobalScript, GlobalAdmits

\* The script ran, and the one who asked was refused or never heard of it.
LEMMA KeyMoves ==
    ASSUME TypeOK, TypeOK', GlobalInv, NEW n \in {1, 2}, GlobalScript(n),
           UNCHANGED <<now, memAdmits, admittedBy, admittedAt>>,
           \A s \in Requests : pc'[s] \in Unadmitted => pc[s] \in Unadmitted
    PROVE  GlobalInv'
<1>1. GlobalTypes /\ GlobalTypes'
  BY GlobalTyped DEF TypeOK, GlobalTypes
<1>2. KeyInv /\ LivesInv /\ LimiterInv /\ IsFiniteSet(Admitted)
  BY DEF GlobalInv
<1>3. /\ globalCount' # 0 /\ globalExpires' # 0 /\ now < globalExpires'
      /\ globalExpires' <= now + GlobalWindow
      /\ globalExpires # 0 => globalExpires' = globalExpires /\ globalCount' >= globalCount
      /\ globalExpires = 0 => globalExpires' = now + GlobalWindow
  BY <1>2, ScriptFacts
<1>4. Admitted' = Admitted /\ \A t : RedisAt(t)' = RedisAt(t) /\ MemoryIn(t)' = MemoryIn(t)
  BY DEF Admitted, RedisAt, MemoryIn
<1>5. KeyInv'
  BY <1>1, <1>2, <1>3 DEF KeyInv, GlobalTypes
<1>6. Cardinality(RedisAt(globalExpires')) <= globalCount'
  <2>1. CASE globalExpires # 0
    BY <1>1, <1>2, <1>3, <2>1, AdmittedCounts DEF LivesInv, GlobalTypes
  <2>2. CASE globalExpires = 0
    <3>1. RedisAt(globalExpires') = {}
      BY <1>1, <1>2, <1>3, <2>2 DEF KeyInv, RedisAt, GlobalTypes
    <3>2. QED
      BY <1>1, <3>1, FS_EmptySet DEF GlobalTypes
  <2>3. QED
    BY <2>1, <2>2
<1>7. LivesInv'
  BY <1>2, <1>4, <1>6 DEF LivesInv
<1>8. LimiterInv'
  BY <1>2, <1>4 DEF LimiterInv
<1>9. QED
  BY <1>2, <1>4, <1>5, <1>7, <1>8 DEF GlobalInv

\* A request the script admitted is counted by the life it will expire with.
LEMMA KeyAdmits ==
    ASSUME TypeOK, TypeOK', GlobalInv, NEW n \in {1, 2}, GlobalScript(n), GlobalAdmits(n),
           NEW r \in Requests, pc[r] = "global", Admit(r, "redis", globalExpires'),
           UNCHANGED <<now, memAdmits>>
    PROVE  GlobalInv'
<1>1. GlobalTypes /\ GlobalTypes'
  BY GlobalTyped DEF TypeOK, GlobalTypes
<1>0. PICK E \in Nat : E = globalExpires'
  BY <1>1 DEF GlobalTypes
<1>2. KeyInv /\ LivesInv /\ LimiterInv /\ IsFiniteSet(Admitted) /\ admittedBy[r] = "none"
  BY DEF GlobalInv, Unadmitted
<1>3. /\ globalCount' # 0 /\ E # 0 /\ now < E /\ E <= now + GlobalWindow
      /\ globalExpires # 0 => E = globalExpires
      /\ globalExpires = 0 => E = now + GlobalWindow
      /\ globalCount' >= globalCount + 1
  BY <1>0, <1>2, ScriptFacts
<1>4. /\ admittedBy' = [admittedBy EXCEPT ![r] = "redis"]
      /\ admittedAt' = [admittedAt EXCEPT ![r] = E]
  BY <1>0 DEF Admit
<1>5. /\ \A s \in Requests : s # r => admittedBy'[s] = admittedBy[s] /\ admittedAt'[s] = admittedAt[s]
      /\ admittedBy'[r] = "redis" /\ admittedAt'[r] = E
  BY <1>1, <1>4 DEF GlobalTypes
<1>6. /\ Admitted' = Admitted \cup {r}
      /\ RedisAt(E)' = RedisAt(E) \cup {r} /\ r \notin RedisAt(E)
      /\ \A t : t # E => RedisAt(t)' = RedisAt(t)
      /\ \A t : MemoryIn(t)' = MemoryIn(t)
  <2>1. Admitted' = Admitted \cup {r}
    BY <1>5 DEF Admitted
  <2>2. \A t : RedisAt(t)' = IF t = E THEN RedisAt(t) \cup {r} ELSE RedisAt(t)
    BY <1>2, <1>5 DEF RedisAt
  <2>3. r \notin RedisAt(E)
    BY <1>2 DEF RedisAt
  <2>4. \A t : MemoryIn(t)' = MemoryIn(t)
    BY <1>2, <1>5 DEF MemoryIn
  <2>5. QED
    BY <2>1, <2>2, <2>3, <2>4
<1>7. \A s \in Requests : admittedBy[s] = "redis" => admittedAt[s] = E \/ admittedAt[s] + GlobalWindow <= E
  BY <1>1, <1>2, <1>3 DEF KeyInv, GlobalTypes
<1>8. KeyInv'
  <2>1. globalCount' = 0 <=> globalExpires' = 0
    BY <1>0, <1>3
  <2>2. \A s \in Requests : admittedBy'[s] = "redis" =>
           admittedAt'[s] = E \/ admittedAt'[s] + GlobalWindow <= E
    BY <1>5, <1>7
  <2>3. \A s \in Requests : admittedBy'[s] = "redis" => admittedAt'[s] <= now \/ admittedAt'[s] = E
    BY <1>2, <1>3, <1>5 DEF KeyInv
  <2>4. \A p, s \in Requests :
           admittedBy'[p] = "redis" /\ admittedBy'[s] = "redis" /\ admittedAt'[p] < admittedAt'[s]
           => admittedAt'[s] - admittedAt'[p] >= GlobalWindow
    BY <1>1, <1>2, <1>3, <1>5, <2>2 DEF KeyInv, GlobalTypes
  <2>5. QED
    BY <1>0, <1>3, <2>1, <2>2, <2>3, <2>4 DEF KeyInv
<1>9. Cardinality(RedisAt(E)') <= globalCount'
  <2>1. Cardinality(RedisAt(E)') = Cardinality(RedisAt(E)) + 1
    BY <1>2, <1>6, AdmittedCounts, FS_AddElement
  <2>2. Cardinality(RedisAt(E)) \in Nat
    BY <1>2, AdmittedCounts
  <2>3. Cardinality(RedisAt(E)) <= globalCount
    <3>1. CASE globalExpires # 0
      BY <1>2, <1>3, <3>1 DEF LivesInv
    <3>2. CASE globalExpires = 0
      <4>1. RedisAt(E) = {}
        BY <1>1, <1>2, <1>3, <3>2 DEF KeyInv, RedisAt, GlobalTypes
      <4>2. QED
        BY <1>1, <4>1, FS_EmptySet DEF GlobalTypes
    <3>3. QED
      BY <3>1, <3>2
  <2>4. QED
    BY <1>1, <1>3, <2>1, <2>2, <2>3 DEF GlobalTypes
<1>10. LivesInv'
  <2>1. Cardinality(RedisAt(E)') <= GlobalLimit
    <3>1. Cardinality(RedisAt(E)') \in Nat
      <4>1. IsFiniteSet(RedisAt(E)')
        BY <1>2, <1>6, AdmittedCounts, FS_AddElement
      <4>2. QED
        BY <4>1, FS_CardinalityType
    <3>2. QED
      BY <1>1, <1>9, <3>1 DEF GlobalTypes
  <2>2. ASSUME NEW s \in Requests, admittedBy'[s] = "redis"
        PROVE  Cardinality(RedisAt(admittedAt[s])') <= GlobalLimit
    <3>1. CASE admittedAt'[s] = E
      BY <2>1, <3>1
    <3>2. CASE admittedAt'[s] # E
      BY <1>2, <1>5, <1>6, <2>2, <3>2 DEF LivesInv
    <3>3. QED
      BY <3>1, <3>2
  <2>3. QED
    BY <1>0, <1>9, <2>2 DEF LivesInv
<1>11. LimiterInv'
  BY <1>2, <1>5, <1>6 DEF LimiterInv
<1>12. IsFiniteSet(Admitted')
  BY <1>2, <1>6, FS_AddElement
<1>13. \A s \in Requests : pc'[s] \in Unadmitted => admittedBy'[s] = "none"
  BY <1>5 DEF Admit, ValidateJwt, Goto, Decide, GlobalInv, Unadmitted, TypeOK
<1>14. QED
  BY <1>8, <1>10, <1>11, <1>12, <1>13 DEF GlobalInv

\* Who was let through within the window is among the limiter's live entries: they are as many.
LEMMA LiveEntriesCount ==
    ASSUME TypeOK, LimiterInv, IsFiniteSet(Admitted)
    PROVE  /\ IsFiniteSet(MemLive) /\ Cardinality(MemLive) \in Nat
           /\ Cardinality(MemoryIn(now)) <= Cardinality(MemLive)
<1>1. MemLive \in SUBSET memAdmits
  BY DEF MemLive
<1>2. IsFiniteSet(MemLive)
  BY <1>1, FS_Subset DEF LimiterInv
<1>3. GlobalTypes
  BY GlobalTyped
<1>4. \A r \in MemoryIn(now) : <<r, admittedAt[r]>> \in MemLive
  <2> SUFFICES ASSUME NEW r \in MemoryIn(now) PROVE <<r, admittedAt[r]>> \in MemLive
    OBVIOUS
  <2>1. r \in Requests /\ admittedBy[r] = "memory" /\ now - GlobalWindow < admittedAt[r]
    BY DEF MemoryIn
  <2>2. admittedAt[r] > now - GlobalWindow
    BY <1>3, <2>1 DEF GlobalTypes
  <2>3. QED
    BY <2>1, <2>2 DEF LimiterInv, MemLive
<1> DEFINE entry == [r \in MemoryIn(now) |-> <<r, admittedAt[r]>>]
<1>5. entry \in Injection(MemoryIn(now), MemLive)
  BY <1>4 DEF Injection, IsInjective
<1>6. Cardinality(MemoryIn(now)) <= Cardinality(MemLive)
  BY <1>2, <1>5, FS_Injection
<1>7. QED
  BY <1>2, <1>6, FS_CardinalityType

\* The limiter lets a request through: it joins the window that ends now, and no earlier one.
LEMMA LimiterAdmits ==
    ASSUME TypeOK, TypeOK', GlobalInv, NEW r \in Requests, pc[r] \in Unadmitted,
           Cardinality(MemLive) < GlobalLimit, memAdmits' = MemLive \cup {<<r, now>>},
           Admit(r, "memory", now), UNCHANGED <<now, globalCount, globalExpires>>
    PROVE  GlobalInv'
<1>1. GlobalTypes /\ GlobalTypes'
  BY GlobalTyped DEF TypeOK, GlobalTypes
<1>2. KeyInv /\ LivesInv /\ LimiterInv /\ IsFiniteSet(Admitted) /\ admittedBy[r] = "none"
  BY DEF GlobalInv
<1>3. /\ admittedBy' = [admittedBy EXCEPT ![r] = "memory"]
      /\ admittedAt' = [admittedAt EXCEPT ![r] = now]
  BY DEF Admit
<1>4. /\ \A s \in Requests : s # r => admittedBy'[s] = admittedBy[s] /\ admittedAt'[s] = admittedAt[s]
      /\ admittedBy'[r] = "memory" /\ admittedAt'[r] = now
  BY <1>1, <1>3 DEF GlobalTypes
<1>5. Admitted' = Admitted \cup {r} /\ \A t : RedisAt(t)' = RedisAt(t)
  BY <1>2, <1>4 DEF Admitted, RedisAt
<1>6. KeyInv'
  BY <1>1, <1>2, <1>4 DEF KeyInv
<1>7. LivesInv'
  BY <1>1, <1>2, <1>4, <1>5 DEF LivesInv
<1>8. LimiterInv'
  <2>1. IsFiniteSet(memAdmits')
    BY <1>2, LiveEntriesCount, FS_AddElement
  <2>2. \A s \in Requests : admittedBy'[s] = "memory" => admittedAt'[s] \in 1..now
    BY <1>1, <1>2, <1>4 DEF LimiterInv, GlobalTypes
  <2>3. ASSUME NEW s \in Requests, admittedBy'[s] = "memory", admittedAt'[s] > now - GlobalWindow
        PROVE  <<s, admittedAt'[s]>> \in memAdmits'
    <3>1. CASE s = r
      BY <1>4, <3>1
    <3>2. CASE s # r
      <4>1. <<s, admittedAt[s]>> \in memAdmits /\ admittedAt[s] > now - GlobalWindow
        BY <1>2, <1>4, <2>3, <3>2 DEF LimiterInv
      <4>2. <<s, admittedAt[s]>> \in MemLive
        BY <4>1 DEF MemLive
      <4>3. QED
        BY <1>4, <3>2, <4>2
    <3>3. QED
      BY <3>1, <3>2
  <2>4. ASSUME NEW t \in 1..now PROVE Cardinality(MemoryIn(t)') <= GlobalLimit
    <3>1. CASE t < now
      <4>1. MemoryIn(t)' = MemoryIn(t)
        BY <1>1, <1>2, <1>4, <3>1 DEF MemoryIn, GlobalTypes
      <4>2. QED
        BY <1>2, <4>1 DEF LimiterInv
    <3>2. CASE t = now
      <4>1. MemoryIn(t)' = MemoryIn(t) \cup {r} /\ r \notin MemoryIn(t)
        BY <1>1, <1>2, <1>4, <3>2 DEF MemoryIn, GlobalTypes
      <4>2. Cardinality(MemoryIn(t)') = Cardinality(MemoryIn(t)) + 1
        BY <1>2, <4>1, AdmittedCounts, FS_AddElement
      <4>3. Cardinality(MemoryIn(t)) \in Nat /\ Cardinality(MemoryIn(t)) <= Cardinality(MemLive)
            /\ Cardinality(MemLive) \in Nat
        BY <1>2, <3>2, AdmittedCounts, LiveEntriesCount
      <4>4. QED
        BY <4>2, <4>3
    <3>3. QED
      BY <1>1, <3>1, <3>2 DEF GlobalTypes
  <2>5. QED
    BY <2>1, <2>2, <2>3, <2>4 DEF LimiterInv
<1>9. IsFiniteSet(Admitted')
  BY <1>2, <1>5, FS_AddElement
<1>10. \A s \in Requests : pc'[s] \in Unadmitted => admittedBy'[s] = "none"
  BY <1>4 DEF Admit, ValidateJwt, Goto, Decide, GlobalInv, Unadmitted, TypeOK
<1>11. QED
  BY <1>6, <1>7, <1>8, <1>9, <1>10 DEF GlobalInv

\* The limiter refuses a request, and drops the entries that are too old to count.
LEMMA LimiterRefuses ==
    ASSUME TypeOK, TypeOK', GlobalInv, memAdmits' = MemLive,
           UNCHANGED <<now, globalCount, globalExpires, admittedBy, admittedAt>>,
           \A s \in Requests : pc'[s] \in Unadmitted => pc[s] \in Unadmitted
    PROVE  GlobalInv'
<1>1. Admitted' = Admitted /\ \A t : RedisAt(t)' = RedisAt(t) /\ MemoryIn(t)' = MemoryIn(t)
  BY DEF Admitted, RedisAt, MemoryIn
<1>2. KeyInv /\ LivesInv /\ LimiterInv /\ IsFiniteSet(Admitted)
  BY DEF GlobalInv
<1>3. KeyInv' /\ LivesInv'
  BY <1>1, <1>2 DEF KeyInv, LivesInv
<1>4. LimiterInv'
  <2>1. IsFiniteSet(memAdmits')
    BY <1>2, LiveEntriesCount
  <2>2. \A s \in Requests : admittedBy'[s] = "memory" /\ admittedAt'[s] > now' - GlobalWindow
           => <<s, admittedAt'[s]>> \in memAdmits'
    BY <1>2 DEF LimiterInv, MemLive
  <2>3. QED
    BY <1>1, <1>2, <2>1, <2>2 DEF LimiterInv
<1>5. QED
  BY <1>1, <1>2, <1>3, <1>4 DEF GlobalInv

\* A second later the key may be gone, and the window that ends now holds nobody new.
LEMMA GlobalTick ==
    ASSUME TypeOK, TypeOK', GlobalInv, Tick
    PROVE  GlobalInv'
<1>1. GlobalTypes /\ GlobalTypes'
  BY GlobalTyped DEF TypeOK, GlobalTypes
<1>2. KeyInv /\ LivesInv /\ LimiterInv /\ IsFiniteSet(Admitted)
  BY DEF GlobalInv
<1>3. /\ now' = now + 1 /\ UNCHANGED <<pc, memAdmits, admittedBy, admittedAt>>
      /\ \/ globalExpires = now' /\ globalCount' = 0 /\ globalExpires' = 0
         \/ globalExpires # now' /\ globalCount' = globalCount /\ globalExpires' = globalExpires
  BY DEF Tick, memVars, history
<1>4. Admitted' = Admitted /\ \A t : RedisAt(t)' = RedisAt(t) /\ MemoryIn(t)' = MemoryIn(t)
  BY <1>3 DEF Admitted, RedisAt, MemoryIn
<1>5. KeyInv'
  BY <1>1, <1>2, <1>3 DEF KeyInv, GlobalTypes
<1>6. LivesInv'
  BY <1>2, <1>3, <1>4 DEF LivesInv
<1>7. LimiterInv'
  <2>1. \A s \in Requests : admittedBy'[s] = "memory" => admittedAt'[s] \in 1..now'
    BY <1>1, <1>2, <1>3 DEF LimiterInv, GlobalTypes
  <2>2. \A s \in Requests : admittedBy'[s] = "memory" /\ admittedAt'[s] > now' - GlobalWindow
           => <<s, admittedAt'[s]>> \in memAdmits'
    BY <1>1, <1>2, <1>3 DEF LimiterInv, GlobalTypes
  <2>3. ASSUME NEW t \in 1..now' PROVE Cardinality(MemoryIn(t)) <= GlobalLimit
    <3>1. CASE t \in 1..now
      BY <1>2, <3>1 DEF LimiterInv
    <3>2. CASE t = now + 1
      <4>1. MemoryIn(t) \in SUBSET MemoryIn(now)
        BY <1>1, <1>2, <3>2 DEF MemoryIn, LimiterInv, GlobalTypes
      <4>2. Cardinality(MemoryIn(t)) <= Cardinality(MemoryIn(now))
        BY <1>2, <4>1, AdmittedCounts, FS_Subset
      <4>3. Cardinality(MemoryIn(now)) <= GlobalLimit
        BY <1>1, <1>2 DEF LimiterInv, GlobalTypes
      <4>4. Cardinality(MemoryIn(t)) \in Nat /\ Cardinality(MemoryIn(now)) \in Nat
        BY <1>2, AdmittedCounts
      <4>5. QED
        BY <4>2, <4>3, <4>4
    <3>3. QED
      BY <1>1, <1>3, <3>1, <3>2 DEF GlobalTypes
  <2>4. QED
    BY <1>2, <1>3, <1>4, <2>1, <2>2, <2>3 DEF LimiterInv
<1>8. QED
  BY <1>2, <1>3, <1>4, <1>5, <1>6, <1>7 DEF GlobalInv

LEMMA GlobalRateStep ==
    ASSUME TypeOK, TypeOK', GlobalInv, NEW r \in Requests, GlobalRate(r)
    PROVE  GlobalInv'
<1>1. pc[r] = "global" /\ UNCHANGED <<now, memAdmits>>
  BY DEF GlobalRate, memVars
<1>2. ASSUME NEW why, Decide(r, why) PROVE \A s \in Requests : pc'[s] \in Unadmitted => pc[s] \in Unadmitted
  BY <1>2 DEF Decide, Unadmitted, TypeOK
<1>3. ASSUME NEW n \in {1, 2}, GlobalReply(r, n) PROVE GlobalInv'
  <2>1. CASE GlobalAdmits(n) /\ Admit(r, "redis", globalExpires')
    BY <1>1, <1>3, <2>1, KeyAdmits DEF GlobalReply
  <2>2. CASE Decide(r, "rate") /\ UNCHANGED <<admittedBy, admittedAt>>
    BY <1>1, <1>2, <1>3, <2>2, KeyMoves DEF GlobalReply
  <2>3. QED
    BY <1>3, <2>1, <2>2 DEF GlobalReply
<1>4. ASSUME Goto(r, "globalMem"), UNCHANGED <<admittedBy, admittedAt>>,
             (\E n \in {1, 2} : GlobalScript(n)) \/ UNCHANGED <<globalCount, globalExpires>>
      PROVE  GlobalInv'
  <2>1. \A s \in Requests : pc'[s] \in Unadmitted => pc[s] \in Unadmitted
    BY <1>1, <1>4 DEF Goto, Unadmitted, TypeOK
  <2>2. CASE \E n \in {1, 2} : GlobalScript(n)
    BY <1>1, <1>4, <2>1, <2>2, KeyMoves
  <2>3. CASE UNCHANGED <<globalCount, globalExpires>>
    BY <1>1, <1>4, <2>1, <2>3, GlobalFrame DEF globalState
  <2>4. QED
    BY <1>4, <2>2, <2>3
<1>5. QED
  BY <1>3, <1>4 DEF GlobalRate

LEMMA GlobalRateInMemoryStep ==
    ASSUME TypeOK, TypeOK', GlobalInv, NEW r \in Requests, GlobalRateInMemory(r)
    PROVE  GlobalInv'
<1>1. pc[r] \in Unadmitted /\ UNCHANGED <<now, globalCount, globalExpires>>
  BY DEF GlobalRateInMemory, Unadmitted, redisVars
<1>2. CASE Cardinality(MemLive) < GlobalLimit /\ memAdmits' = MemLive \cup {<<r, now>>}
           /\ Admit(r, "memory", now)
  BY <1>1, <1>2, LimiterAdmits
<1>3. CASE memAdmits' = MemLive /\ Decide(r, "rate") /\ UNCHANGED <<admittedBy, admittedAt>>
  <2>1. \A s \in Requests : pc'[s] \in Unadmitted => pc[s] \in Unadmitted
    BY <1>3 DEF Decide, Unadmitted, TypeOK
  <2>2. QED
    BY <1>1, <1>3, <2>1, LimiterRefuses
<1>4. QED
  BY <1>2, <1>3 DEF GlobalRateInMemory

LEMMA NothingCounted == Cardinality({}) <= GlobalLimit
<1>1. Cardinality({}) = 0
  BY FS_EmptySet
<1>2. 0 <= GlobalLimit
  OBVIOUS
<1>3. QED
  BY <1>1, <1>2

LEMMA GlobalInvariant == Spec => []GlobalInv
<1>1. Init => GlobalInv
  <2> SUFFICES ASSUME Init PROVE GlobalInv
    OBVIOUS
  <2>1. \A r \in Requests : admittedBy[r] = "none"
    BY DEF Init
  <2>2. Admitted = {} /\ \A t : RedisAt(t) = {} /\ MemoryIn(t) = {}
    BY <2>1 DEF Admitted, RedisAt, MemoryIn
  <2>3. IsFiniteSet(Admitted) /\ IsFiniteSet(memAdmits)
    BY <2>2, FS_EmptySet DEF Init
  <2>4. Cardinality({}) <= GlobalLimit /\ \A t : MemoryIn(t) = {}
    BY <2>2, NothingCounted
  <2>5. KeyInv /\ LivesInv
    BY <2>1 DEF Init, KeyInv, LivesInv
  <2>6. LimiterInv
    BY <2>1, <2>3, <2>4 DEF LimiterInv
  <2>7. QED
    BY <2>1, <2>3, <2>5, <2>6 DEF GlobalInv
<1>2. TypeOK /\ TypeOK' /\ GlobalInv /\ [Next]_vars => GlobalInv'
  <2> SUFFICES ASSUME TypeOK, TypeOK', GlobalInv, [Next]_vars PROVE GlobalInv'
    OBVIOUS
  <2>1. ASSUME NEW r \in Requests, Step(r) PROVE GlobalInv'
    BY <2>1, AfterGlobal, GlobalFrame, GlobalRateStep, GlobalRateInMemoryStep
  <2>2. ASSUME NEW a \in Agents, SequenceExpires(a) PROVE GlobalInv'
    <3>1. UNCHANGED <<globalState, pc>>
      BY <2>2 DEF SequenceExpires, globalState, memVars, history
    <3>2. QED
      BY <3>1, GlobalFrame
  <2>3. CASE UNCHANGED vars
    <3>1. UNCHANGED <<globalState, pc>>
      BY <2>3 DEF vars, globalState, memVars, history, redisVars
    <3>2. QED
      BY <3>1, GlobalFrame
  <2>4. QED
    BY <2>1, <2>2, <2>3, GlobalTick DEF Next, Finished
<1>3. QED
  BY <1>1, <1>2, TypeCorrect, PTL DEF Spec

\* What step 1 lets through, for any mix of Redis and its stand-in: the limiter at most the
\* limit in every window, each life of the key at most the limit, lives a window apart.
THEOREM GlobalRateBounded == Spec => []GlobalBudget
<1>1. GlobalInv => GlobalBudget
  <2> SUFFICES ASSUME GlobalInv PROVE GlobalBudget
    OBVIOUS
  <2>1. KeyInv /\ LivesInv /\ LimiterInv
    BY DEF GlobalInv
  <2>2. ASSUME NEW r \in Requests
        PROVE  Cardinality({s \in Requests : /\ admittedBy[s] = "redis" /\ admittedBy[r] = "redis"
                                             /\ admittedAt[s] = admittedAt[r]}) <= GlobalLimit
    <3> DEFINE S == {s \in Requests : /\ admittedBy[s] = "redis" /\ admittedBy[r] = "redis"
                                      /\ admittedAt[s] = admittedAt[r]}
    <3>1. CASE admittedBy[r] = "redis"
      <4>1. S = RedisAt(admittedAt[r])
        BY <3>1 DEF RedisAt
      <4>2. QED
        BY <2>1, <3>1, <4>1 DEF LivesInv
    <3>2. CASE admittedBy[r] # "redis"
      <4>1. S = {}
        BY <3>2
      <4>2. QED
        BY <4>1, NothingCounted
    <3>3. QED
      BY <3>1, <3>2
  <2>3. QED
    BY <2>1, <2>2 DEF GlobalBudget, KeyInv, LimiterInv, MemoryIn
<1>2. QED
  BY <1>1, GlobalInvariant, PTL

----------------------------------------------------------------------------
(* Who is told he is a duplicate.  Until a Redis call fails, whatever a    *)
(* store of step 4b holds was put there by a request it let through.       *)

KeysHeldByPasses ==
    \A i \in Ids : replayExpires[i] # 0 =>
        \E s \in Requests : /\ IdOf[s] = i /\ passedBy[s] = "redis"
                            /\ replayExpires[i] = passedAt[s] + ReplayTTL

EntriesOfPasses ==
    \A i \in Ids : memSeen[i] # 0 =>
        \E s \in Requests : IdOf[s] = i /\ passedBy[s] = "memory" /\ memSeen[i] = passedAt[s]

FreshInv == faults = 0 => KeysHeldByPasses /\ EntriesOfPasses

LEMMA FaultsNeverForgotten == TypeOK /\ [Next]_vars /\ faults' = 0 => faults = 0
<1> SUFFICES ASSUME TypeOK, [Next]_vars PROVE faults' = faults \/ faults' = faults + 1
  BY DEF TypeOK
<1>1. ASSUME NEW r \in Requests, Step(r) PROVE faults' = faults \/ faults' = faults + 1
  BY <1>1 DEF Step, GlobalRate, GlobalRateInMemory, Replay, ReplayInMemory, SessionLookup, RbacCheck,
              AgentRate, Watch, ReadSequence, ExecSequence, Triage, Clean, Fault
<1>2. QED
  BY <1>1 DEF Next, SequenceExpires, Tick, Finished, vars

\* Step 4b, while no call fails, and what it then makes of the stores.
LEMMA PassesFresh ==
    ASSUME TypeOK, TypeOK', ReplayInv, KeysHeldByPasses, EntriesOfPasses, NEW r \in Requests,
           Replay(r) \/ ReplayInMemory(r), faults' = faults
    PROVE  KeysHeldByPasses' /\ EntriesOfPasses'
<1> DEFINE i == IdOf[r]
<1>1. ReplayTypes /\ i \in Ids
  BY ReplayTyped
<1>2. faults # faults + 1 /\ passedBy[r] = "none"
  BY DEF TypeOK, Replay, ReplayInMemory, ReplayInv, Unpassed
<1>3. ASSUME NEW store, passedBy' = [passedBy EXCEPT ![r] = store], passedAt' = [passedAt EXCEPT ![r] = now]
      PROVE  /\ passedBy'[r] = store /\ passedAt'[r] = now
             /\ \A s \in Requests : passedBy[s] # "none" =>
                   passedBy'[s] = passedBy[s] /\ passedAt'[s] = passedAt[s]
  BY <1>1, <1>2, <1>3 DEF ReplayTypes
<1>4. CASE Replay(r)
  <2>0. UNCHANGED memSeen
    BY <1>4 DEF Replay, memVars
  <2>1. CASE UNCHANGED <<replayExpires, passedBy, passedAt>>
    BY <2>0, <2>1 DEF KeysHeldByPasses, EntriesOfPasses
  <2>2. CASE ~ReplayHeld(i) /\ SetReplay(i) /\ Pass(r, "redis")
    <3>1. /\ replayExpires' = [replayExpires EXCEPT ![i] = now + ReplayTTL]
          /\ passedBy' = [passedBy EXCEPT ![r] = "redis"]
          /\ passedAt' = [passedAt EXCEPT ![r] = now]
      BY <2>2 DEF SetReplay, Pass
    <3>a. \A s \in Requests : passedBy[s] # "none" =>
             passedBy'[s] = passedBy[s] /\ passedAt'[s] = passedAt[s]
      BY <1>3, <3>1
    <3>2. EntriesOfPasses'
      BY <2>0, <3>a DEF EntriesOfPasses
    <3>3. ASSUME NEW j \in Ids, replayExpires'[j] # 0
          PROVE  \E s \in Requests : /\ IdOf[s] = j /\ passedBy'[s] = "redis"
                                     /\ replayExpires'[j] = passedAt'[s] + ReplayTTL
      <4>1. CASE j = i
        BY <1>1, <1>3, <3>1, <4>1 DEF ReplayTypes
      <4>2. CASE j # i
        BY <1>1, <1>3, <3>1, <3>3, <4>2 DEF ReplayTypes, KeysHeldByPasses
      <4>3. QED
        BY <4>1, <4>2
    <3>4. QED
      BY <3>2, <3>3 DEF KeysHeldByPasses
  <2>3. QED
    BY <1>2, <1>4, <2>1, <2>2 DEF Replay, Fault
<1>5. CASE ReplayInMemory(r)
  <2>0. UNCHANGED replayExpires
    BY <1>5 DEF ReplayInMemory, redisVars
  <2>1. SeenPruned \in [Ids -> Nat] /\ \A j \in Ids : SeenPruned[j] \in {0, memSeen[j]}
    BY <1>1 DEF SeenPruned, ReplayTypes
  <2>2. CASE memSeen' = SeenPruned /\ UNCHANGED <<passedBy, passedAt>>
    BY <2>0, <2>1, <2>2 DEF KeysHeldByPasses, EntriesOfPasses
  <2>3. CASE memSeen' = [SeenPruned EXCEPT ![i] = now] /\ Pass(r, "memory")
    <3>1. /\ passedBy' = [passedBy EXCEPT ![r] = "memory"]
          /\ passedAt' = [passedAt EXCEPT ![r] = now]
      BY <2>3 DEF Pass
    <3>a. \A s \in Requests : passedBy[s] # "none" =>
             passedBy'[s] = passedBy[s] /\ passedAt'[s] = passedAt[s]
      BY <1>3, <3>1
    <3>2. KeysHeldByPasses'
      BY <2>0, <3>a DEF KeysHeldByPasses
    <3>3. ASSUME NEW j \in Ids, memSeen'[j] # 0
          PROVE  \E s \in Requests : IdOf[s] = j /\ passedBy'[s] = "memory" /\ memSeen'[j] = passedAt'[s]
      <4>1. CASE j = i
        BY <1>1, <1>3, <2>1, <2>3, <3>1, <4>1
      <4>2. CASE j # i
        <5>1. memSeen'[j] = memSeen[j] /\ memSeen[j] # 0
          BY <2>1, <2>3, <3>3, <4>2
        <5>2. QED
          BY <3>a, <5>1 DEF EntriesOfPasses
      <4>3. QED
        BY <4>1, <4>2
    <3>4. QED
      BY <3>2, <3>3 DEF EntriesOfPasses
  <2>4. QED
    BY <1>5, <2>2, <2>3 DEF ReplayInMemory
<1>6. QED
  BY <1>4, <1>5

LEMMA FreshInvariant == Spec => []FreshInv
<1>1. Init => FreshInv
  BY DEF Init, FreshInv, KeysHeldByPasses, EntriesOfPasses
<1>2. TypeOK /\ TypeOK' /\ ReplayInv /\ FreshInv /\ [Next]_vars => FreshInv'
  <2> SUFFICES ASSUME TypeOK, TypeOK', ReplayInv, KeysHeldByPasses, EntriesOfPasses,
                      [Next]_vars, faults' = faults
               PROVE  KeysHeldByPasses' /\ EntriesOfPasses'
    BY FaultsNeverForgotten DEF FreshInv
  <2>1. ASSUME UNCHANGED replayState PROVE KeysHeldByPasses' /\ EntriesOfPasses'
    BY <2>1 DEF replayState, KeysHeldByPasses, EntriesOfPasses
  <2>2. ASSUME NEW r \in Requests, Step(r) PROVE KeysHeldByPasses' /\ EntriesOfPasses'
    BY <2>1, <2>2, OtherSteps, PassesFresh
  <2>3. ASSUME NEW a \in Agents, SequenceExpires(a) PROVE UNCHANGED replayState
    BY <2>3 DEF SequenceExpires, replayState, memVars, history
  <2>4. ASSUME UNCHANGED vars PROVE UNCHANGED replayState
    BY <2>4 DEF vars, replayState, memVars, history, redisVars
  <2>5. CASE Tick
    <3>1. /\ UNCHANGED <<memSeen, passedBy, passedAt>>
          /\ \A i \in Ids : replayExpires'[i] # 0 => replayExpires[i] # 0 /\ replayExpires'[i] = replayExpires[i]
      BY <2>5 DEF Tick, memVars, history
    <3>2. QED
      BY <3>1 DEF KeysHeldByPasses, EntriesOfPasses
  <2>6. QED
    BY <2>1, <2>2, <2>3, <2>4, <2>5 DEF Next, Finished
<1>3. QED
  BY <1>1, <1>2, TypeCorrect, ReplayInvariant, PTL DEF Spec

\* A refusal as a duplicate is the work of step 4b, on an entry that is still alive.
LEMMA RefusedByStores ==
    ASSUME TypeOK, ReplayInv, NEW r \in Requests, Refused(r), Next, faults = 0, faults' = 0
    PROVE  /\ passedBy[r] = "none"
           /\ \/ replayExpires[IdOf[r]] # 0 /\ now < replayExpires[IdOf[r]]
              \/ SeenLive(IdOf[r])
<1>1. PICK p \in Requests : Step(p)
  BY DEF Refused, Next, SequenceExpires, Tick, Finished, vars
<1>2. ASSUME NEW step, Goto(p, step) PROVE FALSE
  BY <1>2 DEF Goto, Refused
<1>3. ASSUME NEW why, Decide(p, why) PROVE p = r /\ why = "duplicate"
  BY <1>3 DEF Decide, Refused, TypeOK
<1>4. Replay(p) \/ ReplayInMemory(p)
  <2>1. ~GlobalRate(p) /\ ~GlobalRateInMemory(p)
    BY <1>2, <1>3 DEF GlobalRate, GlobalReply, GlobalRateInMemory, Admit, ValidateJwt
  <2>2. ~SessionLookup(p) /\ ~RbacCheck(p) /\ ~Triage(p)
    BY <1>2, <1>3 DEF SessionLookup, RbacCheck, Triage
  <2>3. ~AgentRate(p) /\ ~Watch(p) /\ ~ReadSequence(p) /\ ~ExecSequence(p)
    BY <1>2, <1>3 DEF AgentRate, AgentReply, Watch, ReadSequence, ExecSequence
  <2>4. QED
    BY <1>1, <2>1, <2>2, <2>3 DEF Step
<1>5. ~Pass(p, "redis") /\ ~Pass(p, "memory")
  BY <1>2 DEF Pass
<1>6. CASE Replay(p)
  <2>1. Decide(p, "duplicate") /\ ReplayHeld(IdOf[p]) /\ pc[p] = "replay"
    BY <1>2, <1>5, <1>6 DEF Replay, Fault
  <2>2. p = r
    BY <1>3, <2>1
  <2>3. QED
    BY <2>1, <2>2 DEF ReplayHeld, ReplayInv, Unpassed
<1>7. CASE ReplayInMemory(p)
  <2>1. Decide(p, "duplicate") /\ SeenLive(IdOf[p]) /\ pc[p] \in Unpassed
    BY <1>5, <1>7 DEF ReplayInMemory, Unpassed
  <2>2. p = r
    BY <1>3, <2>1
  <2>3. QED
    BY <2>1, <2>2 DEF ReplayInv
<1>8. QED
  BY <1>4, <1>6, <1>7

\* Nobody is refused as a duplicate, while no Redis call has failed, but for a request with his
\* id that step_4b_replay_protection let through less than ReplayTTL ago.
THEOREM FreshLetThrough == Spec => FreshNotDuplicate
<1> DEFINE Justified ==
      faults = 0 /\ faults' = 0 =>
        \A r \in Requests : Refused(r) =>
            \E s \in Requests : /\ SameId(r, s) /\ passedBy[s] # "none"
                               /\ now - passedAt[s] < ReplayTTL
<1>1. TypeOK /\ ReplayInv /\ FreshInv /\ [Next]_vars => [Justified]_vars
  <2> SUFFICES ASSUME TypeOK, ReplayInv, FreshInv, Next, faults = 0, faults' = 0,
                      NEW r \in Requests, Refused(r)
               PROVE  \E s \in Requests : /\ SameId(r, s) /\ passedBy[s] # "none"
                                          /\ now - passedAt[s] < ReplayTTL
    OBVIOUS
  <2>1. IdOf[r] \in Ids /\ KeysHeldByPasses /\ EntriesOfPasses /\ ReplayTypes
    BY ReplayTyped DEF FreshInv
  <2>2. passedBy[r] = "none"
    BY RefusedByStores
  <2>3. CASE replayExpires[IdOf[r]] # 0 /\ now < replayExpires[IdOf[r]]
    <3>1. PICK s \in Requests : /\ IdOf[s] = IdOf[r] /\ passedBy[s] = "redis"
                                /\ replayExpires[IdOf[r]] = passedAt[s] + ReplayTTL
      BY <2>1, <2>3 DEF KeysHeldByPasses
    <3>2. now - passedAt[s] < ReplayTTL
      BY <2>1, <2>3, <3>1 DEF ReplayTypes
    <3>3. QED
      BY <2>2, <3>1, <3>2 DEF SameId
  <2>4. CASE SeenLive(IdOf[r])
    <3>1. PICK s \in Requests : /\ IdOf[s] = IdOf[r] /\ passedBy[s] = "memory"
                                /\ memSeen[IdOf[r]] = passedAt[s]
      BY <2>1, <2>4 DEF EntriesOfPasses, SeenLive
    <3>2. now - passedAt[s] < ReplayTTL
      BY <2>4, <3>1 DEF SeenLive
    <3>3. QED
      BY <2>2, <3>1, <3>2 DEF SameId
  <2>5. QED
    BY <2>3, <2>4, RefusedByStores
<1>2. QED
  BY <1>1, TypeCorrect, ReplayInvariant, FreshInvariant, PTL DEF Spec, FreshNotDuplicate

----------------------------------------------------------------------------
(* From the first step to the decision.                                    *)

\* The most steps a request has still to take.
StepsAhead(p) ==
    CASE p = "global" -> 11 [] p = "globalMem" -> 10 [] p = "replay" -> 9 [] p = "replayMem" -> 8
      [] p = "session" -> 7 [] p = "rbac" -> 6 [] p = "agentRate" -> 5 [] p = "watch" -> 4
      [] p = "read" -> 3 [] p = "exec" -> 2 [] p = "triage" -> 1 [] OTHER -> 0

\* A request comes nearer to its decision with each step of its own, and no other request, no
\* expiry and no second that passes takes it anywhere; a decision is never taken again.
DecidedInSteps ==
    [][\A r \in Requests : \/ StepsAhead(pc'[r]) < StepsAhead(pc[r])
                           \/ pc'[r] = pc[r] /\ reason'[r] = reason[r]]_vars

\* An ALLOW takes the rate limit, the replay check and a Redis client, whichever of its calls were
\* lost and whatever stood in for them; and no request that is decided leaves its connection with
\* a WATCH on it to whoever gets it from the pool next.
NoneSlipsBy ==
    \A r \in Requests :
        /\ Decision(r) = "ALLOW" => redis /\ admittedBy[r] # "none" /\ passedBy[r] # "none"
        /\ Decision(r) # "none" => watch[r] = "off"

\* What a request has behind it where it stands.
Through(r) ==
    /\ pc[r] \notin Unadmitted \cup {"done"} => admittedBy[r] # "none"
    /\ pc[r] \notin Unpassed \cup {"done"} => passedBy[r] # "none"
    /\ pc[r] \notin Unpassed \cup {"session", "done"} => redis
    /\ reason[r] \in {"passed", "sandboxed"} => redis /\ admittedBy[r] # "none" /\ passedBy[r] # "none"
    /\ watch[r] # "off" => pc[r] \in {"read", "exec"}
    /\ reason[r] = "undecided" <=> pc[r] # "done"

\* What one request's step leaves of another.
LeavesAlone(s) ==
    /\ pc'[s] = pc[s] /\ reason'[s] = reason[s] /\ redis' = redis
    /\ admittedBy'[s] = admittedBy[s] /\ passedBy'[s] = passedBy[s]
    /\ watch'[s] # "off" => watch[s] # "off"

LEMMA OneStepOn ==
    ASSUME TypeOK, NEW r \in Requests, Through(r), Step(r)
    PROVE  /\ StepsAhead(pc'[r]) < StepsAhead(pc[r])
           /\ Through(r)'
           /\ \A s \in Requests : s # r => LeavesAlone(s)
<1> USE DEF TypeOK, Goto, Decide, Through, LeavesAlone, StepsAhead, Unadmitted, Unpassed, setup,
            redisVars, memVars, history, Stores, Steps, Reasons
<1>1. CASE GlobalRate(r)
  BY <1>1 DEF GlobalRate, GlobalReply, Admit, ValidateJwt
<1>2. CASE GlobalRateInMemory(r)
  BY <1>2 DEF GlobalRateInMemory, Admit, ValidateJwt
<1>3. CASE Replay(r)
  BY <1>3 DEF Replay, Pass
<1>4. CASE ReplayInMemory(r)
  BY <1>4 DEF ReplayInMemory, Pass
<1>5. CASE SessionLookup(r)
  BY <1>5 DEF SessionLookup
<1>6. CASE RbacCheck(r)
  BY <1>6 DEF RbacCheck
<1>7. CASE AgentRate(r)
  BY <1>7 DEF AgentRate, AgentReply
<1>8. CASE Watch(r)
  BY <1>8 DEF Watch
<1>9. CASE ReadSequence(r)
  BY <1>9 DEF ReadSequence, Unwatch
<1>10. CASE ExecSequence(r)
  BY <1>10 DEF ExecSequence, Push, Unwatch
<1>11. CASE Triage(r)
  BY <1>11 DEF Triage
<1>12. QED
  BY <1>1, <1>2, <1>3, <1>4, <1>5, <1>6, <1>7, <1>8, <1>9, <1>10, <1>11 DEF Step

\* What is no request's step leaves them all alone.
LEMMA NobodysStep ==
    ASSUME TypeOK, Tick \/ (\E a \in Agents : SequenceExpires(a)) \/ UNCHANGED vars, NEW s \in Requests
    PROVE  LeavesAlone(s)
<1>1. CASE Tick \/ UNCHANGED vars
  BY <1>1 DEF Tick, vars, setup, history, LeavesAlone
<1>2. ASSUME NEW a \in Agents, SequenceExpires(a) PROVE LeavesAlone(s)
  BY <1>2 DEF SequenceExpires, setup, history, LeavesAlone, TypeOK
<1>3. QED
  BY <1>1, <1>2

LEMMA EachStepOn ==
    ASSUME TypeOK, \A r \in Requests : Through(r), [Next]_vars, NEW s \in Requests
    PROVE  /\ Through(s)'
           /\ \/ StepsAhead(pc'[s]) < StepsAhead(pc[s])
              \/ pc'[s] = pc[s] /\ reason'[s] = reason[s]
<1>1. CASE LeavesAlone(s)
  BY <1>1 DEF LeavesAlone, Through
<1>2. ASSUME NEW r \in Requests, Step(r)
      PROVE  \/ LeavesAlone(s)
             \/ StepsAhead(pc'[s]) < StepsAhead(pc[s]) /\ Through(s)'
  BY <1>2, OneStepOn
<1>3. QED
  BY <1>1, <1>2, NobodysStep DEF Next, Finished

\* For any requests, limits and faults: every request is decided within eleven steps of its own and
\* once, and none is allowed that a step did not see.
THEOREM DecidedOnce == Spec => []NoneSlipsBy /\ DecidedInSteps
<1> DEFINE AllThrough == \A r \in Requests : Through(r)
<1>1. Init => AllThrough
  BY DEF Init, Through, Unadmitted, Unpassed
<1>2. TypeOK /\ AllThrough /\ [Next]_vars => AllThrough'
  BY EachStepOn
<1>3. TypeOK /\ AllThrough /\ [Next]_vars =>
         [\A r \in Requests : \/ StepsAhead(pc'[r]) < StepsAhead(pc[r])
                              \/ pc'[r] = pc[r] /\ reason'[r] = reason[r]]_vars
  BY EachStepOn
<1>4. TypeOK /\ AllThrough => NoneSlipsBy
  BY DEF NoneSlipsBy, Through, Decision, TypeOK, Reasons
<1> HIDE DEF AllThrough
<1>5. QED
  BY <1>1, <1>2, <1>3, <1>4, TypeCorrect, PTL DEF Spec, DecidedInSteps

----------------------------------------------------------------------------
(* The window of step 5.                                                   *)

\* The script's members are seconds, so that a window has no more of them than it has seconds,
\* and one for each by which the script was late.  While that stays below the limit, nobody is
\* refused, however many requests there are: with 100 requests in 60 seconds, as long as no script
\* runs 40 seconds after the clock was read for it.
NobodyRefused ==
    \A r \in Requests :
        pc[r] = "agentRate" /\ (now - stamp[r]) + AgentWindow < AgentLimit =>
            \A n \in {1, 2} : AgentAdmits(KeyOf(r), stamp[r], n)

\* No member is of a time to come.
SecondsPast ==
    /\ \A k \in Keys : \A s \in windowScores[k] : s <= now
    /\ \A r \in Requests : stamp[r] <= now

\* A span of time has as many seconds as it is long.
SecondsIn(a, b) ==
    IsFiniteSet(a..b) /\ Cardinality(a..b) = IF a > b THEN 0 ELSE b - a + 1

LEMMA SecondsStep == TypeOK /\ SecondsPast /\ [Next]_vars => SecondsPast'
<1> SUFFICES ASSUME TypeOK, SecondsPast, [Next]_vars PROVE SecondsPast'
  OBVIOUS
<1>1. CASE UNCHANGED <<now, stamp, windowScores>>
  BY <1>1 DEF SecondsPast
<1>2. CASE Tick
  <2>1. now' = now + 1 /\ stamp' = stamp /\ \A k \in Keys : windowScores'[k] \subseteq windowScores[k]
    BY <1>2 DEF Tick
  <2>2. \A k \in Keys : windowScores[k] \subseteq Nat
    BY DEF TypeOK
  <2>3. QED
    BY <2>1, <2>2 DEF SecondsPast, TypeOK
<1>3. ASSUME NEW r \in Requests, AgentRate(r) PROVE SecondsPast'
  <2>1. /\ now' = now /\ stamp' = stamp
        /\ \A k \in Keys : windowScores'[k] \subseteq windowScores[k] \cup {stamp[r]}
    BY <1>3 DEF AgentRate, AgentReply, AgentScript, WindowAfter, InWindow, TypeOK
  <2>2. QED
    BY <2>1 DEF SecondsPast
<1>4. ASSUME NEW r \in Requests, RbacCheck(r) PROVE SecondsPast'
  <2>1. now' = now /\ windowScores' = windowScores /\ stamp' \in {stamp, [stamp EXCEPT ![r] = now]}
    BY <1>4 DEF RbacCheck, redisVars
  <2>2. QED
    BY <2>1 DEF SecondsPast, TypeOK
<1>5. ASSUME NEW r \in Requests, Step(r), ~AgentRate(r), ~RbacCheck(r) PROVE SecondsPast'
  BY <1>1, <1>5
  DEF Step, GlobalRate, GlobalRateInMemory, Replay, ReplayInMemory, SessionLookup, Watch,
      ReadSequence, ExecSequence, Triage, redisVars
<1>6. ASSUME NEW a \in Agents, SequenceExpires(a) PROVE SecondsPast'
  BY <1>1, <1>6 DEF SequenceExpires
<1>7. CASE UNCHANGED vars
  BY <1>1, <1>7 DEF vars, redisVars
<1>8. QED
  BY <1>2, <1>3, <1>4, <1>5, <1>6, <1>7 DEF Next, Finished

\* What the run agent_budget shows on one instance, turned into a bound: the limiter of step 5
\* counts seconds, and within a window there are too few of them to reach its limit.
THEOREM LimiterNeverRefuses == Spec => []NobodyRefused
<1>1. Init => SecondsPast
  BY DEF Init, SecondsPast
<1>2. TypeOK /\ SecondsPast => NobodyRefused
  <2> SUFFICES ASSUME TypeOK, SecondsPast, NEW r \in Requests, NEW n \in {1, 2},
                      (now - stamp[r]) + AgentWindow < AgentLimit
               PROVE  AgentAdmits(KeyOf(r), stamp[r], n)
    BY DEF NobodyRefused
  <2> DEFINE k == KeyOf(r)
             span == (stamp[r] - AgentWindow + 1)..now
             seen == InWindow(k, stamp[r])
  <2>1. k \in Keys
    BY DEF KeyOf, Keys
  <2>2. stamp[r] \in Nat /\ now \in Nat /\ stamp[r] <= now /\ windowScores[k] \subseteq Nat
    BY <2>1 DEF TypeOK, SecondsPast
  <2>3. seen \subseteq span /\ seen \cup {stamp[r]} \subseteq span
    BY <2>1, <2>2 DEF InWindow, SecondsPast
  <2>4. IsFiniteSet(span) /\ Cardinality(span) = (now - stamp[r]) + AgentWindow
    <3>1. PICK a \in Int : a = stamp[r] - AgentWindow + 1
      BY <2>2
    <3>2. a <= now /\ now - a + 1 = (now - stamp[r]) + AgentWindow
      BY <2>2, <3>1
    <3>3. IsFiniteSet(a..now) /\ Cardinality(a..now) = now - a + 1
      <4>1. a \in Int /\ now \in Int /\ ~(a > now)
        BY <2>2, <3>2
      <4>2. SecondsIn(a, now)
        BY <4>1, FS_Interval DEF SecondsIn
      <4>3. QED
        BY <4>1, <4>2 DEF SecondsIn
    <3>4. QED
      BY <2>2, <3>1, <3>2, <3>3
  <2> HIDE DEF span, seen
  <2>5. /\ Cardinality(seen) \in Nat /\ Cardinality(seen) <= Cardinality(span)
        /\ Cardinality(seen \cup {stamp[r]}) \in Nat
        /\ Cardinality(seen \cup {stamp[r]}) <= Cardinality(span)
    BY <2>3, <2>4, FS_Subset, FS_CardinalityType
  <2>6. Cardinality(seen) < AgentLimit /\ Cardinality(seen \cup {stamp[r]}) < AgentLimit
    BY <2>2, <2>4, <2>5
  <2>7. QED
    BY <2>6 DEF AgentAdmits, seen
<1>3. QED
  BY <1>1, <1>2, SecondsStep, TypeCorrect, PTL DEF Spec
=============================================================================
