----------------------- MODULE GatewayCallbackProofs -----------------------
(***************************************************************************)
(* The agent's process for any number of overlapping tool calls and any    *)
(* number of requests to the triage engine.                                *)
(*                                                                         *)
(* CountsAgree compares counters with calls that stand somewhere, and is   *)
(* not inductive: CallInv says of each counter whose decisions it counts,  *)
(* and of each call where its decision has brought it.  Of AnswerIsOurs, only  *)
(* the type of the client has to be added.                                 *)
(***************************************************************************)
EXTENDS GatewayCallback, FiniteSetTheorems, TLAPS

USE CallsAssumption, AsksAssumption

----------------------------------------------------------------------------
(* Counting.                                                               *)

\* Some of finitely many, and one more of them.
LEMMA CountSome ==
    ASSUME NEW W, IsFiniteSet(W), NEW S \in SUBSET W
    PROVE  IsFiniteSet(S) /\ Cardinality(S) \in Nat /\ Cardinality(S) <= Cardinality(W)
BY FS_Subset, FS_CardinalityType

LEMMA CountOneMore ==
    ASSUME NEW W, IsFiniteSet(W), NEW S \in SUBSET W, NEW T, NEW x, x \notin S, T = S \cup {x}
    PROVE  Cardinality(S) \in Nat /\ Cardinality(T) = Cardinality(S) + 1
<1>1. IsFiniteSet(S) /\ Cardinality(S) \in Nat
  BY CountSome
<1>2. Cardinality(S \cup {x}) = Cardinality(S) + 1
  BY <1>1, FS_AddElement
<1>3. QED
  BY <1>1, <1>2

\* Two kinds that exclude each other are counted apart.
LEMMA CountBoth ==
    ASSUME NEW W, IsFiniteSet(W), NEW S \in SUBSET W, NEW T \in SUBSET W, S \cap T = {}
    PROVE  Cardinality(S \cup T) = Cardinality(S) + Cardinality(T)
<1>1. /\ IsFiniteSet(S) /\ Cardinality(S) \in Nat /\ IsFiniteSet(T) /\ Cardinality(T) \in Nat
  BY CountSome
<1>2. Cardinality(S \cup T) = Cardinality(S) + Cardinality(T) - Cardinality(S \cap T)
  BY <1>1, FS_Union
<1>3. Cardinality(S \cap T) = 0
  BY FS_EmptySet
<1>4. QED
  BY <1>1, <1>2, <1>3

----------------------------------------------------------------------------
(* The start and the end of the process.                                   *)

LEMMA StartupTypes ==
    ASSUME StartupTypeOK, Startup \/ Shutdown \/ UNCHANGED startupVars
    PROVE  StartupTypeOK'
<1> USE DEF StartupTypeOK
<1>1. CASE InitRedis
  BY <1>1 DEF InitRedis, Connected, Step
<1>2. CASE InitOpa
  BY <1>2 DEF InitOpa, Step
<1>3. CASE InitPresidio
  BY <1>3 DEF InitPresidio, Step
<1>4. CASE SetSanitizer
  BY <1>4 DEF SetSanitizer, Step
<1>5. CASE SetScanner
  BY <1>5 DEF SetScanner
<1>6. CASE InitClients
  BY <1>6 DEF InitClients, Step
<1>7. CASE CloseClients \/ CloseRedis
  BY <1>7 DEF CloseClients, CloseRedis, Step
<1>8. CASE UNCHANGED startupVars
  BY <1>8 DEF startupVars
<1>9. QED
  BY <1>1, <1>2, <1>3, <1>4, <1>5, <1>6, <1>7, <1>8 DEF Startup, Shutdown

----------------------------------------------------------------------------
(* The handler.                                                            *)

Seen == {k \in Calls : call[k] # "idle"}
Said(d) == {k \in Calls : decided[k] = d}

CallInv ==
    /\ call \in [Calls -> {"idle", "deciding", "refused"} \cup Started]
    /\ decided \in [Calls -> Decisions \cup {"none", "error"}]
    /\ stats \in [Counters -> Nat]
    /\ stats["intercepted"] = Cardinality(Seen)
    /\ stats["allowed"] = Cardinality(Said("ALLOW"))
    /\ stats["sandboxed"] = Cardinality(Said("SANDBOX"))
    /\ stats["blocked"] = Cardinality(Said("BLOCK"))
    /\ \A k \in Calls : /\ call[k] \in {"idle", "deciding"} <=> decided[k] = "none"
                        /\ call[k] = "refused" => decided[k] \in {"BLOCK", "error"}

LEMMA HandlerStep ==
    ASSUME CallInv, Handler
    PROVE  CallInv'
<1> USE DEF CallInv, Decisions, Counters, Started
<1>1. PICK k \in Calls :
          \/ OnToolStart(k) \/ DecideFails(k) \/ RunsAnyway(k) \/ ToolFails(k) \/ OnToolEnd(k)
          \/ Analyze(k) \/ Anonymize(k) \/ PresidioFails(k) \/ Scan(k)
          \/ \E decision \in Decisions : Decide(k, decision)
  BY DEF Handler
<1>2. CASE OnToolStart(k)
  <2>1. /\ call[k] = "idle" /\ call' = [call EXCEPT ![k] = "deciding"] /\ decided' = decided
        /\ stats' = [stats EXCEPT !["intercepted"] = stats["intercepted"] + 1]
    BY <1>2 DEF OnToolStart, Goes, Counts
  <2>2. Cardinality(Seen') = Cardinality(Seen) + 1
    <3>1. Seen' = Seen \cup {k} /\ k \notin Seen /\ Seen \in SUBSET Calls
      BY <2>1 DEF Seen
    <3>2. QED
      BY <3>1, CountOneMore
  <2>3. \A d : Said(d)' = Said(d)
    BY <2>1 DEF Said
  <2>4. QED
    BY <2>1, <2>2, <2>3
<1>3. CASE \/ RunsAnyway(k) \/ ToolFails(k) \/ OnToolEnd(k)
          \/ Analyze(k) \/ Anonymize(k) \/ PresidioFails(k) \/ Scan(k)
  <2>1. /\ call[k] \in Started \cup {"refused"} /\ \E to \in Started : call' = [call EXCEPT ![k] = to]
        /\ decided' = decided /\ stats' = stats
    BY <1>3 DEF RunsAnyway, ToolFails, OnToolEnd, Analyze, Anonymize, PresidioFails, Scan, Goes
  <2>2. Seen' = Seen
    BY <2>1 DEF Seen
  <2>3. \A d : Said(d)' = Said(d)
    BY <2>1 DEF Said
  <2>4. QED
    BY <2>1, <2>2, <2>3
<1>4. CASE DecideFails(k)
  <2>1. /\ call[k] = "deciding" /\ call' = [call EXCEPT ![k] = "refused"] /\ stats' = stats
        /\ decided' = [decided EXCEPT ![k] = "error"] /\ decided[k] = "none"
    BY <1>4 DEF DecideFails, Goes
  <2>2. Seen' = Seen
    BY <2>1 DEF Seen
  <2>3. \A d \in Decisions : Said(d)' = Said(d)
    BY <2>1 DEF Said
  <2>4. QED
    BY <2>1, <2>2, <2>3
<1>5. ASSUME NEW decision \in Decisions, Decide(k, decision)
      PROVE  CallInv'
  <2> DEFINE name == CASE decision = "ALLOW" -> "allowed" [] decision = "SANDBOX" -> "sandboxed"
                       [] OTHER -> "blocked"
             to == IF decision = "BLOCK" THEN "refused" ELSE "running"
  <2>1. /\ call[k] = "deciding" /\ call' = [call EXCEPT ![k] = to]
        /\ stats' = [stats EXCEPT ![name] = stats[name] + 1]
        /\ decided' = [decided EXCEPT ![k] = decision] /\ decided[k] = "none"
    BY <1>5 DEF Decide, Acts, Goes, Counts
  <2>2. Seen' = Seen
    BY <2>1 DEF Seen
  <2>3. ASSUME NEW d \in Decisions
        PROVE  Cardinality(Said(d)') = IF d = decision THEN Cardinality(Said(d)) + 1
                                       ELSE Cardinality(Said(d))
    <3>1. CASE d = decision
      <4>1. Said(d)' = Said(d) \cup {k} /\ k \notin Said(d) /\ Said(d) \in SUBSET Calls
        BY <2>1, <3>1 DEF Said
      <4>2. QED
        BY <3>1, <4>1, CountOneMore
    <3>2. CASE d # decision
      <4>1. Said(d)' = Said(d)
        BY <2>1, <3>2 DEF Said
      <4>2. QED
        BY <3>2, <4>1
    <3>3. QED
      BY <3>1, <3>2
  <2>4. /\ stats' \in [Counters -> Nat] /\ stats'["intercepted"] = stats["intercepted"]
        /\ stats'["allowed"] = Cardinality(Said("ALLOW")')
        /\ stats'["sandboxed"] = Cardinality(Said("SANDBOX")')
        /\ stats'["blocked"] = Cardinality(Said("BLOCK")')
    <3>1. CASE decision = "ALLOW"
      BY <2>1, <2>3, <3>1
    <3>2. CASE decision = "SANDBOX"
      BY <2>1, <2>3, <3>2
    <3>3. CASE decision = "BLOCK"
      BY <2>1, <2>3, <3>3
    <3>4. QED
      BY <3>1, <3>2, <3>3
  <2>5. QED
    BY <2>1, <2>2, <2>4
<1>6. QED
  BY <1>1, <1>2, <1>3, <1>4, <1>5

----------------------------------------------------------------------------
(* The triage client.                                                      *)

Sandboxed == {q \in Asks : ask[q] = "SANDBOX"}
Ours == {q \in Asks : ask[q] = "SANDBOX" /\ said[q] # "SANDBOX"}

AskInv ==
    /\ configured \in BOOLEAN /\ certified \in BOOLEAN
    /\ ask \in [Asks -> Verdicts \cup {"none", "waiting"}]
    /\ said \in [Asks -> Verdicts \cup {"none"}]
    /\ failures \in Nat
    /\ \A q \in Asks : ask[q] \in {"ALLOW", "BLOCK"} => said[q] = ask[q]
    /\ failures <= Cardinality(Sandboxed)
    /\ configured => Cardinality(Ours) <= failures

\* A request comes to its answer once.
LEMMA AnswerCounts ==
    ASSUME AskInv, NEW q \in Asks, ask[q] \in {"none", "waiting"}, NEW verdict, Returns(q, verdict),
           said' = said
    PROVE  /\ Cardinality(Sandboxed) \in Nat /\ Cardinality(Ours) \in Nat
           /\ verdict # "SANDBOX" => Sandboxed' = Sandboxed /\ Ours' = Ours
           /\ verdict = "SANDBOX" => /\ Cardinality(Sandboxed') = Cardinality(Sandboxed) + 1
                                     /\ said[q] = "SANDBOX" => Ours' = Ours
                                     /\ Cardinality(Ours') \in Nat
                                     /\ Cardinality(Ours') <= Cardinality(Ours) + 1
<1>1. ask' = [ask EXCEPT ![q] = verdict] /\ ask \in [Asks -> Verdicts \cup {"none", "waiting"}]
  BY DEF Returns, AskInv
<1>2. /\ Sandboxed \in SUBSET Asks /\ Ours \in SUBSET Asks /\ q \notin Sandboxed /\ q \notin Ours
  BY DEF Sandboxed, Ours
<1>3. Cardinality(Sandboxed) \in Nat /\ Cardinality(Ours) \in Nat
  BY <1>2, CountSome
<1>4. verdict # "SANDBOX" => Sandboxed' = Sandboxed /\ Ours' = Ours
  BY <1>1 DEF Sandboxed, Ours
<1>5. ASSUME verdict = "SANDBOX"
      PROVE  Cardinality(Sandboxed') = Cardinality(Sandboxed) + 1
  <2>1. Sandboxed' = Sandboxed \cup {q}
    BY <1>1, <1>5 DEF Sandboxed
  <2>2. QED
    BY <1>2, <2>1, CountOneMore
<1>6. ASSUME verdict = "SANDBOX"
      PROVE  /\ said[q] = "SANDBOX" => Ours' = Ours
             /\ Cardinality(Ours') \in Nat /\ Cardinality(Ours') <= Cardinality(Ours) + 1
  <2>1. CASE said[q] = "SANDBOX"
    <3>1. Ours' = Ours
      BY <1>1, <1>6, <2>1 DEF Ours
    <3>2. QED
      BY <1>3, <3>1
  <2>2. CASE said[q] # "SANDBOX"
    <3>1. Ours' = Ours \cup {q}
      BY <1>1, <1>6, <2>2 DEF Ours
    <3>2. Cardinality(Ours') = Cardinality(Ours) + 1
      BY <1>2, <3>1, CountOneMore
    <3>3. QED
      BY <1>3, <2>2, <3>2
  <2>3. QED
    BY <2>1, <2>2
<1>7. QED
  BY <1>3, <1>4, <1>5, <1>6

LEMMA ClientStep ==
    ASSUME AskInv, Client
    PROVE  AskInv'
<1> USE DEF Verdicts
<1>1. PICK q \in Asks :
          \/ CallTriage(q) \/ NoReply(q)
          \/ \E verdict \in Verdicts : Judges(q, verdict)
          \/ \E id \in Asks : Replied(q, id)
  BY DEF Client
<1>2. ASSUME NEW verdict \in Verdicts, Judges(q, verdict)
      PROVE  AskInv'
  <2>1. /\ ask[q] = "waiting" /\ said' = [said EXCEPT ![q] = verdict]
        /\ UNCHANGED <<configured, certified, ask, failures>>
    BY <1>2 DEF Judges
  <2>2. Sandboxed' = Sandboxed /\ Ours' = Ours
    BY <2>1 DEF Sandboxed, Ours, AskInv
  <2>3. QED
    BY <2>1, <2>2 DEF AskInv
<1>3. ASSUME ask[q] \in {"none", "waiting"}, Fails(q), UNCHANGED <<configured, certified, said>>
      PROVE  AskInv'
  <2>1. Returns(q, "SANDBOX") /\ failures' = failures + 1
    BY <1>3 DEF Fails
  <2>2. /\ Cardinality(Sandboxed) \in Nat /\ Cardinality(Ours) \in Nat
        /\ Cardinality(Sandboxed') = Cardinality(Sandboxed) + 1
        /\ Cardinality(Ours') \in Nat /\ Cardinality(Ours') <= Cardinality(Ours) + 1
    BY <1>3, <2>1, AnswerCounts
  <2>3. /\ failures' <= Cardinality(Sandboxed') /\ failures' \in Nat
        /\ configured' => Cardinality(Ours') <= failures'
    BY <1>3, <2>1, <2>2 DEF AskInv
  <2>4. QED
    BY <1>3, <2>1, <2>3 DEF AskInv, Returns
<1>4. ASSUME ask[q] = "none", ~configured, Returns(q, "SANDBOX"), UNCHANGED <<configured, certified, said, failures>>
      PROVE  AskInv'
  <2>1. /\ Cardinality(Sandboxed) \in Nat /\ Cardinality(Sandboxed') = Cardinality(Sandboxed) + 1
    BY <1>4, AnswerCounts
  <2>2. failures' <= Cardinality(Sandboxed')
    BY <1>4, <2>1 DEF AskInv
  <2>3. QED
    BY <1>4, <2>2 DEF AskInv, Returns
<1>5. ASSUME ask[q] = "none", Returns(q, "waiting"), UNCHANGED <<configured, certified, said, failures>>
      PROVE  AskInv'
  <2>1. Sandboxed' = Sandboxed /\ Ours' = Ours
    BY <1>5, AnswerCounts
  <2>2. QED
    BY <1>5, <2>1 DEF AskInv, Returns
<1>6. ASSUME ask[q] = "waiting", said[q] # "none", Returns(q, said[q]), UNCHANGED <<configured, certified, said, failures>>
      PROVE  AskInv'
  <2>1. /\ Cardinality(Sandboxed) \in Nat /\ Ours' = Ours
        /\ Cardinality(Sandboxed') \in {Cardinality(Sandboxed), Cardinality(Sandboxed) + 1}
    BY <1>6, AnswerCounts
  <2>2. failures' <= Cardinality(Sandboxed')
    BY <1>6, <2>1 DEF AskInv
  <2>3. said[q] \in Verdicts
    BY <1>6 DEF AskInv
  <2>4. QED
    BY <1>6, <2>1, <2>2, <2>3 DEF AskInv, Returns
<1>7. CASE CallTriage(q)
  BY <1>3, <1>4, <1>5, <1>7 DEF CallTriage
<1>8. CASE NoReply(q)
  BY <1>3, <1>8 DEF NoReply
<1>9. ASSUME NEW id \in Asks, Replied(q, id)
      PROVE  AskInv'
  BY <1>3, <1>6, <1>9 DEF Replied, AboutThis
<1>10. QED
  BY <1>1, <1>2, <1>7, <1>8, <1>9

----------------------------------------------------------------------------
(* The process.                                                            *)

LEMMA ProcessInvariant == Spec => [](StartupTypeOK /\ CallInv /\ AskInv)
<1>1. Init => StartupTypeOK /\ CallInv /\ AskInv
  <2> SUFFICES ASSUME Init PROVE StartupTypeOK /\ CallInv /\ AskInv
    OBVIOUS
  <2>0. Cardinality({}) = 0
    BY FS_EmptySet
  <2>1. StartupTypeOK
    BY DEF Init, StartupInit, StartupTypeOK
  <2>2. CallInv
    <3>1. Seen = {} /\ \A d \in Decisions : Said(d) = {}
      BY DEF Init, Seen, Said, Decisions
    <3>2. QED
      BY <2>0, <3>1 DEF Init, CallInv, Decisions, Counters, Started
  <2>3. AskInv
    <3>1. Sandboxed = {} /\ Ours = {} /\ failures = 0
      BY DEF Init, ClientInit, Sandboxed, Ours
    <3>2. failures <= Cardinality(Sandboxed) /\ Cardinality(Ours) <= failures
      BY <2>0, <3>1
    <3>3. QED
      BY <3>1, <3>2 DEF Init, ClientInit, AskInv, Verdicts
  <2>4. QED
    BY <2>1, <2>2, <2>3
<1>2. StartupTypeOK /\ CallInv /\ AskInv /\ [Next]_vars => (StartupTypeOK /\ CallInv /\ AskInv)'
  <2> SUFFICES ASSUME StartupTypeOK, CallInv, AskInv, [Next]_vars
               PROVE  (StartupTypeOK /\ CallInv /\ AskInv)'
    OBVIOUS
  <2>1. UNCHANGED startupVars => StartupTypeOK'
    BY StartupTypes
  <2>2. UNCHANGED callVars => CallInv'
    BY DEF callVars, CallInv, Seen, Said
  <2>3. UNCHANGED clientVars => AskInv'
    BY DEF clientVars, AskInv, Sandboxed, Ours
  <2>4. CASE (Startup \/ Shutdown) /\ UNCHANGED <<clientVars, callVars>>
    BY <2>2, <2>3, <2>4, StartupTypes
  <2>5. CASE Handler /\ UNCHANGED <<startupVars, clientVars>>
    BY <2>1, <2>3, <2>5, HandlerStep
  <2>6. CASE Client /\ UNCHANGED <<startupVars, callVars>>
    BY <2>1, <2>2, <2>6, ClientStep
  <2>7. CASE UNCHANGED vars
    BY <2>1, <2>2, <2>3, <2>7 DEF vars
  <2>8. QED
    BY <2>4, <2>5, <2>6, <2>7 DEF Next
<1>3. QED
  BY <1>1, <1>2, PTL DEF Spec

\* Every variable of the process keeps its type, and no counter exceeds the number of calls.
THEOREM TypeCorrect == Spec => []TypeOK
<1>1. CallInv /\ AskInv /\ StartupTypeOK => TypeOK
  <2> SUFFICES ASSUME CallInv, AskInv, StartupTypeOK PROVE TypeOK
    OBVIOUS
  <2>1. Seen \in SUBSET Calls /\ \A d : Said(d) \in SUBSET Calls
    BY DEF Seen, Said
  <2>2. PICK n \in Nat : n = Cardinality(Calls)
    BY FS_CardinalityType
  <2>3. ASSUME NEW name \in Counters PROVE stats[name] \in 0..n
    <3>1. \E S \in SUBSET Calls : stats[name] = Cardinality(S)
      BY <2>1 DEF CallInv, Counters
    <3>2. QED
      BY <2>2, <3>1, CountSome
  <2>4. stats \in [Counters -> 0..Cardinality(Calls)]
    BY <2>2, <2>3 DEF CallInv
  <2>5. failures \in 0..Cardinality(Asks)
    <3>1. Sandboxed \in SUBSET Asks
      BY DEF Sandboxed
    <3>2. Cardinality(Sandboxed) \in Nat /\ Cardinality(Sandboxed) <= Cardinality(Asks)
      BY <3>1, CountSome
    <3>3. Cardinality(Asks) \in Nat
      BY FS_CardinalityType
    <3>4. QED
      BY <3>2, <3>3 DEF AskInv
  <2>6. QED
    BY <2>4, <2>5 DEF TypeOK, ClientTypeOK, CallInv, AskInv
<1>2. QED
  BY <1>1, ProcessInvariant, PTL

\* Whatever the order in which the decisions of overlapping calls come, and though the tools of
\* blocked calls run, the handler's counters are the pipeline's decisions (the handler's stats).
THEOREM CountersAgree == Spec => []CountsAgree
<1>1. CallInv => CountsAgree
  <2> SUFFICES ASSUME CallInv PROVE CountsAgree
    OBVIOUS
  <2> DEFINE UnderWay == {k \in Calls : call[k] = "deciding"}
             Ran == Said("ALLOW") \cup Said("SANDBOX")
             Raised == Said("BLOCK") \cup Said("error")
  <2>1. /\ Seen = (Ran \cup Raised) \cup UnderWay
        /\ Said("ALLOW") \cap Said("SANDBOX") = {} /\ Said("BLOCK") \cap Said("error") = {}
        /\ Ran \cap Raised = {} /\ (Ran \cup Raised) \cap UnderWay = {}
    BY DEF CallInv, Seen, Said, Started, Decisions
  <2>2. UnderWay \in SUBSET Calls /\ \A d : Said(d) \in SUBSET Calls
    BY DEF Said
  <2>3. Cardinality(Ran) = Cardinality(Said("ALLOW")) + Cardinality(Said("SANDBOX"))
    BY <2>1, <2>2, CountBoth
  <2>4. Cardinality(Raised) = Cardinality(Said("BLOCK")) + Cardinality(Said("error"))
    BY <2>1, <2>2, CountBoth
  <2>5. /\ Cardinality(Ran \cup Raised) = Cardinality(Ran) + Cardinality(Raised)
        /\ Cardinality(Seen) = Cardinality(Ran \cup Raised) + Cardinality(UnderWay)
    BY <2>1, <2>2, CountBoth
  <2>6. Cardinality(UnderWay) \in Nat /\ \A d : Cardinality(Said(d)) \in Nat
    BY <2>2, CountSome
  <2>7. /\ stats["intercepted"] = Cardinality(Seen)
        /\ stats["allowed"] = Cardinality(Said("ALLOW"))
        /\ stats["sandboxed"] = Cardinality(Said("SANDBOX"))
        /\ stats["blocked"] = Cardinality(Said("BLOCK"))
    BY DEF CallInv
  <2> HIDE DEF UnderWay, Ran, Raised
  <2>8. stats["intercepted"] = stats["allowed"] + stats["sandboxed"] + stats["blocked"]
                               + Cardinality(Said("error")) + Cardinality(UnderWay)
    BY <2>3, <2>4, <2>5, <2>6, <2>7
  <2>9. QED
    BY <2>7, <2>8 DEF CountsAgree, UnderWay, Said
<1>2. QED
  BY <1>1, ProcessInvariant, PTL

\* ALLOW and BLOCK are only ever what the engine said of this very request, and every SANDBOX
\* the client gave itself is counted as a failure, however replies are lost, late or mixed up.
THEOREM AnswersAreOurs == Spec => []AnswerIsOurs
<1>1. AskInv => AnswerIsOurs
  BY DEF AskInv, AnswerIsOurs, Sandboxed, Ours
<1>2. QED
  BY <1>1, ProcessInvariant, PTL

----------------------------------------------------------------------------
(* What the process serves with.                                           *)

Up == {"serving", "closing", "closed"}
Sanitizing == {"analyzing", "anonymizing", "scanning"}

\* Each part is there or not as the start found it, from its own step to the end of the process:
\* without Redis it is marked degraded, without Presidio there is no sanitizer, without categories
\* no scanner, and rules leave it without HTTP clients; none of them is left open at the end.  Tools
\* are called in a process that was set up, and outputs are only ever worked on by both parts.
SetUpAsFound ==
    /\ IF stage = "redis" THEN degraded = {} ELSE redis <=> "redis" \notin degraded
    /\ stage \in Up \cup {"clients", "scanner"} => sanitizer = presidio
    /\ stage \in Up \cup {"clients"} => scanner = (patterns = "categories")
    /\ stage = "clients" => patterns # "rules" /\ clients = "none"
    /\ stage = "serving" => clients = IF patterns = "rules" THEN "none" ELSE "open"
    /\ stage \in {"closing", "closed"} => clients = IF patterns = "rules" THEN "none" ELSE "closed"
    /\ stage \notin Up => clients = "none"
    /\ \A k \in Calls : call[k] # "idle" => stage \in Up
    /\ \A k \in Calls : call[k] \in Sanitizing => presidio /\ patterns = "categories"

\* For any number of overlapping calls, which all rely on what the start left behind: a start that
\* gave up half way is seen in what is missing, and in nothing else.
THEOREM ServesAsFound == Spec => []SetUpAsFound
<1>1. Init => SetUpAsFound
  BY DEF Init, StartupInit, SetUpAsFound, Up, Sanitizing
<1>2. StartupTypeOK /\ CallInv /\ SetUpAsFound /\ [Next]_vars => SetUpAsFound'
  <2> SUFFICES ASSUME StartupTypeOK, CallInv, SetUpAsFound, [Next]_vars PROVE SetUpAsFound'
    OBVIOUS
  <2> USE DEF StartupTypeOK, SetUpAsFound, Up, Sanitizing
  <2>1. CASE Startup /\ UNCHANGED <<clientVars, callVars>>
    <3>1. call' = call
      BY <2>1 DEF callVars
    <3>2. CASE InitRedis
      <4>1. /\ stage' = "opa" /\ UNCHANGED <<presidio, patterns, sanitizer, scanner, clients>>
            /\ stage = "redis" /\ degraded = {}
        BY <3>2 DEF InitRedis, Step
      <4>2. CASE Connected(TRUE)
        BY <3>1, <4>1, <4>2 DEF Connected
      <4>3. CASE Connected(FALSE)
        BY <3>1, <4>1, <4>3 DEF Connected
      <4>4. QED
        BY <3>2, <4>2, <4>3 DEF InitRedis
    <3>3. CASE InitOpa \/ InitPresidio \/ SetSanitizer
      BY <3>1, <3>3 DEF InitOpa, InitPresidio, SetSanitizer, Step
    <3>4. CASE SetScanner
      BY <3>1, <3>4 DEF SetScanner
    <3>5. CASE InitClients
      BY <3>1, <3>5 DEF InitClients, Step
    <3>6. QED
      BY <2>1, <3>2, <3>3, <3>4, <3>5 DEF Startup
  <2>2. CASE Shutdown /\ UNCHANGED <<clientVars, callVars>>
    BY <2>2 DEF Shutdown, CloseClients, CloseRedis, Step, callVars
  <2>3. CASE Handler /\ UNCHANGED <<startupVars, clientVars>>
    <3>1. UNCHANGED <<stage, degraded, redis, presidio, patterns, sanitizer, scanner, clients>>
      BY <2>3 DEF startupVars
    <3>2. PICK k \in Calls :
             \/ OnToolStart(k) \/ DecideFails(k) \/ RunsAnyway(k) \/ ToolFails(k) \/ OnToolEnd(k)
             \/ Analyze(k) \/ Anonymize(k) \/ PresidioFails(k) \/ Scan(k)
             \/ \E decision \in Decisions : Decide(k, decision)
      BY <2>3 DEF Handler
    <3>3. /\ \A j \in Calls : j # k => call'[j] = call[j]
          /\ stage \in Up
          /\ call'[k] \in Sanitizing => presidio /\ patterns = "categories"
      <4> USE DEF CallInv
      <4>1. CASE OnToolStart(k) \/ DecideFails(k) \/ RunsAnyway(k) \/ ToolFails(k) \/ PresidioFails(k) \/ Scan(k)
        BY <4>1 DEF OnToolStart, DecideFails, RunsAnyway, ToolFails, PresidioFails, Scan, Goes
      <4>2. CASE OnToolEnd(k)
        BY <4>2 DEF OnToolEnd, Goes
      <4>3. CASE Analyze(k) \/ Anonymize(k)
        BY <4>3 DEF Analyze, Anonymize, Goes
      <4>4. ASSUME NEW decision \in Decisions, Decide(k, decision)
            PROVE  /\ \A j \in Calls : j # k => call'[j] = call[j]
                   /\ stage \in Up
                   /\ call'[k] \in Sanitizing => presidio /\ patterns = "categories"
        BY <4>4 DEF Decide, Acts, Goes
      <4>5. QED
        BY <3>2, <4>1, <4>2, <4>3, <4>4
    <3>4. QED
      BY <3>1, <3>3
  <2>4. CASE Client /\ UNCHANGED <<startupVars, callVars>>
    BY <2>4 DEF startupVars, callVars
  <2>5. CASE UNCHANGED vars
    BY <2>5 DEF vars, startupVars, callVars
  <2>6. QED
    BY <2>1, <2>2, <2>3, <2>4, <2>5 DEF Next
<1>3. QED
  BY <1>1, <1>2, ProcessInvariant, PTL DEF Spec
=============================================================================
