------------------------ MODULE GatewayDependencies ------------------------
(***************************************************************************)
(* The gateway's dependency wrappers, app/dependency_wrappers.py: the      *)
(* circuit breaker, the four Redis wrappers called through it, the OPA     *)
(* check and the life of its HTTP client.  Callers are coroutines.  The    *)
(* breaker's lock is never held over an await, so entering and leaving     *)
(* call() are one step each, and between them the call runs.               *)
(*                                                                         *)
(* Time is kept as what the code compares: how long ago the last failure   *)
(* was, up to RecoveryTimeout, and how long a call has run, up to          *)
(* CallTime, when wait_for ends it.                                        *)
(***************************************************************************)
EXTENDS Naturals, FiniteSets

CONSTANTS
    Callers,
    NoOne,               \* no caller: the key is not held
    Uses,                \* which of the wrappers a caller calls
    FailureThreshold,    \* 5 for Redis, 3 for the triage service
    RecoveryTimeout,     \* 10 seconds
    HalfOpenMaxCalls,    \* 1
    CallTime,            \* wait_for: 0.2 seconds for Redis, 0.1 for OPA
    HoldTime             \* the expiry given to SET NX EX

ASSUME DependencyAssumption ==
    /\ IsFiniteSet(Callers) /\ NoOne \notin Callers
    /\ Uses \in [Callers -> SUBSET {"hgetall", "lrange", "lua", "set", "opa"}]
    /\ FailureThreshold \in Nat \ {0}
    /\ RecoveryTimeout \in Nat
    /\ HalfOpenMaxCalls \in Nat \ {0}
    /\ CallTime \in Nat /\ CallTime < RecoveryTimeout
    /\ HoldTime \in Nat /\ CallTime < HoldTime

VARIABLES
    state,          \* closed, open, half_open
    failures,       \* failure_count, which is only compared with the threshold: up to it
    sinceFailure,   \* time since last_failure_time, up to RecoveryTimeout
    halfOpenCalls,
    call,           \* of each caller, the call it awaits: none, hgetall, lrange, lua, set, opa
    elapsed,        \* how long it has run
    found,          \* what the service has answered and the caller has not yet seen
    stray,          \* commands Redis may still run though their callers have gone
    key, hold,      \* Redis: who set the key, and for how long it still holds
    redis,          \* whether init_redis left a client
    opa,            \* opa_client: none, open, closed
    told,           \* how its last call ended: returned, raised, permitted (a True of OPA's check)
    word,           \* history: the callers OPA itself permitted, in their last question to it
    lostProbe,      \* history: a call of this half-open period was cancelled
    claimed         \* history: who was told that it set the key, since it last was free

breaker == <<state, failures, sinceFailure, halfOpenCalls, lostProbe>>
server == <<stray, key, hold, claimed>>
vars == <<breaker, call, elapsed, found, server, redis, opa, told, word>>

RedisOps == {"hgetall", "lrange", "lua", "set"}
Answers == {"none", "empty", "data", "set", "held"}
States == {"closed", "open", "half_open"}

\* What OPA's reply may look like to opa_policy_check.
OpaReplies == {"allow", "deny", "not_200", "no_json", "no_dict", "no_result", "no_allow"}

Running == {c \in Callers : call[c] \in RedisOps}
Capped(n, max) == IF n < max THEN n ELSE max

TypeOK ==
    /\ state \in States
    /\ failures \in 0..FailureThreshold
    /\ sinceFailure \in 0..RecoveryTimeout
    /\ halfOpenCalls \in 0..HalfOpenMaxCalls
    /\ call \in [Callers -> RedisOps \cup {"none", "opa"}]
    /\ elapsed \in [Callers -> 0..CallTime]
    /\ found \in [Callers -> Answers]
    /\ stray \subseteq Callers
    /\ key \in Callers \cup {NoOne} /\ hold \in 0..HoldTime
    /\ redis \in BOOLEAN /\ opa \in {"none", "open", "closed"}
    /\ told \in [Callers -> {"none", "returned", "raised", "permitted"}]
    /\ word \subseteq Callers
    /\ lostProbe \in BOOLEAN
    /\ claimed \subseteq Callers

Init ==
    /\ state = "closed" /\ failures = 0 /\ sinceFailure = RecoveryTimeout /\ halfOpenCalls = 0
    /\ call = [c \in Callers |-> "none"] /\ elapsed = [c \in Callers |-> 0]
    /\ found = [c \in Callers |-> "none"] /\ stray = {}
    /\ key = NoOne /\ hold = 0 /\ claimed = {}
    /\ redis \in BOOLEAN /\ opa \in {"none", "open"}
    /\ told = [c \in Callers |-> "none"] /\ word = {} /\ lostProbe = FALSE

-----------------------------------------------------------------------------
(* CircuitBreaker.call: what it finds on entry, and how a call leaves it. *)

Recovered == state = "open" /\ sinceFailure >= RecoveryTimeout

StateSeen == IF Recovered THEN "half_open" ELSE state
CallsSeen == IF Recovered THEN 0 ELSE halfOpenCalls

\* Slip: no limit on the calls of a trial.
RefusesOnlyOpen == StateSeen = "open"

Refuses ==
    \/ StateSeen = "open"
    \/ StateSeen = "half_open" /\ CallsSeen >= HalfOpenMaxCalls

Await(c, op) ==
    /\ call[c] = "none"
    /\ call' = [call EXCEPT ![c] = op]
    /\ told' = [told EXCEPT ![c] = "none"]
    /\ UNCHANGED <<elapsed, found>>

Enter(c, op) ==
    /\ ~Refuses
    /\ Await(c, op)
    /\ state' = StateSeen
    /\ halfOpenCalls' = CallsSeen + (IF StateSeen = "half_open" THEN 1 ELSE 0)
    /\ UNCHANGED <<failures, sinceFailure, lostProbe, server, redis, opa, word>>

Refuse(c) ==
    /\ Refuses /\ call[c] = "none" /\ Uses[c] \cap RedisOps # {}
    /\ state' = StateSeen /\ halfOpenCalls' = CallsSeen
    /\ told' = [told EXCEPT ![c] = "raised"]
    /\ UNCHANGED <<failures, sinceFailure, lostProbe, call, elapsed, found, server, redis, opa, word>>

OnSuccess ==
    /\ state' = IF state = "half_open" THEN "closed" ELSE state
    /\ failures' = IF state = "half_open" THEN 0 ELSE failures
    /\ lostProbe' = (lostProbe /\ state' = "half_open")
    /\ UNCHANGED <<sinceFailure, halfOpenCalls>>

\* Slip: last_failure_time is not updated.
OnFailureKeepsTime ==
    /\ failures' = Capped(failures + 1, FailureThreshold)
    /\ state' = IF failures' >= FailureThreshold THEN "open" ELSE state
    /\ lostProbe' = (lostProbe /\ state' = "half_open")
    /\ UNCHANGED <<sinceFailure, halfOpenCalls>>

\* Slip: the breaker opens when the count reaches the threshold, not while it is past it.
OnFailureAtThreshold ==
    /\ failures' = Capped(failures + 1, FailureThreshold)
    /\ sinceFailure' = 0
    /\ state' = IF failures + 1 = FailureThreshold THEN "open" ELSE state
    /\ lostProbe' = (lostProbe /\ state' = "half_open")
    /\ UNCHANGED halfOpenCalls

OnFailure ==
    /\ failures' = Capped(failures + 1, FailureThreshold)
    /\ sinceFailure' = 0
    /\ state' = IF failures' >= FailureThreshold THEN "open" ELSE state
    /\ lostProbe' = (lostProbe /\ state' = "half_open")
    /\ UNCHANGED halfOpenCalls

\* CancelledError is not an Exception: it passes the except clause of call() by.
OnCancel ==
    /\ lostProbe' = (lostProbe \/ state = "half_open")
    /\ UNCHANGED <<state, failures, sinceFailure, halfOpenCalls>>

Return(c, what) ==
    /\ call' = [call EXCEPT ![c] = "none"]
    /\ elapsed' = [elapsed EXCEPT ![c] = 0]
    /\ found' = [found EXCEPT ![c] = "none"]
    /\ told' = [told EXCEPT ![c] = what]

-----------------------------------------------------------------------------
(* The wrappers.  Redis runs a command some time after it is sent: before  *)
(* the reply, before a fault, or when nobody waits for it any more.        *)

RedisSets(c) ==
    IF key = NoOne THEN key' = c /\ hold' = HoldTime ELSE UNCHANGED <<key, hold>>

Finds(c, what) == found' = [found EXCEPT ![c] = what] /\ UNCHANGED <<key, hold>>

\* result or {}, result or [], and whatever the script returns.
RunsHGetAll(c) == call[c] = "hgetall" /\ \E what \in {"empty", "data"} : Finds(c, what)
RunsLRange(c) == call[c] = "lrange" /\ \E what \in {"empty", "data"} : Finds(c, what)
RunsLua(c) == call[c] = "lua" /\ Finds(c, "data")

\* Slip: the wrapper does not pass nx on.
RunsPlainSet(c) ==
    /\ call[c] = "set"
    /\ found' = [found EXCEPT ![c] = "set"]
    /\ key' = c /\ hold' = HoldTime

RunsSet(c) ==
    /\ call[c] = "set"
    /\ found' = [found EXCEPT ![c] = IF key = NoOne THEN "set" ELSE "held"]
    /\ RedisSets(c)

Runs(c) ==
    /\ redis /\ found[c] = "none"
    /\ RunsHGetAll(c) \/ RunsLRange(c) \/ RunsLua(c) \/ RunsSet(c)
    /\ UNCHANGED <<breaker, call, elapsed, stray, claimed, redis, opa, told, word>>

Strays(c) ==
    /\ c \in stray /\ stray' = stray \ {c}
    /\ \/ RedisSets(c)
       \/ UNCHANGED <<key, hold>>
    /\ UNCHANGED <<breaker, call, elapsed, found, claimed, redis, opa, told, word>>

LeaveBehind(c) ==
    stray' = IF redis /\ call[c] = "set" /\ found[c] = "none" THEN stray \cup {c} ELSE stray

Replies(c) ==
    /\ c \in Running /\ found[c] # "none"
    /\ OnSuccess
    /\ claimed' = IF found[c] = "set" THEN claimed \cup {c} ELSE claimed
    /\ Return(c, "returned")
    /\ UNCHANGED <<stray, key, hold, redis, opa, word>>

\* No client, a connection or response error, or the time limit: all the same to the breaker.
Fails(c) ==
    /\ c \in Running
    /\ OnFailure
    /\ LeaveBehind(c)
    /\ Return(c, "raised")
    /\ UNCHANGED <<key, hold, claimed, redis, opa, word>>

TimesOut(c) == elapsed[c] = CallTime /\ Fails(c)

Cancel(c) ==
    /\ c \in Running
    /\ OnCancel
    /\ LeaveBehind(c)
    /\ Return(c, "raised")
    /\ UNCHANGED <<key, hold, claimed, redis, opa, word>>

-----------------------------------------------------------------------------
(* opa_policy_check, which no breaker guards, and the client it shares. *)

CloseClients ==
    /\ opa = "open" /\ opa' = "closed"
    /\ UNCHANGED <<breaker, call, elapsed, found, server, redis, told, word>>

AskOpa(c) ==
    /\ "opa" \in Uses[c]
    /\ Await(c, "opa")
    /\ word' = word \ {c}
    /\ UNCHANGED <<breaker, server, redis, opa>>

\* Strict schema: only a 200 with a true result.allow is a permission.
Permits(reply) == reply = "allow"

OpaAnswers(c, reply) ==
    /\ call[c] = "opa" /\ opa = "open"
    /\ word' = IF reply = "allow" THEN word \cup {c} ELSE word
    /\ Return(c, IF Permits(reply) THEN "permitted" ELSE "raised")
    /\ UNCHANGED <<breaker, server, redis, opa>>

\* No URL, no client or a closed one, an error on the way, or the time limit: denied.
OpaFails(c) ==
    /\ call[c] = "opa"
    /\ Return(c, "raised")
    /\ UNCHANGED <<breaker, server, redis, opa, word>>

Tick ==
    /\ \A c \in Callers : call[c] # "none" => elapsed[c] < CallTime
    /\ elapsed' = [c \in Callers |-> IF call[c] = "none" THEN 0 ELSE elapsed[c] + 1]
    /\ sinceFailure' = Capped(sinceFailure + 1, RecoveryTimeout)
    /\ hold' = IF hold = 0 THEN 0 ELSE hold - 1
    /\ key' = IF hold' = 0 THEN NoOne ELSE key
    /\ claimed' = IF hold' = 0 THEN {} ELSE claimed
    /\ UNCHANGED <<state, failures, halfOpenCalls, lostProbe, call, found, stray, redis, opa, told, word>>

Next ==
    \/ CloseClients \/ Tick
    \/ \E c \in Callers :
          \/ \E op \in RedisOps \cap Uses[c] : Enter(c, op)
          \/ Refuse(c) \/ Runs(c) \/ Strays(c) \/ Replies(c) \/ Fails(c) \/ Cancel(c)
          \/ AskOpa(c) \/ OpaFails(c)
          \/ \E reply \in OpaReplies : OpaAnswers(c, reply)

\* wait_for ends a call in time, and time goes on.
Fairness == WF_vars(Tick) /\ \A c \in Callers : WF_vars(TimesOut(c)) /\ WF_vars(OpaFails(c))

Spec == Init /\ [][Next]_vars /\ Fairness
-----------------------------------------------------------------------------
(* What is checked. *)

\* The breaker is closed exactly while fewer failures than the threshold have been counted
\* since it last closed, whichever calls they belong to and however late they end.
ClosedBelowThreshold == state = "closed" <=> failures < FailureThreshold

\* In a trial at most half_open_max_calls calls run: none that began before the breaker opened
\* is left, so no late answer of an old call decides the trial (call(), lines 105 to 157).
TrialAlone == state = "half_open" => Cardinality(Running) <= HalfOpenMaxCalls

\* While a key holds, at most one caller was told by redis_set that it set it, and it did,
\* whatever commands of callers that gave up Redis still runs.
ClaimExclusive == claimed \subseteq {key} \ {NoOne}

\* Nobody is let through by opa_policy_check without OPA's own word for that very question:
\* no timeout, fault, malformed reply or closed client turns into a permission.
PermitsOnWord == \A c \in Callers : told[c] = "permitted" => c \in word

\* What a wrapper tells its caller is what the dependency did, in both of these respects.
AnswersTrue == ClaimExclusive /\ PermitsOnWord

\* The breaker under concurrent calls, timeouts and cancellations keeps its promise.
Promise == INSTANCE BreakerPromise WITH
    mode <- state, rest <- sinceFailure, running <- Running,
    Rest <- RecoveryTimeout, Trials <- HalfOpenMaxCalls
KeepsPromise == Promise!Spec

\* A trial ends, unless one of its calls is cancelled.
TrialEnds == (state = "half_open" /\ ~lostProbe) ~> (state # "half_open" \/ lostProbe)

\* Every trial ends.
TrialAlwaysEnds == state = "half_open" ~> state # "half_open"
=============================================================================
