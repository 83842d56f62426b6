-------------------------- MODULE GatewayPipeline --------------------------
(***************************************************************************)
(* The request pipeline of the gateway (app/pipeline.py, process_request): *)
(* several requests are coroutines of one event loop, so a request runs    *)
(* without interruption between two awaits and every await of a Redis or   *)
(* HTTP call is a point where the others move and time passes.             *)
(*                                                                         *)
(* A request walks the steps in the order of process_request               *)
(*    global rate (1) - JWT (2) - replay (4b) - session (3) - RBAC (4) -   *)
(*    agent rate (5) - sequence (6) - triage (7) - decision (8)            *)
(* against two kinds of shared state: the Redis keys, and the process-wide *)
(* fallbacks (InMemoryRateLimiter, ReplayProtection) that stand in for     *)
(* steps 1 and 4b when Redis fails.                                        *)
(*                                                                         *)
(* A Redis call has the outcomes a client can see.  The reply arrives; or  *)
(* the first attempt times out after it took effect and redis-py, built    *)
(* with retry_on_timeout, sends the command again and delivers the second  *)
(* reply; or the client gives up with an exception, and the command took   *)
(* effect on no attempt, on one, or on both.  The last two are faults,     *)
(* at most MaxFaults of them.                                              *)
(***************************************************************************)
EXTENDS Integers, FiniteSets

CONSTANTS
    Requests,      \* calls of process_request
    Ids,           \* request ids (the X-Request-ID header)
    Agents,
    Tools,
    IdOf,          \* [Requests -> Ids]
    AgentOf,       \* [Requests -> Agents]
    ToolOf,        \* [Requests -> Tools]
    Prereqs,       \* [Tools -> SUBSET Tools], the loaded sequence rules
    Mentions,      \* [Tools -> SUBSET Tools], tools whose event text contains this name
    GlobalLimit,   \* 10000 requests ...
    GlobalWindow,  \* ... in 1 second
    ReplayTTL,     \* 30 seconds
    AgentLimit,    \* 100 requests ...
    AgentWindow,   \* ... in 60 seconds
    MaxTime,       \* bound on the clock, in seconds
    MaxFaults      \* bound on Redis faults

ASSUME RequestsAssumption ==
    /\ IdOf \in [Requests -> Ids]
    /\ AgentOf \in [Requests -> Agents]
    /\ ToolOf \in [Requests -> Tools]

ASSUME RulesAssumption ==
    /\ Prereqs \in [Tools -> SUBSET Tools]
    /\ Mentions \in [Tools -> SUBSET Tools]

ASSUME LimitsAssumption ==
    /\ GlobalLimit \in Nat \ {0} /\ GlobalWindow \in Nat \ {0}
    /\ ReplayTTL \in Nat \ {0}
    /\ AgentLimit \in Nat \ {0} /\ AgentWindow \in Nat \ {0}
    /\ MaxTime \in Nat \ {0} /\ MaxFaults \in Nat

VARIABLES
    now,           \* time.time(), in seconds; 0 means "never" in the histories
    faults,        \* Redis faults so far
    redis,         \* app_state.redis is a client: init_redis decides it once
    rules,         \* app_state.sequence_rules is not empty: init_configs decides it once
    pc,            \* the step a request is at
    reason,        \* why it was decided
    stamp,         \* the time step 5 read before it awaited the script
    watch,         \* its WATCH on the sequence key: off, clean or dirty
    globalCount, globalExpires,    \* Redis key global_rps
    replayExpires,                 \* Redis keys replay:ID, by expiry time
    windowScores, windowExpires,   \* Redis sorted sets rate_limit:AGENT:TOOL
    sequence,                      \* Redis lists sequence:AGENT, as the tools in them
    memAdmits,                     \* InMemoryRateLimiter.requests
    memSeen,                       \* ReplayProtection.seen_requests
    admittedBy, admittedAt,        \* history: who let it through step 1; when the
                                   \* limiter did, or when the Redis key that counted it expires
    passedBy, passedAt             \* history: who let it through step 4b, and when

redisVars == <<globalCount, globalExpires, replayExpires, windowScores,
               windowExpires, sequence>>
memVars   == <<memAdmits, memSeen>>
history   == <<admittedBy, admittedAt, passedBy, passedAt>>
setup     == <<redis, rules>>
vars == <<now, faults, setup, pc, reason, stamp, watch, redisVars, memVars, history>>

Steps == {"global", "globalMem", "replay", "replayMem", "session", "rbac",
          "agentRate", "watch", "read", "exec", "triage", "done"}

Reasons == {"undecided", "rate", "registration", "duplicate", "policy", "violation",
            "triage", "degraded", "sandboxed", "passed"}

\* The except clauses of process_request: what each reason is decided as.
Decision(r) ==
    CASE reason[r] = "undecided" -> "none"
      [] reason[r] = "passed" -> "ALLOW"
      [] reason[r] \in {"degraded", "sandboxed"} -> "SANDBOX"
      [] OTHER -> "BLOCK"

Stores == {"none", "redis", "memory"}
Keys == Agents \X Tools
KeyOf(r) == <<AgentOf[r], ToolOf[r]>>

TypeOK ==
    /\ /\ now \in 1..MaxTime /\ faults \in 0..MaxFaults
       /\ redis \in BOOLEAN /\ rules \in BOOLEAN
       /\ pc \in [Requests -> Steps] /\ reason \in [Requests -> Reasons]
       /\ stamp \in [Requests -> Nat]
       /\ watch \in [Requests -> {"off", "clean", "dirty"}]
    /\ /\ globalCount \in 0..GlobalLimit /\ globalExpires \in Nat
       /\ replayExpires \in [Ids -> Nat]
       /\ windowScores \in [Keys -> SUBSET Nat] /\ windowExpires \in [Keys -> Nat]
       /\ sequence \in [Agents -> SUBSET Tools]
    /\ /\ memAdmits \in SUBSET (Requests \X Nat)
       /\ memSeen \in [Ids -> Nat]
    /\ /\ admittedBy \in [Requests -> Stores] /\ admittedAt \in [Requests -> Nat]
       /\ passedBy \in [Requests -> Stores] /\ passedAt \in [Requests -> Nat]

Init ==
    /\ now = 1 /\ faults = 0
    /\ redis \in BOOLEAN /\ rules \in BOOLEAN
    /\ pc = [r \in Requests |-> "global"]
    /\ reason = [r \in Requests |-> "undecided"]
    /\ stamp = [r \in Requests |-> 0]
    /\ watch = [r \in Requests |-> "off"]
    /\ globalCount = 0 /\ globalExpires = 0
    /\ replayExpires = [i \in Ids |-> 0]
    /\ windowScores = [k \in Keys |-> {}] /\ windowExpires = [k \in Keys |-> 0]
    /\ sequence = [a \in Agents |-> {}]
    /\ memAdmits = {} /\ memSeen = [i \in Ids |-> 0]
    /\ admittedBy = [r \in Requests |-> "none"]
    /\ admittedAt = [r \in Requests |-> 0]
    /\ passedBy = [r \in Requests |-> "none"]
    /\ passedAt = [r \in Requests |-> 0]

----------------------------------------------------------------------------
(* How a request moves, and what a Redis fault costs.                      *)

Goto(r, step) == pc' = [pc EXCEPT ![r] = step] /\ UNCHANGED reason
Decide(r, why) == pc' = [pc EXCEPT ![r] = "done"] /\ reason' = [reason EXCEPT ![r] = why]
Clean == UNCHANGED faults
Fault == faults < MaxFaults /\ faults' = faults + 1

----------------------------------------------------------------------------
(* Step 1: the global rate limit.                                          *)

\* Slip: INCR first, compare afterwards, and leave the count above the limit.
IncrFirst(n) ==
    /\ globalCount' = globalCount + n
    /\ globalExpires' = IF globalCount = 0 THEN now + GlobalWindow ELSE globalExpires

\* Slip: one request too many.
AdmitsOneMore(n) == globalCount + n <= GlobalLimit + 1

\* GLOBAL_RATE_LIMIT_SCRIPT counts within the life of one key; 0 is no key.
\* The key after the script ran n times, and whether the n-th run admitted.
GlobalScript(n) ==
    /\ globalCount' = IF globalCount + n <= GlobalLimit THEN globalCount + n ELSE GlobalLimit
    /\ globalExpires' = IF globalCount = 0 THEN now + GlobalWindow ELSE globalExpires
GlobalAdmits(n) == globalCount + n <= GlobalLimit

\* Step 2, the claims of the JWT, awaits nothing and keeps no state: a request let
\* through step 1 is on its way to step 4b or refused before anything else runs.
ValidateJwt(r) == Goto(r, "replay") \/ Decide(r, "registration")

Admit(r, store, at) ==
    /\ ValidateJwt(r)
    /\ admittedBy' = [admittedBy EXCEPT ![r] = store]
    /\ admittedAt' = [admittedAt EXCEPT ![r] = at]

GlobalReply(r, n) ==
    /\ GlobalScript(n)
    /\ \/ GlobalAdmits(n) /\ Admit(r, "redis", globalExpires')
       \/ ~GlobalAdmits(n) /\ Decide(r, "rate") /\ UNCHANGED <<admittedBy, admittedAt>>

GlobalRate(r) ==
    /\ pc[r] = "global" /\ redis
    /\ \/ Clean /\ GlobalReply(r, 1)
       \/ Fault /\ GlobalReply(r, 2)
       \/ /\ Fault /\ Goto(r, "globalMem")
          /\ \/ \E n \in {1, 2} : GlobalScript(n)
             \/ UNCHANGED <<globalCount, globalExpires>>
          /\ UNCHANGED <<admittedBy, admittedAt>>
    /\ UNCHANGED <<now, setup, stamp, watch, replayExpires, windowScores, windowExpires,
                   sequence, memVars, passedBy, passedAt>>

\* The entries InMemoryRateLimiter.is_allowed keeps.
MemLive == {e \in memAdmits : e[2] > now - GlobalWindow}

GlobalRateInMemory(r) ==
    /\ pc[r] = "globalMem" \/ (pc[r] = "global" /\ ~redis)
    /\ \/ /\ Cardinality(MemLive) < GlobalLimit
          /\ memAdmits' = MemLive \cup {<<r, now>>}
          /\ Admit(r, "memory", now)
       \/ /\ Cardinality(MemLive) >= GlobalLimit
          /\ memAdmits' = MemLive
          /\ Decide(r, "rate") /\ UNCHANGED <<admittedBy, admittedAt>>
    /\ UNCHANGED <<now, faults, setup, stamp, watch, redisVars, memSeen, passedBy, passedAt>>

----------------------------------------------------------------------------
(* Step 4b: replay protection, SET NX EX with an in-memory fallback.       *)

\* Slip: a replay key that does not name the request.
HeldByAnyId(i) == \E j \in Ids : replayExpires[j] # 0

ReplayHeld(i) == replayExpires[i] # 0
SetReplay(i) ==
    replayExpires' = IF ReplayHeld(i) THEN replayExpires
                     ELSE [replayExpires EXCEPT ![i] = now + ReplayTTL]

Pass(r, store) ==
    /\ Goto(r, "session")
    /\ passedBy' = [passedBy EXCEPT ![r] = store]
    /\ passedAt' = [passedAt EXCEPT ![r] = now]

Replay(r) ==
    LET i == IdOf[r] IN
    /\ pc[r] = "replay" /\ redis
    /\ \/ Clean /\ ~ReplayHeld(i) /\ SetReplay(i) /\ Pass(r, "redis")
       \/ /\ Clean /\ ReplayHeld(i) /\ UNCHANGED replayExpires
          /\ Decide(r, "duplicate") /\ UNCHANGED <<passedBy, passedAt>>
       \* the retried SET NX finds the key, be it the one its first attempt set
       \/ /\ Fault /\ SetReplay(i)
          /\ Decide(r, "duplicate") /\ UNCHANGED <<passedBy, passedAt>>
       \/ /\ Fault /\ (SetReplay(i) \/ UNCHANGED replayExpires)
          /\ Goto(r, "replayMem") /\ UNCHANGED <<passedBy, passedAt>>
    /\ UNCHANGED <<now, setup, stamp, watch, globalCount, globalExpires, windowScores,
                   windowExpires, sequence, memVars, admittedBy, admittedAt>>

\* Slip: the entry is dropped a second early.
SeenUntilTooEarly(i) == memSeen[i] # 0 /\ now - memSeen[i] < ReplayTTL - 1

\* ReplayProtection.check_replay; 0 is an id not seen.
SeenLive(i) == memSeen[i] # 0 /\ now - memSeen[i] < ReplayTTL
SeenPruned == [i \in Ids |-> IF SeenLive(i) THEN memSeen[i] ELSE 0]

ReplayInMemory(r) ==
    LET i == IdOf[r] IN
    /\ pc[r] = "replayMem" \/ (pc[r] = "replay" /\ ~redis)
    /\ \/ /\ ~SeenLive(i)
          /\ memSeen' = [SeenPruned EXCEPT ![i] = now]
          /\ Pass(r, "memory")
       \/ /\ SeenLive(i)
          /\ memSeen' = SeenPruned
          /\ Decide(r, "duplicate") /\ UNCHANGED <<passedBy, passedAt>>
    /\ UNCHANGED <<now, faults, setup, stamp, watch, redisVars, memAdmits,
                   admittedBy, admittedAt>>

----------------------------------------------------------------------------
(* Steps 3 and 4: the session and the policy are read, never written here. *)

\* Missing, expired, malformed or of another role: all are a refusal.
SessionLookup(r) ==
    /\ pc[r] = "session"
    /\ \/ redis /\ Clean /\ (Goto(r, "rbac") \/ Decide(r, "registration"))
       \/ redis /\ Fault /\ Decide(r, "degraded")
       \/ ~redis /\ Clean /\ Decide(r, "degraded")
    /\ UNCHANGED <<now, setup, stamp, watch, redisVars, memVars, history>>

\* No OPA, a timeout, a non-200 or an unusable reply all deny.  A request that is
\* allowed reads the clock for step 5 at once; the script uses that time when Redis
\* gets to run it.
RbacCheck(r) ==
    /\ pc[r] = "rbac"
    /\ \/ Goto(r, "agentRate") /\ stamp' = [stamp EXCEPT ![r] = now]
       \/ Decide(r, "policy") /\ UNCHANGED stamp
    /\ UNCHANGED <<now, faults, setup, watch, redisVars, memVars, history>>

----------------------------------------------------------------------------
(* Step 5: the per-agent window.  A request that has come this far has a   *)
(* Redis client, or step 3 would have decided it.                          *)

\* What ZREMRANGEBYSCORE leaves of the set for a caller whose time is t.
InWindow(k, t) == {s \in windowScores[k] : s > t - AgentWindow}

\* The member added is "T:math.random()": Redis seeds math.random alike for
\* every run of a script, so one second has one member.
WindowAfter(k, t) ==
    IF Cardinality(InWindow(k, t)) < AgentLimit THEN InWindow(k, t) \cup {t} ELSE InWindow(k, t)

AgentAdmits(k, t, n) ==
    /\ Cardinality(InWindow(k, t)) < AgentLimit
    /\ n = 2 => Cardinality(InWindow(k, t) \cup {t}) < AgentLimit

AgentScript(k, t) ==
    /\ windowScores' = [windowScores EXCEPT ![k] = WindowAfter(k, t)]
    /\ windowExpires' = IF AgentAdmits(k, t, 1)
                        THEN [windowExpires EXCEPT ![k] = now + AgentWindow]
                        ELSE windowExpires

AgentReply(r, n) ==
    /\ AgentScript(KeyOf(r), stamp[r])
    /\ \/ AgentAdmits(KeyOf(r), stamp[r], n) /\ Goto(r, "watch")
       \/ ~AgentAdmits(KeyOf(r), stamp[r], n) /\ Decide(r, "rate")

AgentRate(r) ==
    /\ pc[r] = "agentRate"
    /\ \/ Clean /\ AgentReply(r, 1)
       \/ Fault /\ AgentReply(r, 2)
       \/ /\ Fault /\ Decide(r, "degraded")
          /\ AgentScript(KeyOf(r), stamp[r]) \/ UNCHANGED <<windowScores, windowExpires>>
    /\ UNCHANGED <<now, setup, stamp, watch, globalCount, globalExpires, replayExpires,
                   sequence, memVars, history>>

----------------------------------------------------------------------------
(* Step 6: WATCH, LRANGE, the rules on that snapshot, MULTI ... EXEC.      *)

Unwatch(r) == watch' = [watch EXCEPT ![r] = "off"]

Watch(r) ==
    /\ pc[r] = "watch"
    /\ \/ ~rules /\ Clean /\ Goto(r, "triage") /\ UNCHANGED watch
       \/ rules /\ Clean /\ Goto(r, "read") /\ watch' = [watch EXCEPT ![r] = "clean"]
       \/ rules /\ Fault /\ Decide(r, "degraded") /\ UNCHANGED watch
    /\ UNCHANGED <<now, setup, stamp, redisVars, memVars, history>>

\* `prereq in seq` looks for the prerequisite's name inside the event's text.
RulesHold(t, events) == \A p \in Prereqs[t] : events \cap Mentions[p] # {}

ReadSequence(r) ==
    LET holds == RulesHold(ToolOf[r], sequence[AgentOf[r]]) IN
    /\ pc[r] = "read"
    /\ \/ Clean /\ holds /\ Goto(r, "exec") /\ UNCHANGED watch
       \/ Clean /\ ~holds /\ Decide(r, "violation") /\ Unwatch(r)
       \/ Fault /\ Decide(r, "degraded") /\ Unwatch(r)
    /\ UNCHANGED <<now, setup, stamp, redisVars, memVars, history>>

\* Slip: RPUSH outside of the watched transaction.
PushUnguarded(r) ==
    /\ sequence' = [sequence EXCEPT ![AgentOf[r]] = @ \cup {ToolOf[r]}]
    /\ watch' = [watch EXCEPT ![r] = "off"]

\* EXEC pushes the event and dirties every other watcher of the list.
Push(r) ==
    /\ watch[r] = "clean"
    /\ sequence' = [sequence EXCEPT ![AgentOf[r]] = @ \cup {ToolOf[r]}]
    /\ watch' = [s \in Requests |->
                    IF s = r THEN "off"
                    ELSE IF AgentOf[s] = AgentOf[r] /\ watch[s] = "clean" THEN "dirty"
                    ELSE watch[s]]

\* A dirty WATCH makes EXEC raise WatchError, which the step reports as a
\* degraded Redis; an exception on a watched connection is not retried.
ExecSequence(r) ==
    /\ pc[r] = "exec"
    /\ \/ Clean /\ Push(r) /\ Goto(r, "triage")
       \/ Clean /\ watch[r] = "dirty" /\ Decide(r, "degraded") /\ Unwatch(r) /\ UNCHANGED sequence
       \/ Fault /\ Decide(r, "degraded") /\ Push(r)
       \/ Fault /\ Decide(r, "degraded") /\ Unwatch(r) /\ UNCHANGED sequence
    /\ UNCHANGED <<now, setup, stamp, globalCount, globalExpires, replayExpires,
                   windowScores, windowExpires, memVars, history>>

\* The list lives an hour after its last push; an expired key also dirties.
SequenceExpires(a) ==
    /\ sequence[a] # {}
    /\ sequence' = [sequence EXCEPT ![a] = {}]
    /\ watch' = [s \in Requests |->
                    IF AgentOf[s] = a /\ watch[s] = "clean" THEN "dirty" ELSE watch[s]]
    /\ UNCHANGED <<now, faults, setup, pc, reason, stamp, globalCount, globalExpires,
                   replayExpires, windowScores, windowExpires, memVars, history>>

----------------------------------------------------------------------------
(* Steps 7 and 8.  An unset TRIAGE_URL counts as a verdict of ALLOW; a     *)
(* timeout, a non-200, a malformed reply or an exception as SANDBOX.       *)

Triage(r) ==
    /\ pc[r] = "triage"
    /\ \E verdict \in {"passed", "sandboxed", "triage"} : Decide(r, verdict)
    /\ UNCHANGED <<now, faults, setup, stamp, watch, redisVars, memVars, history>>

\* A second passes, and the Redis keys whose time has come are gone.
Tick ==
    /\ now < MaxTime
    /\ now' = now + 1
    /\ IF globalExpires = now' THEN globalCount' = 0 /\ globalExpires' = 0
       ELSE UNCHANGED <<globalCount, globalExpires>>
    /\ replayExpires' = [i \in Ids |-> IF replayExpires[i] = now' THEN 0 ELSE replayExpires[i]]
    /\ windowScores' = [k \in Keys |-> IF windowExpires[k] = now' THEN {} ELSE windowScores[k]]
    /\ windowExpires' = [k \in Keys |-> IF windowExpires[k] = now' THEN 0 ELSE windowExpires[k]]
    /\ UNCHANGED <<faults, setup, pc, reason, stamp, watch, sequence, memVars, history>>

Finished ==
    /\ \A r \in Requests : pc[r] = "done"
    /\ UNCHANGED vars

Step(r) ==
    \/ GlobalRate(r) \/ GlobalRateInMemory(r) \/ Replay(r) \/ ReplayInMemory(r)
    \/ SessionLookup(r) \/ RbacCheck(r) \/ AgentRate(r)
    \/ Watch(r) \/ ReadSequence(r) \/ ExecSequence(r) \/ Triage(r)

Next ==
    \/ \E r \in Requests : Step(r)
    \/ \E a \in Agents : SequenceExpires(a)
    \/ Tick
    \/ Finished

Spec == Init /\ [][Next]_vars

----------------------------------------------------------------------------
(* Properties.                                                             *)

SameId(r, s) == r # s /\ IdOf[r] = IdOf[s]

\* Within one store an id is let through at most once per ReplayTTL, however the
\* calls of step_4b_replay_protection interleave and whichever replies are lost:
\* a duplicate gets through only by meeting the other store.
ReplayPerStore ==
    \A r, s \in Requests :
        /\ SameId(r, s) /\ passedBy[r] = passedBy[s] /\ passedBy[r] # "none"
        /\ passedAt[r] <= passedAt[s]
        => passedAt[s] - passedAt[r] >= ReplayTTL

\* Every event of an agent's sequence list was pushed when the list named all of
\* its prerequisites: WATCH covers what happens between LRANGE and EXEC in
\* step_6_sequence_analysis, the list's expiry included.
SequenceJustified ==
    \A a \in Agents : \A t \in sequence[a] : RulesHold(t, sequence[a])

\* What step_1_global_rate_limit lets through: the in-memory limiter at most the limit
\* in any window, the Redis key at most the limit in each of its lives, and two lives
\* begin at least a window apart.
GlobalBudget ==
    /\ \A t \in 1..now :
          Cardinality({r \in Requests : /\ admittedBy[r] = "memory"
                                        /\ t - GlobalWindow < admittedAt[r]
                                        /\ admittedAt[r] <= t}) <= GlobalLimit
    /\ \A r, s \in Requests :
          admittedBy[r] = "redis" /\ admittedBy[s] = "redis" /\ admittedAt[r] < admittedAt[s]
          => admittedAt[s] - admittedAt[r] >= GlobalWindow
    /\ \A r \in Requests :
          Cardinality({s \in Requests : /\ admittedBy[s] = "redis" /\ admittedBy[r] = "redis"
                                        /\ admittedAt[s] = admittedAt[r]}) <= GlobalLimit

\* While no Redis call has failed, a request is refused as a duplicate only when
\* another request with its id was let through less than ReplayTTL ago.  (A retried
\* SET NX breaks this: the request meets the key of its own first attempt.)
Refused(r) == reason[r] # "duplicate" /\ reason'[r] = "duplicate"
FreshNotDuplicate ==
    [][faults = 0 /\ faults' = 0 =>
        \A r \in Requests : Refused(r) =>
            \E s \in Requests : /\ SameId(r, s) /\ passedBy[s] # "none"
                               /\ now - passedAt[s] < ReplayTTL]_vars

PastAgentRate(r) ==
    \/ pc[r] \in {"watch", "read", "exec", "triage"}
    \/ reason[r] \in {"violation", "triage", "sandboxed", "passed"}

\* pipeline.py:873 "Per-agent/tool limit: 100 req/min": no window of AgentWindow
\* seconds holds more than AgentLimit requests that step 5 let through.
AgentBudget ==
    \A k \in Keys : \A t \in 1..now :
        Cardinality({r \in Requests : /\ KeyOf(r) = k /\ PastAgentRate(r)
                                      /\ t - AgentWindow < stamp[r] /\ stamp[r] <= t})
            <= AgentLimit
=============================================================================
