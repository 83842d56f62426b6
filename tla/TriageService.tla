--------------------------- MODULE TriageService ---------------------------
(***************************************************************************)
(* AgentGuard-X, the triage service: POST /triage and POST /execute of     *)
(* triage/main.py over run_pipeline.  Requests are coroutines of one event *)
(* loop; the Redis client is synchronous, so a call made on the loop lets  *)
(* nobody else onto the loop, while stage 5 reads and writes the session   *)
(* from executor threads that run beside it.                               *)
(*                                                                         *)
(* A Redis call may fail: a fault, at most MaxFaults of them.  No caller   *)
(* sees the failure, since redis_store and the stages catch it; one that   *)
(* fails after it took effect is told apart only where the reply is used.  *)
(* OPA (stage 3) and the knowledge base (stage 4) are external: any answer *)
(* the stage tells apart, or none.                                         *)
(***************************************************************************)
EXTENDS TriageScoring, SequencesExt

CONSTANTS
    Requests, Agents, Sessions,
    Entry,            \* [Requests -> {"triage", "execute"}]
    AgentOf,          \* [Requests -> Agents]
    SessionOf,        \* [Requests -> Sessions]
    ToolOf, RawOf,    \* the tool of a request and its tool_input_raw
    Refused,          \* the requests whose identity stage 1 (or /execute's lookup) refuses
    Baseline,         \* the events of the role's baseline
    SigScores,        \* scores of stage 2 (9500 and more is an instant kill)
    RagHits,          \* the best hit of stage 4, as <<similarity, false_positive_rate>>
    RateLimit, RateWindow,      \* 20 to 60 requests in 60 seconds, by role
    CallBudget, BudgetWindow,   \* 500 to 2000 calls, a key of 86400 seconds
    LogMax, StreamMax,          \* what the two LTRIMs leave: 100 decisions, 1000 events
    SessionTTL,                 \* SETEX of an agent's session, 86400 seconds
    MaxTime, MaxFaults          \* bounds on the clock and on Redis faults

ASSUME ServiceAssumption ==
    /\ Entry \in [Requests -> {"triage", "execute"}]
    /\ AgentOf \in [Requests -> Agents] /\ SessionOf \in [Requests -> Sessions]
    /\ Refused \subseteq Requests
    /\ SigScores \subseteq Scores /\ RagHits \subseteq Scores \X Scores
    /\ RateLimit \in Nat \ {0} /\ RateWindow \in Nat \ {0}
    /\ CallBudget \in Nat \ {0} /\ BudgetWindow \in Nat \ {0}
    /\ LogMax \in Nat \ {0} /\ StreamMax \in Nat \ {0} /\ SessionTTL \in Nat \ {0}
    /\ MaxTime \in Nat \ {0} /\ MaxFaults \in Nat

VARIABLES
    now, faults,
    pc,            \* idle, opening, gather, stages, done
    drift,         \* stage 5: none, reading, read, scored, timeout
    arrived,       \* TriageRequest.timestamp
    signals,       \* the signals of its drift
    limits,        \* the limits it exceeded: "rate" (stage 6), "budget" (stage 7)
    usage,         \* the score of stage 7 when the budget is not exceeded
    reply,         \* the answer, as ALLOW, SANDBOX or BLOCKED
    opened,        \* Redis: the sessions whose key exists
    session,       \* Redis: agentguard:session:ID
    rate,          \* Redis: agentguard:rate:AGENT, as <<request, time>>
    calls, callsExpire,                    \* Redis: agentguard:budget:api:AGENT
    agentSession, agentExpire,             \* Redis: session:AGENT, a key with an expiry
    counters, decisions,                   \* Redis: verdict:VERDICT and decisions:AGENT
    stream,        \* Redis: agentguard:events
    ledger,        \* history: every event appended to a session
    rated,         \* history: when stage 6 let it pass, 0 if it did not get to say so
    budgeted,      \* history: the same for stage 7
    denied,        \* history: OPA denied it
    told           \* history: the verdicts /execute gave for an agent, with their times

redisVars == <<opened, session, rate, calls, callsExpire, agentSession, agentExpire, counters,
               decisions, stream>>
history == <<ledger, rated, budgeted, denied, told>>
vars == <<now, faults, pc, drift, arrived, signals, limits, usage, reply, redisVars, history>>

Verdicts == {"ALLOW", "SANDBOX", "BLOCKED"}
Per(S, x) == [e \in S |-> x]

TypeOK ==
    /\ now \in 1..MaxTime /\ faults \in 0..MaxFaults
    /\ pc \in [Requests -> {"idle", "opening", "gather", "stages", "done"}]
    /\ drift \in [Requests -> {"none", "reading", "read", "scored", "timeout"}]
    /\ signals \in [Requests -> SUBSET DOMAIN SignalScore]
    /\ limits \in [Requests -> SUBSET {"rate", "budget"}]
    /\ usage \in [Requests -> Scores]
    /\ reply \in [Requests -> Verdicts \cup {"none"}]
    /\ opened \subseteq Sessions
    /\ \A s \in Sessions : Len(session[s]) <= SessionWindow
    /\ rate \in [Agents -> SUBSET (Requests \X (1..MaxTime))]
    /\ calls \in [Agents -> Nat] /\ callsExpire \in [Agents -> Nat]
    /\ counters \in [Verdicts -> Nat]
    /\ agentExpire \in [Agents -> Nat]
    /\ \A a \in Agents : /\ agentSession[a] \in Seq(Verdicts)
                         /\ decisions[a] \in Seq(Verdicts) /\ Len(decisions[a]) <= LogMax

Init ==
    /\ now = 1 /\ faults = 0
    /\ pc = Per(Requests, "idle") /\ drift = Per(Requests, "none")
    /\ arrived = Per(Requests, 0) /\ signals = Per(Requests, {})
    /\ limits = Per(Requests, {}) /\ usage = Per(Requests, 0)
    /\ reply = Per(Requests, "none")
    /\ opened = {} /\ session = Per(Sessions, <<>>)
    /\ rate = Per(Agents, {}) /\ calls = Per(Agents, 0) /\ callsExpire = Per(Agents, 0)
    /\ agentSession = Per(Agents, <<>>) /\ agentExpire = Per(Agents, 0)
    /\ counters = Per(Verdicts, 0) /\ told = Per(Agents, <<>>)
    /\ decisions = Per(Agents, <<>>) /\ stream = <<>>
    /\ ledger = Per(Sessions, <<>>) /\ rated = Per(Requests, 0) /\ budgeted = Per(Requests, 0)
    /\ denied = {}

----------------------------------------------------------------------------

Finish(r) == pc' = [pc EXCEPT ![r] = "done"]
Clean == UNCHANGED faults
Faults(n) == faults + n <= MaxFaults /\ faults' = faults + n

\* init_session awaits nothing: nothing else runs on the loop between its two calls.
LoopFree == \A r \in Requests : pc[r] # "opening"

DriftEvent(r) == [tool |-> ToolOf[r], raw |-> RawOf[r], time |-> arrived[r]]
\* What /triage and /execute append after the decision has no tool_input_raw.
ReplyEvent(r) == [tool |-> ToolOf[r], raw |-> "",
                  time |-> IF Entry[r] = "execute" THEN now ELSE arrived'[r]]

Record(s, e) ==
    /\ session' = [session EXCEPT ![s] = AppendEvent(@, e)]
    /\ opened' = opened \cup {s}
    /\ ledger' = [ledger EXCEPT ![s] = Append(@, e)]

----------------------------------------------------------------------------
(* The answer, and what is recorded of it.                                 *)

Writes(r, screened) ==
    (IF Entry[r] = "execute" THEN {"agentSession", "counter", "decision"} ELSE {})
        \cup (IF screened THEN {"stream", "session"} ELSE {})

\* LPUSH and LTRIM.
Pushed(x, list, max) == SubSeq(<<x>> \o list, 1, IF Len(list) < max THEN Len(list) + 1 ELSE max)

\* Slip: the expiry is set when the key is created, and left alone after.
StoreExpiringOnce(a, verdict) ==
    /\ agentSession' = [agentSession EXCEPT ![a] = Append(@, verdict)]
    /\ agentExpire' = [agentExpire EXCEPT ![a] = IF agentSession[a] = <<>> THEN now + SessionTTL
                                                ELSE @]

\* The decisions of store_agent_session: GET, append, SETEX.
StoreAgentSession(a, verdict) ==
    /\ agentSession' = [agentSession EXCEPT ![a] = Append(@, verdict)]
    /\ agentExpire' = [agentExpire EXCEPT ![a] = now + SessionTTL]

\* Every write is tried and each may fail; nobody looks at its reply.
Answer(r, verdict, screened) ==
    LET a == AgentOf[r] IN
    /\ reply' = [reply EXCEPT ![r] = verdict]
    /\ told' = IF Entry[r] = "execute"
               THEN [told EXCEPT ![a] = Append(@, [verdict |-> verdict, at |-> now])] ELSE told
    /\ \E done \in SUBSET Writes(r, screened) :
          /\ faults' = faults + Cardinality(Writes(r, screened) \ done)
          /\ faults' <= MaxFaults
          /\ IF "agentSession" \in done THEN StoreAgentSession(a, verdict)
             ELSE UNCHANGED <<agentSession, agentExpire>>
          /\ counters' = IF "counter" \in done
                         THEN [counters EXCEPT ![verdict] = @ + 1] ELSE counters
          /\ decisions' = IF "decision" \in done
                          THEN [decisions EXCEPT ![a] = Pushed(verdict, @, LogMax)] ELSE decisions
          /\ stream' = IF "stream" \in done THEN Pushed(r, stream, StreamMax) ELSE stream
          /\ IF "session" \in done THEN Record(SessionOf[r], ReplyEvent(r))
             ELSE UNCHANGED <<session, opened, ledger>>

Untouched == UNCHANGED <<now, drift, signals, limits, usage, rate, calls, callsExpire,
                         rated, budgeted>>

\* Slip: init_session does not look before it sets.
NeverOpened(r) == FALSE

KeyExists(r) == SessionOf[r] \in opened

\* The entry points up to stage 1.  An agent /execute does not know never reaches the
\* pipeline; an identity stage 1 refuses is blocked at once.
Arrive(r) ==
    /\ pc[r] = "idle" /\ LoopFree
    /\ arrived' = [arrived EXCEPT ![r] = now]
    /\ IF r \in Refused THEN Finish(r) /\ Answer(r, "BLOCKED", Entry[r] = "triage") /\ Untouched
       ELSE /\ \/ Clean /\ pc' = [pc EXCEPT ![r] = IF KeyExists(r) THEN "gather" ELSE "opening"]
               \/ Faults(1) /\ pc' = [pc EXCEPT ![r] = "gather"]
            /\ UNCHANGED <<now, drift, signals, limits, usage, reply, redisVars, ledger,
                           rated, budgeted, told>>
    /\ UNCHANGED denied

\* init_session's SET, after EXISTS said there is no such key.
OpenSession(r) ==
    /\ pc[r] = "opening"
    /\ pc' = [pc EXCEPT ![r] = "gather"]
    /\ \/ /\ Clean
          /\ session' = [session EXCEPT ![SessionOf[r]] = <<>>]
          /\ opened' = opened \cup {SessionOf[r]}
       \/ Faults(1) /\ UNCHANGED <<session, opened>>
    /\ UNCHANGED <<now, drift, arrived, signals, limits, usage, reply, rate, calls,
                   callsExpire, agentSession, agentExpire, counters, decisions, stream, ledger,
                   rated, budgeted, denied, told>>

----------------------------------------------------------------------------
(* The stages.  asyncio.gather starts them in one go: stages 6 and 7 run   *)
(* to their end, stage 5 hands its read to a thread.                       *)

\* Slip: members named by the second alone.
RateBySecond(r) ==
    {e \in rate[AgentOf[r]] : e[2] > now - RateWindow /\ e[2] # now} \cup {<<r, now>>}

RateAfter(r) == {e \in rate[AgentOf[r]] : e[2] > now - RateWindow} \cup {<<r, now>>}

\* A failed stage 6 lets the request pass.
RateStage(r, failed, over) ==
    /\ over <=> ~failed /\ Cardinality(RateAfter(r)) > RateLimit
    /\ \/ rate' = [rate EXCEPT ![AgentOf[r]] = RateAfter(r)]
       \/ failed /\ UNCHANGED rate
    /\ rated' = [rated EXCEPT ![r] = IF failed \/ over THEN 0 ELSE now]

\* Slip: the counter is compared before it is incremented.
BudgetReadFirst(r, failed, over) ==
    LET used == calls[AgentOf[r]] IN
    /\ over <=> ~failed /\ used > CallBudget
    /\ \/ /\ calls' = [calls EXCEPT ![AgentOf[r]] = used + 1]
          /\ callsExpire' = [callsExpire EXCEPT ![AgentOf[r]] = now + BudgetWindow]
       \/ failed /\ UNCHANGED <<calls, callsExpire>>
    /\ usage' = [usage EXCEPT ![r] = 0]
    /\ budgeted' = [budgeted EXCEPT ![r] = IF failed \/ over THEN 0 ELSE now]

\* Slip: the usage score is computed for an exceeded budget as well.
BudgetFallsThrough(r, failed, over) ==
    LET used == calls[AgentOf[r]] + 1 IN
    /\ over <=> ~failed /\ used > CallBudget
    /\ calls' = [calls EXCEPT ![AgentOf[r]] = used]
    /\ callsExpire' = [callsExpire EXCEPT ![AgentOf[r]] = now + BudgetWindow]
    /\ usage' = [usage EXCEPT ![r] = (20000 * used) \div CallBudget - 17000]
    /\ budgeted' = [budgeted EXCEPT ![r] = IF failed \/ over THEN 0 ELSE now]

\* So does a failed stage 7.
BudgetStage(r, failed, over) ==
    LET used == calls[AgentOf[r]] + 1 IN
    /\ over <=> ~failed /\ used > CallBudget
    /\ \/ /\ calls' = [calls EXCEPT ![AgentOf[r]] = used]
          /\ callsExpire' = [callsExpire EXCEPT ![AgentOf[r]] = now + BudgetWindow]
       \/ failed /\ UNCHANGED <<calls, callsExpire>>
    /\ usage' = [usage EXCEPT ![r] = IF failed \/ over \/ 100 * used <= 85 * CallBudget THEN 0
                                     ELSE (20000 * used) \div CallBudget - 17000]
    /\ budgeted' = [budgeted EXCEPT ![r] = IF failed \/ over THEN 0 ELSE now]

Gather(r) ==
    /\ pc[r] = "gather" /\ LoopFree
    /\ pc' = [pc EXCEPT ![r] = "stages"]
    /\ drift' = [drift EXCEPT ![r] = "reading"]
    /\ \E failed \in SUBSET {"rate", "budget"}, over \in SUBSET {"rate", "budget"} :
          /\ IF failed = {} THEN Clean ELSE Faults(Cardinality(failed))
          /\ RateStage(r, "rate" \in failed, "rate" \in over)
          /\ BudgetStage(r, "budget" \in failed, "budget" \in over)
          /\ limits' = [limits EXCEPT ![r] = over]
    /\ UNCHANGED <<now, arrived, signals, reply, opened, session, agentSession, agentExpire,
                   counters, decisions, stream, ledger, denied, told>>

DriftOnly == UNCHANGED <<now, pc, arrived, limits, usage, reply, rate, calls, callsExpire,
                         agentSession, agentExpire, counters, decisions, stream, rated, budgeted,
                         denied, told>>

\* The thread's two GETs; get_session and get_baseline turn a failed one into an empty
\* list.
ReadSession(r) ==
    /\ drift[r] = "reading"
    /\ drift' = [drift EXCEPT ![r] = "read"]
    /\ \E lost \in SUBSET {"session", "baseline"} :
          /\ IF lost = {} THEN Clean ELSE Faults(Cardinality(lost))
          /\ signals' = [signals EXCEPT ![r] =
                Signals(IF "session" \in lost THEN <<>> ELSE session[SessionOf[r]],
                        IF "baseline" \in lost THEN <<>> ELSE Baseline, DriftEvent(r))]
    /\ UNCHANGED <<opened, session, ledger>> /\ DriftOnly

\* 100 ms passed first: an elevated score, and this request's event is not appended.
DriftTimeout(r) ==
    /\ drift[r] \in {"reading", "read"} /\ LoopFree
    /\ drift' = [drift EXCEPT ![r] = "timeout"]
    /\ signals' = [signals EXCEPT ![r] = {}]
    /\ UNCHANGED <<faults, opened, session, ledger>> /\ DriftOnly

\* The append, one script in Redis, by another thread.
AppendDrift(r) ==
    /\ drift[r] = "read"
    /\ drift' = [drift EXCEPT ![r] = "scored"]
    /\ \/ Clean /\ Record(SessionOf[r], DriftEvent(r))
       \/ Faults(1) /\ UNCHANGED <<opened, session, ledger>>
    /\ UNCHANGED signals /\ DriftOnly

----------------------------------------------------------------------------

(* Stages 2, 3 and 4, which keep nothing: what they make of the text, of   *)
(* OPA's reply and of the knowledge base's.                                *)

\* Stage 2: its score is the weight of the heaviest pattern found.
InstantKill(sig) == sig >= 9500

\* Stage 3: a reply with another shape than OPA's raises out of the stage, which gather
\* turns into a skipped one; no reply, an error status or no JSON is caught in it.
PolicyReplies == {"allowed", "not_allowed", "no_result", "no_reply", "not_a_dict"}

\* A reply with no result, or a result with no allow, is a denial.
Denies(policy) == policy \in {"not_allowed", "no_result"}

\* Stage 4: below the threshold the similarity itself, from it on less the rate of false
\* positives.  A query that fails finds nothing, as knowledge_base.query catches what it
\* raises; only one that takes more than two seconds scores the neutral 0.5.
RagScore(hit) ==
    IF hit[1] < 6500 THEN hit[1] ELSE (hit[1] * (10000 - hit[2])) \div 10000

NoHit == 0
RagTimeout == 5000
RagScores == {RagScore(hit) : hit \in RagHits} \cup {NoHit, RagTimeout}

Vector(r, sig, rag) ==
    [i \in Weighted |-> CASE i = 2 -> sig [] i = 4 -> rag [] i = 7 -> usage[r]
                          [] OTHER -> IF drift[r] = "timeout" THEN 5000
                                      ELSE DriftScore(signals[r])]

VerdictOf(routing) ==
    CASE routing = "FAST_PATH" -> "ALLOW" [] routing = "BLOCK" -> "BLOCKED" [] OTHER -> "SANDBOX"

\* Slip: an exceeded limit is left to the aggregate.
LimitsAggregated(r, sig, rag) ==
    IF InstantKill(sig) THEN "BLOCKED" ELSE VerdictOf(Routing(Vector(r, sig, rag)))

\* run_pipeline after the gather: the categorical blocks of stages 6 and 7, the instant
\* kill, the aggregate.
PipelineVerdict(r, sig, rag) ==
    IF limits[r] # {} \/ InstantKill(sig) THEN "BLOCKED"
    ELSE VerdictOf(Routing(Vector(r, sig, rag)))

\* /execute makes a denial of OPA final.  An instant kill reports stage 3 as skipped.
FinalVerdict(r, sig, rag, deny) ==
    IF Entry[r] = "execute" /\ deny /\ ~InstantKill(sig) THEN "BLOCKED"
    ELSE PipelineVerdict(r, sig, rag)

Conclude(r) ==
    /\ pc[r] = "stages" /\ drift[r] \in {"scored", "timeout"} /\ LoopFree
    /\ Finish(r) /\ UNCHANGED arrived
    /\ \E deny \in {Denies(policy) : policy \in PolicyReplies} :
          /\ \E verdict \in {v \in Verdicts : \E sig \in SigScores, rag \in RagScores :
                                                v = FinalVerdict(r, sig, rag, deny)} :
                Answer(r, verdict, TRUE)
          /\ denied' = IF deny THEN denied \cup {r} ELSE denied
    /\ Untouched

Tick ==
    /\ now < MaxTime
    /\ now' = now + 1
    /\ calls' = [a \in Agents |-> IF callsExpire[a] = now' THEN 0 ELSE calls[a]]
    /\ callsExpire' = [a \in Agents |-> IF callsExpire[a] = now' THEN 0 ELSE callsExpire[a]]
    /\ agentSession' = [a \in Agents |-> IF agentExpire[a] = now' THEN <<>> ELSE agentSession[a]]
    /\ agentExpire' = [a \in Agents |-> IF agentExpire[a] = now' THEN 0 ELSE agentExpire[a]]
    /\ UNCHANGED <<faults, pc, drift, arrived, signals, limits, usage, reply, opened, session,
                   rate, counters, decisions, stream, history>>

Quiet ==
    /\ \A r \in Requests : pc[r] = "done"
    /\ UNCHANGED vars

Serve(r) ==
    \/ Arrive(r) \/ OpenSession(r) \/ Gather(r) \/ ReadSession(r) \/ DriftTimeout(r)
    \/ AppendDrift(r) \/ Conclude(r)

Next == (\E r \in Requests : Serve(r)) \/ Tick \/ Quiet

Spec == Init /\ [][Next]_vars

----------------------------------------------------------------------------
(* Properties.                                                             *)

\* Stage 6 counts and admits in one Redis transaction: of an agent's requests that it
\* let pass, at most RateLimit fall into any window, refused attempts counting too.
RateBound ==
    \A a \in Agents : \A t \in 1..now :
        Cardinality({r \in Requests : /\ AgentOf[r] = a
                                      /\ t - RateWindow < rated[r] /\ rated[r] <= t
                                      /\ rated[r] > 0}) <= RateLimit

\* Stage 7 never lets more than the budget pass within one budget window, whatever the
\* expiry that every call pushes back does to the counter.
BudgetBound ==
    \A a \in Agents : \A t \in 1..now :
        Cardinality({r \in Requests : /\ AgentOf[r] = a
                                      /\ t - BudgetWindow < budgeted[r] /\ budgeted[r] <= t
                                      /\ budgeted[r] > 0}) <= CallBudget

\* While no Redis call has failed, a session is the tail of everything appended to it:
\* EXISTS and SET of init_session never wipe what a thread of stage 5, or another
\* request's answer, put there.
SessionKept ==
    faults = 0 => \A s \in Sessions : session[s] = LastEvents(ledger[s], SessionWindow)

\* The log is newest first, and reaches LogMax verdicts back.
NewestFirst(log, all) ==
    /\ Len(log) = IF Len(all) < LogMax THEN Len(all) ELSE LogMax
    /\ \A i \in 1..Len(log) : log[i] = all[Len(all) + 1 - i].verdict

\* How long after its i-th verdict the next one came, or at t has not come yet.
Silence(all, i, t) == (IF i = Len(all) THEN t ELSE all[i + 1].at) - all[i].at

\* The session holds, oldest first, exactly the verdicts since the last silence of SessionTTL.
SinceSilence(held, all, t) ==
    LET lost == Len(all) - Len(held) IN
    /\ lost >= 0
    /\ \A i \in 1..Len(held) : held[i] = all[lost + i].verdict
    /\ \A i \in 1..Len(all) :
          i > lost <=> \A j \in i..Len(all) : Silence(all, j, t) < SessionTTL

\* While no Redis call has failed, the three records of /execute tell one story, each as
\* far back as it reaches: the per-verdict counters count every answer given, the decision
\* log holds an agent's newest verdicts up to its cap, and the agent's session those since
\* the key last expired.
AuditTrail ==
    faults = 0 =>
        /\ \A v \in Verdicts : counters[v] =
              Cardinality({r \in Requests : Entry[r] = "execute" /\ reply[r] = v})
        /\ \A a \in Agents : /\ NewestFirst(decisions[a], told[a])
                             /\ SinceSilence(agentSession[a], told[a], now)

\* A request that exceeded a limit, and one of /execute that OPA denied, is blocked -
\* whatever the other stages scored, timed out on or failed at.
HardBlocks ==
    \A r \in Requests : pc[r] = "done" =>
        /\ limits[r] # {} => reply[r] = "BLOCKED"
        /\ r \in denied /\ Entry[r] = "execute" => reply[r] = "BLOCKED"
=============================================================================
