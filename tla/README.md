# FinanceFlow and AgentGuard-X in TLA+

This directory is a verification project for the FinanceFlow agentic system: TLA+ modules of the
parts of the program that decide, limit and record, the TLC configurations that check them on small
instances, and theorems about them that TLAPS proves for every value of the constants.
`PROJECT.json` lists components, runs, mutants, the map from definitions to source lines, findings,
hazards and theorems; this file explains them.

    tlc -workers 2 -config GatewayPipeline.cfg MCGatewayPipeline.tla     # a run
    tlapm TaskGraphProofs.tla                                            # the proofs of a module

Paths below are relative to `src/`.

## 1. The system

Three programs and what stands around them:

    client -> gateway edge -> request pipeline (app/)  -> AgentGuard-X /triage
    user   -> FinanceFlow /chat -> orchestrator        -> AgentGuard-X /execute, sandbox engine
    all three                                          -> Redis;  the first two services -> OPA

The gateway (`app/`) takes a tool call of an agent and passes it through a fixed sequence of checks.
AgentGuard-X (`AgentGuard-X/`) scores a call in nine stages and answers ALLOW, SANDBOX or BLOCKED.
FinanceFlow (`financeflow/`) plans a small graph of tool calls for a chat request and runs each only
after AgentGuard-X has agreed.  All are asyncio programs on one event loop per process; AgentGuard-X
also uses executor threads.  They share nothing but Redis, and the pipeline's and the triage
service's Redis keys are different ones.

### Inventory

| Component | State | Operations | What is hard | What makes it correct |
|---|---|---|---|---|
| Request pipeline, `app/pipeline.py` | Redis: global counter, replay keys, window per agent and tool, sequence list per agent. Process: in-memory limiter and replay table | steps 1 to 7 of `process_request`, two Lua scripts, a WATCH transaction | every await lets other requests in; each Redis step has a fallback with its own state; the client retries timed-out commands; keys expire | each limit and each replay check holds in the store that made it; a sequence list never holds an event without its prerequisites; a fresh request is not refused |
| Gateway edge, `app/security_middleware.py`, `app/hardening_advanced.py`, `create_app` | slot counter, the task of each request | size check, load shedding, time limit, padding | a time limit that abandons running work; slots on every way out; the order of the middlewares | slots counted exactly, one answer, an answer for every request |
| Dependency wrappers, `app/dependency_wrappers.py` | breaker state, failure and trial counts, the shared OPA client; Redis: the key of SET NX EX | a call through the breaker, `redis_hgetall`, `redis_lrange`, `redis_lua_script`, `redis_set`, `opa_policy_check` | calls that end after the breaker changed state; cancelled trials; commands Redis runs after their caller gave up | no call while open, a trial alone and bounded; an answer is what the dependency said |
| Behaviour profiles and failure guard, `app/behavior_guard.py`, `app/hardening_advanced.py` | bounded tables of profiles and trackers, a lock | record a request, failure, block; is_suspicious, get_metrics, get_suspicious_agents | a lock that is not re-entrant; two copies of one logic; eviction | the copies agree; accusations are earned; every caller returns |
| Start-up and callback, lifespan of `app/main.py`, `app/callback_handler.py`, `app/output_sanitizer.py` | what came up; four counters | start and stop; on_tool_start, on_tool_end, sanitize | a step of the start that raises; calls of one handler that overlap | it comes to serve; counters and calls agree |
| Triage client, `app/triage_client.py` | a failure counter | call, fail closed | replies that are late, broken or about another request | a verdict is the engine's about this request, or SANDBOX and counted |
| Triage service, `AgentGuard-X/triage/` | Redis: session, rate window, budget, baseline, agent session, counters, decision log, stream | `/triage`, `/execute`, `run_pipeline`, stages 1 to 7, `aggregate` | coroutines beside executor threads on one session; a 100 ms limit; several writes, each may fail | limits, sessions and records, as far back as each reaches, agree with the answers; a limit exceeded is a block |
| Scoring, `aggregator.py`, `stage5_drift.py` | none | drift signals, weighted sum, corroboration multiplier, thresholds | integer and rounding boundaries | monotone; one stage alone never blocks |
| Tool guard, sandbox, review queue, `AgentGuard-X/gateway`, `sandbox`, `review` | `last_decision` of a callback; containers; a sorted set of held calls | ask triage, sandbox in the engine or a container, queue for review | abandoned container threads; a queue that refuses; a decision kept from an earlier call | no call passes without a decision about it; a sandboxed call is put before an analyst |
| Orchestrator, `financeflow/orchestrator.py`, `server.py`, `tool_registry.py` | a graph per chat: status, verdict, input and output of each step | plan, fill inputs, ask, run, sandbox, stop, answer | late or lost decisions; a stop in the middle; placeholders | no tool without AgentGuard-X's word, order, a truthful answer |
| Event feed, `_ConnMgr` of `financeflow/server.py` and `triage/main.py` | list of WebSockets, events list, stored reports | connect, broadcast, disconnect, answer | connections that come and go during a broadcast; sends awaited inside the chat | nobody's event is skipped; every chat ends |
| Agent application, `financeflow/app/` | workflow status, session, history and memory, executor threads | workflow routes, agent task, tools, fallback | a timed-out thread that runs on and keeps its place; reused workflow ids | answers and records agree; every workflow ends |
| Validators, sanitizers, knowledge base, reports, metrics, demos, Rego policies, deployment | none that a decision reads | sequential text, document and certificate handling | regular expressions, rendering | outside the reach of a model checker |

The hazards each is exposed to are listed, at their lines, in `PROJECT.json`; the properties below
were written for them.

## 2. The modules

| Module | Models | Role |
|---|---|---|
| `GatewayPipeline` | `app/pipeline.py`, with the start-up choices of `app/main.py` | specification and properties |
| `GatewayEdge` | `app/security_middleware.py`, `GlobalLoadShedder`, `create_app` | specification and properties |
| `WorkflowPromise` | what `execute_graph` promises | abstract specification |
| `TaskGraph` | `financeflow/orchestrator.py`, `/chat`, `check_with_guard` | specification, properties, refinement of `WorkflowPromise` |
| `TriageScoring` | stage 5's signals, `aggregator.py` | operators |
| `TriageService` | `/triage` and `/execute` over `run_pipeline`, stages 1 to 7, `redis_store.py` | specification and properties, uses `TriageScoring` |
| `BreakerPromise` | what a circuit breaker promises | abstract specification |
| `GatewayDependencies` | `app/dependency_wrappers.py` | specification and properties, refinement of `BreakerPromise` |
| `GatewayGuards` | `BehaviorGuard`, `FailureRateGuard` | specification and properties |
| `GatewayStartup`, `TriageClient` | the lifespan of `app/main.py`; `app/triage_client.py` | actions, composed in the next |
| `GatewayCallback` | `app/callback_handler.py`, `app/output_sanitizer.py` | specification and properties of the three together |
| `ToolGuard` | `langchain_hook.py`, `sandbox_bridge.py`, `docker_runner.py`, `review/queue.py` | actions, composed in the next |
| `AgentRuntime` | `agents/base.py`, `workflow_routes.py`, `memory/redis.py` | specification and properties of both |
| `EventFeed` | `_ConnMgr` and its users in both services | specification and properties |
| `MC...` | names and functions for TLC | model checking |
| `...Proofs` | theorems | proofs |

### GatewayPipeline

Each request is a coroutine.  `pc[r]` is the step it is about to take; a step is one action because
nothing in it is awaited except the Redis call at its head, and where a step awaits several times
(step 6) it is several actions: `Watch`, `ReadSequence`, `ExecSequence`.  Steps 1 and 4b go to a
second action (`globalMem`, `replayMem`) when Redis raised, since other requests may run in between.
JWT validation (step 2) follows step 1 without touching shared state, and is part of it.

`redis` is decided by `init_redis` and `rules` by `init_configs`: both are chosen in `Init` and
never change, as in the code.  A Redis call ends in one of the ways the client allows: it takes
effect and is answered; it fails, having taken effect or not; or, since the client is built with
`retry_on_timeout` (main.py:112), it takes effect, times out, is sent again and the answer of the
second attempt is returned.  `Fault` counts what goes wrong, up to `MaxFaults`.  The Lua scripts are
single transitions, as Redis runs them.  In the per-agent script Redis seeds `math.random` alike for
each run, so a member of the window is its second: `windowScores` is a set of seconds.

`passedBy`, `passedAt`, `admittedBy`, `admittedAt` are history: which store let a request
through step 4b, step 1, and when.  `stamp` is the clock read before the script of step 5.

### GatewayEdge

`create_app` adds timing, time limit, load shedding and size limit in this order, and Starlette makes
the last one added the outermost.  A Starlette middleware runs what it wraps as a task and waits for
that task's first message; so `TimeUp` answers 504 and leaves `work[r] = "running"`, and
`EndpointEnds` may come at any later time, or never.  `active` is `active_requests`.  An endpoint
may answer (`padding`, then `leaving`) or raise (`error`, which is not padded).  `age` is the
time since the request went inside.  `Shed` is free: memory pressure refuses a request whatever the
slots are.

### WorkflowPromise and TaskGraph

`WorkflowPromise` knows a `fate` for each step of a graph: open, ran or refused.  A step may run
when all it depends on has run; a refusal closes the rest of the workflow.  `TaskGraph` is the
executor: `Chat` plans one of the graphs of `build_task_graph`, `Visit` is the head of the loop
(blocked dependencies, filled inputs, the request to AgentGuard-X), `GuardReplies` and `GuardFails`
the two outcomes of `check_with_guard`, `Route` the three branches of `_execute_step`, `EngineReplies`
and `EngineFails` those of `_sandbox_evaluate`, `MarkRemaining` and `Answer` the two ways out.
AgentGuard-X and the sandbox engine decide in `MeshDecides` and `EngineAnswers`, actions of their own
with no fairness: a decision may come in time, too late or never.  The engine is not in the
repository, so its word may be ALLOW, BLOCK, any other text (which the code promotes as well) or null,
which raises out of the graph (`raised`): a 500, with nothing stored.  A tool's output is data or an error text; an input is the set of steps whose output it was
filled with.  The refinement mapping is `Fate`: done is ran, blocked is refused, pending and running
are open.

### TriageScoring and TriageService

`TriageScoring` computes in ten-thousandths, so that the code's floating-point weights, boost and
four-decimal rounding are exact integers.  `TriageService` is one action per await: `Arrive` up to stage
1's EXISTS, `OpenSession` the SET that follows, `Gather` the part of `asyncio.gather` that runs on
the loop (stages 6 and 7, whose Redis client is synchronous), `ReadSession` and `AppendDrift` on
executor threads, `DriftTimeout` the 100 ms limit, `Conclude` the pipeline's decision and
everything the endpoint writes.  `LoopFree` says that a synchronous call on the loop lets no other
coroutine run, while threads may.  Any subset of the writes of an answer may fail (`Answer`).  The
decision log and the stream are cut with every entry (`Pushed`, LPUSH and LTRIM), and the agent session is
a key whose expiry every decision pushes back (`StoreAgentSession`, `Tick`); `told` is history, every
verdict with its time.  Stages 2, 3 and 4 keep nothing: they turn any pattern weight, any form of OPA's
reply, and any hit of the knowledge base into a score or a denial (`InstantKill`, `Denies`, `RagScores`).
A query of the knowledge base that fails finds nothing and scores 0 (`NoHit`, knowledge_base.py:172); only
one that takes too long scores 0.5 (`RagTimeout`).

### BreakerPromise and GatewayDependencies

`BreakerPromise` has a mode, a rest and a set of running calls.  It says when a call may start, that
a trial begins alone after a full rest, and that only a call of the trial ends it; it knows nothing of
counts.  `GatewayDependencies` is the code: `Enter` and `Refuse` are the two ways into `call()`,
whose lock is not held over an await; `Replies`, `Fails` and `Cancel` the three ways out (a
`CancelledError` passes the `except Exception` by, so a cancelled trial is counted neither way).
`Runs` is the moment Redis runs a command; one whose caller has gone is in `stray` and may run at any
later time (`Strays`).  `AskOpa`, `OpaAnswers` and `OpaFails` are `opa_policy_check` with the seven forms a
reply can take, and `CloseClients` closes the client under it.  Times are kept as what the code
compares.  The refinement mapping takes `state`, `sinceFailure` and the callers with a Redis call.

### ToolGuard and AgentRuntime

`ToolGuard` is the callback of one tool call: `AskTriage`, the reply or its failure, the sandbox
engine, the container when the engine fails, the queue, and then a return or an exception.  Triage, the
engine and the container decide in steps of their own (`ServiceDecides`, `EngineDecides`,
`ContainerEnds`), and what they said of this very call, heard or not, is the history variable `said`.  A
container that was given up on is in `late` and ends at any later time (`LateContainerEnds`), when the run may
be in its next call: it writes to the `result_holder` of the wait that is over.  `ToolGuard` has no
Next of its own: `AgentRuntime` composes its actions with the agents.  There a run has a
coroutine (`phase`: session, task under `wait_for`, history, memory) and a thread (`thread`: the agent,
its tools, the fallback of `_AgentExecutorWrapper`), which the time limit does not end, and which
keeps one of the `Workers` places of the executor.  `WorkflowOf` lets two requests use one workflow id.

What an exception of `on_tool_start` does depends on who called it.  LangChain logs what a handler raises
unless the handler sets `raise_error`, and neither callback of the repository does, so an agent's own
tool runs on `passed` and `raised` alike (`AgentRuns`); the fallback calls `on_tool_start` itself and
heeds it (`FallbackRuns`, `Blocked`).  A call of Redis has a limit on connecting and none on its answer:
`RedisHangs` leaves a run's coroutine waiting for good.

### GatewayStartup, TriageClient and GatewayCallback

The lifespan handler is one action per dependency, and what each leaves behind (`sanitizer`,
`scanner`, `clients`) is read by the callback; rules in list form raise and skip the rest.
`TriageClient` has the reply of any earlier or other request arrive on a connection (`Replied(q, id)`),
and every way a reply can be unusable (`NoReply`).  `GatewayCallback` runs tool calls that overlap
through one handler's counters, with the pipeline reduced to its decision.  A call that is blocked, or
whose check raised, is `refused`, and then runs (`RunsAnyway`): this handler does not set
`raise_error` either.

### GatewayGuards

Two tables with a limit.  A behaviour exercises one of them, since they share nothing.  A method that
does not await inside its lock is one step; `get_suspicious_agents` awaits the lock it holds, so it
gets two.  `recency` is the order of `last_seen`: a full table evicts its head.  The module's names
begin with `Guards`, so that one proof module can take both parts of the load control.  `IsSuspicious` and `Counted` are the two copies of the checks, in the shapes the
code gives them: a sequence of returns and a chain of elif.

### EventFeed

The same connection manager serves both services; a behaviour is about one of them.  `Connect` takes
a copy of the newest events without an await; `Decide` pushes an event and creates a task that
broadcasts it later (`Start`), `Emit` broadcasts inside the chat.  A broadcast walks a copy of the
connections (`targets`), one `Send` at a time, so clients come and go in between.  `due` is history:
what a client that stays is owed.

## 3. The runs

| Run | Result | What it asks |
|---|---|---|
| `gateway` | holds | replay per store, sequence lists, global budget, no false duplicate, types |
| `gateway_agent_budget` | violated | "Per-agent/tool limit: 100 req/min" (pipeline.py:873) |
| `edge` | holds | slots, work bounded, an answer for all |
| `taskgraph` | holds | fail closed, complete reports, truthful status, the promise, an answer |
| `triage` | holds | rate, budget, sessions, hard blocks, and counters, log and session at the cap and the expiry |
| `deps` | holds | true answers, the breaker's promise, trials that end |
| `deps_trial` | violated | a half-open trial always ends; a cancelled one leaves the breaker refusing for ever |
| `agent` | holds | no call passes without a word, review, records, workflows that end unless Redis hangs |
| `callback` | holds | counters, answers about this request, a start that ends |
| `guards` | holds | two copies of one logic, accusations that are earned |
| `guards_lock` | violated | a lock that `get_suspicious_agents` takes twice |
| `events` | holds | nobody's event is skipped, every chat is answered |

A violated run states what a comment or document says of the program, and its trace is how the code
does otherwise; `findings` in `PROJECT.json` quotes the line and tells the story.  Every property of
a run that holds has a mutant: a definition beginning with "Slip:" in the module, a plausible bug
that makes the property fail under the same configuration.

### What the properties say

*Gateway.* `ReplayPerStore`: within one store an id passes once per TTL, whichever replies are
lost.  It is the strongest replay guarantee the code gives: across stores there is none.
`FreshNotDuplicate`: without faults, a refusal as duplicate has a cause, an earlier request that was
let through less than a TTL ago.  `SequenceJustified`: WATCH covers reading, deciding and pushing, the
list's expiry included.  `GlobalBudget`: the limit per window in memory, per life of the key in
Redis, and lives at least a window apart, with failed and retried scripts.
`TypeOK` bounds the Redis counter by the limit: the script compares before it increments.

*Edge.* `WorkBounded`: the slots bound the endpoints at work, except those a 504 left behind.  This
exception is what the code does: under endpoints that hang, the work grows past the maximum while
the counter stays within it.  `EventuallyAnswered`: an admitted request is answered although its
endpoint hangs.  Nothing is said of padding: the timing middleware is the innermost (section 5).

*Orchestrator.* `FailClosed`: a tool ran only on AgentGuard-X's own ALLOW for that very step, or on
its SANDBOX and an answer of the engine's own other than BLOCK.  `ReportComplete`: the check of blocked
dependencies, whose `continue` would continue the wrong loop (orchestrator.py:494), never finds
one, and a report whose content is marked "[auto-populated" is written from all it depends on.  The
document plan's report says "[from step-1]" instead (orchestrator.py:299), which `_fill_inputs` passes
over (:445): that report is written without what the search before it found, and the property
excepts it.  `TruthfulStatus`:
"completed" just when every tool ran, and no step left pending or running.  `KeepsPromise`: the
refinement.  `EventuallyAnswered`: with the result, or with the 500 of an exception.

*Triage.* `RateBound`, `BudgetBound`: in any window, refused attempts and moving expiries included.
`SessionKept`: while no Redis call has failed, EXISTS and SET never wipe what threads and other
requests appended.  `AuditTrail`: the counters count every answer of `/execute`, the log holds the newest
of them up to its cap, and the agent session exactly those since the last silence that let its key
expire, in the order they were given, whatever was written in between.
`HardBlocks`: an exceeded limit, and OPA's denial in `/execute`, is a block whatever else happened.

*Dependencies.* `AnswersTrue`: while a key holds, at most one caller was told it set it, although
commands of callers that gave up still run; and OPA's permission is OPA's own word in answer to
that question.  `KeepsPromise`: the refinement; its hard part is that no call from before the
breaker opened is left when a trial begins, which rests on the time limit of a call being
shorter than the recovery time.  `TrialEnds`: a trial ends, unless one of its calls is cancelled;
`TrialAlwaysEnds`, without the exception, fails.

*Agents.* `PassedOnWord`: the callback lets a call pass, and the fallback runs its tool, on what
triage or the sandbox said of this very call: no container that ends late, in the wait of an earlier
call, is taken for one.  It is about the callback and the fallback: of the agent's own tools nothing of the
kind holds, since LangChain runs them though the callback raised (section 5).  `Reviewed`: a call the
sandbox promoted was put before the queue first.  `RecordsAgree`:
status, history and memory tell what the run came to, however late its thread returns and although
two requests share a workflow id.  `WorkflowEnds`: with every thread of the executor taken for good,
unless Redis leaves a run of the workflow without an answer, which no time limit of the code ends.

*Start-up, callback, client.* `StartupEnds`: it comes to serve whatever is missing.
`CountsAgree`: the handler's counters are the pipeline's decisions at every moment; of which tools ran
they say nothing (section 5).  `AnswerIsOurs`: ALLOW and BLOCK are the engine's about this request; every other SANDBOX is counted.

*Guards.* `MetricsAgree`: `get_metrics` counts whom `is_suspicious` names.  `AccusedRightly`: a
source held suspicious has failed more often than the threshold allows since its tracker began,
evictions included.  `LockAnswers` fails: the task that looks for suspicious agents waits for itself.

*Events.* `NothingMissed`: what a staying client is owed it was sent, or is about to be.
`ChatsAnswered`: a chat is answered and its report stored although clients go in the middle.

### Bounds, and why they are enough

| Run | Instance | Distinct states |
|---|---|---|
| `gateway` | 3 requests, 2 ids, 1 agent, 2 tools (one with a prerequisite), limits 1 and 2, windows of 2 seconds in 3, 1 fault, Redis present or not, rules present or not | 1,219,308 |
| `edge` | 3 requests and one to an excluded path, 2 slots, padding 1, limit 2 | 159,520 |
| `taskgraph` | 1 chat, any of the three kinds of graph the planner builds (6, 2 and 1 steps) | 437,056 |
| `triage` | 3 requests of 1 agent (two to `/execute`, one to `/triage` that stage 1 refuses), 1 session, limit 1, windows of 2 seconds in 3, a log of 1, an agent session of 2 seconds, 1 fault | 547,556 |
| `deps` | 2 callers, both claim the key, one also asks OPA; threshold 2, recovery 2, call limit 1, 1 trial, key 2 | 308,966 |
| `agent` | 2 runs with one workflow id, 1 agent that shows its tools, 1 executor thread | 240,811 |
| `callback` | 2 tool calls and 2 calls of the client | 4,791,824 |
| `guards` | 2 agents for 1 profile, 3 sources for 2 trackers, 2 tasks; thresholds 1 to 3, 4 requests, 3 failures, 3 ticks | 212,895 |
| `events` | 2 clients, an agent and 2 chats with 2 events each, a list of 1 for a new client | 49,389 |

The gateway's properties relate two requests (same id, same list, same window) and a third that
fills a limit or expires a key; one fault is enough to split the stores.  In `gateway` `r1` and `r2` have the
same id, agent and tool, in `triage` the same entry point, agent, session, tool and input, so exchanging them is a
symmetry of every definition and property, and no liveness is checked in either.  The `VIEW` of the `gateway` and `triage` runs leaves out what no action
reads any more and no property of the run mentions (why a request was decided, a clock read that has
been used, what the stages found for a request that is done); the definitions say which.  Three seconds let a window of two close and a key of two expire.
At the edge two slots and three requests let the counter reach its maximum and be refused.  Chats
share no state, so one is enough for TLC, and the proofs cover any number.  In the triage
service two served requests of one agent exceed a limit of 1 and meet in one session with the event of a third,
and the second answer is past the log's cap, and may be past the session's expiry.  What the instance leaves out, the proofs have:
a request to `/triage` that is served, and an agent `/execute` does not know.  `SessionWindow` is the code's 50 and the instance stays below it; that the cut
loses nothing else is proved (`TrimmedTwice`, `SessionsKept`).  The code's log of 100 and its session of a day
are a log of 1 and a session of 2 seconds; any cap and any expiry are in the proof (`AuditTrailKept`).  Two callers let the breaker open under one's call while the other's runs, and meet in a claim; the
threshold of 2 has a state between.  With one thread for two runs, a run that is given up on keeps the other
waiting.  A table smaller than the number of agents or sources is evicted from.  Two clients let one go while
the other is sent to, and a list of 1 of two events is cut.  In `guards` the thresholds are the
code's in small; rates are compared as the code compares them.
`MaxTime`, `MaxFaults`, `MaxRequests` and `MaxFailures` are the only bounds that the
code does not have; the limits are parameters of it.

### Fairness

`TaskGraph`: `WF(Advance(w))`.  The event loop runs each coroutine that is ready, and both HTTP calls
have time limits, after which `GuardFails` or `EngineFails` is possible.  Nothing is assumed
of AgentGuard-X or of the sandbox engine.  `GatewayEdge`: weak fairness of `Tick` (time passes) and of `PaddingEnds`,
`TimeUp` and `Leave` (timers fire, ready tasks run).  Nothing is assumed of the endpoint.
`GatewayDependencies`: weak fairness of `Tick`, `TimesOut` (`wait_for` ends a call in time) and
`OpaFails` (so does its own limit); nothing of Redis, OPA or of anybody calling.  `AgentRuntime`: weak
fairness of the coroutine's steps and of its timer; nothing of the threads, the agent, its tools or
the sandbox, nor that Redis answers: a coroutine whose call hangs has no step to take (`hung`), and
`WorkflowEnds` says so.  `GatewayCallback`: the start-up goes on, since each of its steps has a time limit or is
work of its own.  `GatewayGuards`: the loop runs something as long as there is something to run.
`EventFeed`: the broadcasts and chats go on, and a client takes what it is sent or is lost in the end;
one that keeps its connection and never reads holds every chat for good, and then the property is
false.  `GatewayPipeline` and `TriageService` are checked for safety only.

The first four specifications and `GatewayDependencies` have a step in every state (a self-loop where
all is done, or time), so TLC's deadlock check is on.  It is off where the system comes to rest:
`agent` (all requests answered), `callback` (the process has ended), `events` (all sent, clients
gone), `guards` and `guards_lock` (bounds reached, or the lock waited for by its holder, which
`guards_lock` shows).

## 4. What is proved

From the assumptions the modules name (`RequestsAssumption`, `RulesAssumption`,
`LimitsAssumption`, `EdgeAssumption`, `GraphsAssumption`, `DependencyAssumption`,
`RuntimeAssumption`, `GuardsAssumption`, `ServiceAssumption`, `FeedAssumption`, `CallsAssumption`,
`AsksAssumption`) and nothing else, for any number of requests, callers, ids, agents, sessions,
workflows, threads, clients, slots, limits and faults.  `CallsAssumption` and `AsksAssumption` say that the calls of one process
are finitely many, so that they can be counted; nothing is assumed of how many.

*GatewayPipelineProofs.*  `TypeCorrect`: `TypeOK`, which includes that the Redis counter stays
within its limit.  `ReplaySafe`: `ReplayPerStore` is not inductive, because what a
store holds must be tied to what it let through.  `ReplayInv` adds, per request that passed: the
Redis key lives until its TTL is over, or the TTL is over (and the same for the table entry), and a
request before step 4b has passed nowhere.  `SequenceSafe`: `SequenceInv` adds that a request at
EXEC with a clean watch has its prerequisites in the list *now*, which is what WATCH buys; the
step `Push` is then justified, and expiry breaks the watch and empties the list together.
`GlobalRateBounded` (`GlobalBudget`): `GlobalInv` ties what was let through to what is counted.  A
life of the Redis key is named by the time it expires; `KeyInv` says lives do not overlap,
`LivesInv` that a life has let through no more than its counter says, and `LimiterInv` that the
process's own list still has everybody it let through within the window.  Retried and failed scripts count
without letting anybody through, which is why these are inequalities.  `FreshLetThrough`
(`FreshNotDuplicate`): by `FreshInv`, until a Redis call has failed every key and every table entry
was put there by a request that passed.  `FaultsNeverForgotten` makes "no fault yet" reach back.
`DecidedOnce`: `Through` says of every place in the pipeline what a request has behind it there, so an
ALLOW has been through the rate limit, the replay check and a Redis client, and a decided request
holds no WATCH; `StepsAhead`, at most eleven, falls with each step of a request and is changed by
nobody else.  `LimiterNeverRefuses` turns the finding of `gateway_agent_budget` into a bound: the sorted set of
step 5 has whole seconds for members (`SecondsPast`), of which a window has too few.  Whoever
was stamped d seconds ago is admitted if d plus the window is less than the limit: with 100 calls per 60
seconds, everybody whose script runs less than 40 seconds late.

*GatewayEdgeProofs.*  `TypeCorrect`.  `SlotsExact`: by cardinalities: only `Admit` adds to the
requests that hold a slot and only `Leave` takes one away.  `WorkStaysBounded`: by `Unfinished`,
an endpoint runs while its request is inside or after a 504, so the others hold slots.
`OneAnswerOnly`: also from `Unfinished`, a request with an answer is leaving or gone.

The same module has the theorems of `GatewayGuards`.  `MetricsTrue` (`MetricsAgree`): the chain of elif and
the sequence of returns judge every profile alike (`SameJudgement`).  `RightlyAccused`
(`AccusedRightly`): by `TrackerInv`, a tracker counts no more than the source is guilty of, evicted or
not.  `GuardsTypeCorrect` (`GuardsTypeOK`): that the tables stay within their limits rests on `OrderInv`: the
order of `last_seen` holds just the agents that are tracked, each once, so that a full table has a
head to evict, it is not the newcomer, and the order stays as long as the table.
`LockNeverReleased` is the finding of `guards_lock` for any agents and tasks: once `get_suspicious_agents`
holds the lock, it and whoever comes after are never answered, and the table stays as it was then.

*TaskGraphProofs.*  One inductive invariant, `Inv`: where the coroutine is suspended (`pc`,
`cur`) determines the status of every step (`Progress`), whence verdicts come (`Granted`), what
inputs are filled with (`Filled`) and the overall status (`Outcome`).  `TypeCorrect`,
`GuardedTools` (`FailClosed`), `WholeReports` (`ReportComplete`, which excepts the document plan's
report as its run does) and `HonestAnswers` (`TruthfulStatus`) follow from it, and with it each step maps to a step of `WorkflowPromise` or
stutters: `Implements` (`KeepsPromise`).  `StepsRunOut`: `Left` is a natural number, at most
4 (n + 1) for a graph of n steps; every step of a chat's own coroutine lowers it, and no step of
another chat, and nothing AgentGuard-X or the engine does, changes it.

*TriageServiceProofs.*  First the aggregate.  `RoutingMonotone`: a higher score of any stages never
routes a request more leniently; rounding, cap and multiplier included.  `BlockTakesTwo`: without
corroboration the aggregate stays below the block threshold.  `OutagesPass`: with the knowledge base
and Redis both out, stage 4 scores 0, or 0.5 if its query timed out, stage 5 scores 0 on an empty session
and an empty baseline (`NothingRead`), or 0.5 if its read timed out, and stage 7 scores 0; nothing is
corroborated, and where neither timed out the fast path goes up to signatures of 0.8569.  Then the
service:

- `TypeCorrect`, by `Shape`: `TypeOK` without the finite sums it is stated with.
- `AlwaysBlocked` (`HardBlocks`): `HardInv` adds that a denial is recorded only with the answer.
- `RateBounded` (`RateBound`): the property says nothing of Redis.  `RateInv` adds that whatever stage 6
  let pass within the last window is still a member of the agent's sorted set, so that the next ZCARD
  counts it; refused attempts only make the set larger.
- `BudgetBounded` (`BudgetBound`): by `BudgetInv`, the counter counts at least what the window that
  ends now let pass, and its key, whose expiry every call pushes back, outlives all of them.
- `SessionsKept` (`SessionKept`): `SessionInv` says who may be between EXISTS and SET: one request at
  most, of a session nobody has written (`OpenedInTime`); everybody who may append has found the key
  there.  That rests on `LoopFree`: Redis calls of the loop are synchronous, and threads only run for
  requests past the gap.  `TrimmedTwice` is the cut: trimming what was trimmed before and
  appended to is trimming everything, for a session of any length.
- `AuditTrailKept` (`AuditTrail`): `AuditInv` adds that nobody is answered twice and that the key's expiry is
  the newest answer's time and `SessionTTL`.  `LogKeeps` is the cut: pushing onto the newest `LogMax` and
  cutting keeps the newest `LogMax`.  `SessionKeeps` is an answer before the expiry and after it, and
  `SessionLasts` the clock: silences only grow, so a tick takes all of the session away or nothing.
- `AnsweredOnce`: `StandsAt` ties where a request is to where its thread is and to its answer; with it
  `StepsLeft`, at most six, falls with each step of a request, and an answer is never replaced.

*GatewayCallbackProofs.*  `TypeCorrect`.  `CountersAgree` (`CountsAgree`) compares sums with sums;
`CallInv` says of each counter whose decisions it counts, and of each call where its decision has
brought it, so that calls that overlap disturb nothing, nor tools that run although they were refused.  `AnswersAreOurs` (`AnswerIsOurs`): `AskInv`
counts the failures against the requests answered SANDBOX, of which each is answered once.
`ServesAsFound`: what each stage of the start-up found (Presidio, the form of the pattern file, Redis) is what
the serving process has, and all that its overlapping calls rely on: with rules in list form it has no HTTP
clients, outputs are worked on only where sanitizer and scanner are both there, and no client stays
open in a process that ended.

*GatewayDependenciesProofs.*  `BreakerInv` is inductive: the breaker is closed exactly while fewer
failures than the threshold are counted; while it is open, every call that still runs began
no later than the last failure; and a trial's calls are all counted.  With a call limit below the
recovery time, no old call is left when the rest is over (`NothingLeft`).  From it follow
`TypeCorrect`, `TrialsAlone` and, step by step, `Implements` (`KeepsPromise`).  `WrapperInv` ties
what a caller found to who holds the key, whence `TrueAnswers` (`AnswersTrue`).  `TrialsAttended`:
while the breaker is half open a call of the trial is under way, unless one was cancelled.
`LostForGood` is the finding of `deps_trial` for any thresholds and limits: a trial whose calls are
all counted and all gone stays so, and every later call is refused.

*AgentRuntimeProofs.*  `TypeCorrect`.  `GuardInv` says for each stage of a call what was said of it, what its
container's holder can hold, and whether it was queued: `Guarded` (`PassedOnWord`) and `ReviewedFirst`
(`Reviewed`).  `RecordInv` and
`StatusInv` say which phase goes with which record, and that a status is pending, running, or what
a run was told: `TrueRecords` (`RecordsAgree`).  Lemmas separate the coroutine's steps from the thread's.
`WorkRunsOut`: a workflow shown as pending or running has a run at work, although two requests may
share its entry; each run has at most five steps, and an abandoned thread changes none of its records.

*EventFeedProofs.*  `TypeCorrect`, by `FeedTypes`: the list of connections holds a client once at most,
which is why `disconnect`, written as taking out every entry, takes out one (`WithoutFacts`).
`NobodyMisses` (`NothingMissed`): by `Followed`, a broadcast has clients to send to only while it
runs, so that its end, when `targets` is empty, takes nothing from anybody; `Covered` says where an event
owed to a client is, and each step moves it from the created task to the copy of the connections,
from there or from the newcomer's backlog to what the client got.  `ChatsShownInOrder`, of FinanceFlow:
by `InTurn` a chat broadcasts one event at a time and never the next before the last is done, so a
dashboard gets each event once at most, and with it every earlier one that it was there for.

Every invariant of a passing run is proved, and of its action properties both refinements and
`FreshNotDuplicate`.  Only model-checked is the liveness: under fairness
`EventuallyAnswered` (edge and orchestrator), `TrialEnds`, `WorkflowEnds`, `StartupEnds` and
`ChatsAnswered` are beyond the prover, which has no rule for fairness and cannot expand ENABLED.  Its safety half is
proved for the orchestrator, the runs, the pipeline and the triage service (`StepsRunOut`, `WorkRunsOut`,
`DecidedOnce`, `AnsweredOnce`: own steps run out and nobody else adds to them) and for the breaker
(`TrialsAttended`).  What is left to TLC there is that a step which remains is taken.  The failures of
liveness, `LostForGood` and `LockNeverReleased`, need no fairness and hold for all constants.  Nothing in the proofs needs induction over data: the
trimmed session, the log and the list of connections are written with library operators that have
a closed form.

## 5. Not modelled

External, modelled from their use in `src/`: Redis and its client, OPA, Starlette's middleware
tasks, Presidio, LangChain and the models behind the agents, the sandbox engine, Docker, the clock and
key expiry.  Of LangChain the models take that it runs handlers one after the other and logs what they
raise, as its callback manager does for a handler whose `raise_error` is False, the default.  Left
out: the content of tokens, policies, prompts and documents; regular expressions and rendering; the
rejections of malformed requests; metrics and logging; user interface and deployment;
`EventLoopPressureGuard`, whose monitor reports lag.  `PROJECT.json` names each component with its reason.

### Seen while modelling

The models follow the code in these, and no run is spent on them:

- Neither LangChain handler sets `raise_error` (callback_handler.py:32, langchain_hook.py:115), so LangChain logs
  what `on_tool_start` raises for a blocked call or a failed check and runs the tool, although
  callback_handler.py:58 says "Fail-closed: blocks by default if verification fails" and langchain_hook.py:173 logs
  "blocking tool execution (fail-closed)".  `RunsAnyway` and `Blocked` are these steps; only the fallback,
  which calls the handler itself, is stopped by it.
- The timing middleware, which main.py:508 calls the outermost, is added first and so is the innermost: what the
  size limit or load shedding refuses is answered without padding (`SizeLimit`, `Shed`).
- The document plan's report is written from its own placeholder, "[from step-1]" (orchestrator.py:299), where
  :441 says that placeholders are replaced with the output of prior steps.
- The Redis client of the agents has a connect timeout and no socket timeout (memory/redis.py:113), and
  `set_session` and `append_memory` await it under no other limit, although :73 says "Timeout-safe operations":
  a workflow may wait for ever (`RedisHangs`).
- A replayed id passes once in Redis and once more in the process's own table when Redis fails in
  between, although pipeline.py:101 speaks of the same request twice.
- A WatchError makes the request degraded (pipeline.py:1015); line 973 says the transaction will retry.
- OPA's denial blocks in `/execute`; in `/triage` it decides nothing, while aggregator.py:13 calls it categorical.
- A reply of OPA that is JSON but no object raises in stage 3 (stage3_policy.py:49), which gather turns into a
  skipped stage: no denial, unlike a reply without a result.
- A failed read of the session (redis_store.py:80) is an empty session, which scores low.
- A reconnaissance call of stage 5 is counted in the list and once more by itself (main.py:285, stage5_drift.py:64).
- The sequence event is pushed before triage decides (pipeline.py:1005): a call triage blocks counts as a
  prerequisite.
- The sandbox engine's answer promotes a step unless it is BLOCK (orchestrator.py:414), where
  `_sandbox_evaluate` speaks of ALLOW and BLOCK only (:332) and the other client of the engine promotes on
  ALLOW alone (sandbox_bridge.py:72); one whose verdict is null raises out of the graph, a 500.  `TaskGraph`
  has both; `EventFeed`, which is about the fan-out of events, leaves the second out.
- `increment_request_count` (redis_store.py:118) is never called, so OPA is given a count of 0; stage
  7's budget in credits is larger than its budget in calls, so calls bind first.
- `reset_window` of the failure guard is never called: once the window has passed a source's rate is 0.
- A call blocked by the guard is reported as completed or failed, never as blocked; agents built
  by LangGraph show no `tools`, so that their fallback raises.
- With a scanner set, sanitize_tool_output always raises (output_sanitizer.py:337): an async
  function is given to a thread and its coroutine unpacked.  The repository's pattern file is empty, so none is set.
- `on_tool_end` keeps nothing of the sanitized text: the agent goes on with the output as the tool returned
  it.  SANDBOX lets the tool run.
- A SET NX of the replay check that the client sends again after a timeout finds the key it set itself, and
  the request is refused as its own duplicate.  `FreshNotDuplicate` is stated for the time before any fault.
- `socket_keepalive` (memory/redis.py:114) ends a connection to a host that is gone, not one to a Redis that
  is there and does not answer.
- Rules in list form raise in `set_injection_scanner` and skip `init_clients`.
- The triage client passes its certificate to `post`; the model takes the library to accept that.
- Nothing in the gateway records in `BehaviorGuard` or `FailureRateGuard` yet.
- A review item is popped before it is decided.

## 6. Plan

1. Done: gateway pipeline, edge, dependency wrappers with the breaker's promise, guards, start-up,
   callback and triage client; orchestrator with its promise; triage service and scoring; tool guard
   with the agent application; event feed.
2. Proofs: done for every invariant the runs check, for both refinements, and for what is safety in
   the liveness of orchestrator, agent runs, pipeline, triage service and breaker.  What could follow: the same for
   the edge's requests and the start-up, and for the chats of the event feed.
3. What could still be modelled: the cut of the session window and of the executor's queue at
   larger bounds, `submit_decision` of the review queue, `/events` and `/stats` of AgentGuard-X.
