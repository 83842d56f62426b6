---------------------------- MODULE AgentRuntime ----------------------------
(***************************************************************************)
(* The FinanceFlow agent application: a workflow request starts, in the    *)
(* background, an orchestrator agent (app/api/routes/workflow_routes.py);  *)
(* the agent keeps a session, runs its task on a thread of the default     *)
(* executor under a time limit, and records what came of it                *)
(* (app/agents/base.py, app/memory/redis.py).  On that thread the agent    *)
(* decides to call tools, each first put before AgentGuard-X (ToolGuard);  *)
(* when it raises, for whatever reason, the wrapper runs the agent's first *)
(* tool itself, if the agent has tools to show.                            *)
(*                                                                         *)
(* wait_for gives up on a thread, it does not end it.  The agent (LangGraph *)
(* or LangChain, and the model behind it) is external: it calls a tool,    *)
(* ends or raises when it likes, or never.  The callback leaves raise_error *)
(* at its default, so LangChain logs what on_tool_start raises and runs    *)
(* the tool; only the wrapper, which calls on_tool_start itself, heeds it. *)
(* A call of Redis that hangs does so for good: the client has a limit on  *)
(* connecting and none on answers.  AgentGuard-X is taken to be installed:  *)
(* without it guard_bridge.py gives the agents no callback, and says so.   *)
(***************************************************************************)
EXTENDS ToolGuard

CONSTANTS
    Workflows,
    WorkflowOf,    \* [Runs -> Workflows], as the requests name them
    Showing,       \* the runs whose agent has a tools attribute
    Workers        \* threads of the default executor

ASSUME RuntimeAssumption ==
    /\ WorkflowOf \in [Runs -> Workflows]
    /\ Showing \subseteq Runs
    /\ Workers \in Nat \ {0}

VARIABLES
    store,      \* redis_memory.redis: Redis, or the in-memory stand-in connect falls back to
    status,     \* _active_workflows[w]["status"], "none" when there is no entry
    hung,       \* the runs whose call of Redis is never answered
    phase,      \* of the coroutine, in the end what execute_task returned or "failed"
    thread,     \* of the agent on the executor
    history,    \* execution_history
    memory      \* Redis: agent:ID:history

runtimeVars == <<store, status, hung, phase, thread, history, memory>>
vars == <<guardVars, runtimeVars>>

Final == {"completed", "failed", "timeout"}
Phases == {"none", "pending", "opening", "tasking", "appending"} \cup Final
Working == {"thinking", "tool", "working", "fallback", "trying", "using"}
Threads == {"none", "queued", "returned", "raised", "dropped"} \cup Working

\* The threads of the executor that are taken.
Busy == {r \in Runs : thread[r] \in Working}

TypeOK ==
    /\ GuardTypeOK
    /\ store \in {"redis", "memory"}
    /\ status \in [Workflows -> {"none", "pending", "running"} \cup Final]
    /\ phase \in [Runs -> Phases]
    /\ thread \in [Runs -> Threads]
    /\ hung \subseteq Runs /\ history \subseteq Runs /\ memory \subseteq Runs

Init ==
    /\ GuardInit
    /\ store \in {"redis", "memory"}
    /\ status = [w \in Workflows |-> "none"]
    /\ phase = [r \in Runs |-> "none"]
    /\ thread = [r \in Runs |-> "none"]
    /\ hung = {} /\ history = {} /\ memory = {}

-----------------------------------------------------------------------------
(* start_workflow and _execute_workflow. *)

Status(r, s) == status' = [status EXCEPT ![WorkflowOf[r]] = s]
Enter(r, p) == phase' = [phase EXCEPT ![r] = p]

\* A second request with the id of the first takes over its entry.
StartWorkflow(r) ==
    /\ phase[r] = "none"
    /\ Enter(r, "pending") /\ Status(r, "pending")
    /\ UNCHANGED <<guardVars, store, hung, thread, history, memory>>

\* The background task begins: an agent of its own for every workflow, and its session.
BeginRun(r) ==
    /\ phase[r] = "pending"
    /\ Enter(r, "opening") /\ Status(r, "running")
    /\ UNCHANGED <<guardVars, store, hung, thread, history, memory>>

\* The end of _execute_workflow: what execute_task returned, or "failed" for what it raised.
Answer(r, s) == Enter(r, s) /\ Status(r, s)

\* No answer of Redis has a limit in the code (keepalive notices a host that is gone, not a Redis
\* that does not answer); the stand-in answers at once.
MayHang(r) == store = "redis" /\ phase[r] \in {"opening", "appending"}

\* Redis does not answer the call this coroutine awaits, and never will.
RedisHangs(r) ==
    /\ MayHang(r) /\ hung' = hung \cup {r}
    /\ UNCHANGED <<guardVars, store, status, phase, thread, history, memory>>

Answered(r, p) == phase[r] = p /\ r \notin hung

\* set_session raises, or the agent cannot be built: there is no task to run.
BeginFails(r) ==
    /\ Answered(r, "opening")
    /\ Answer(r, "failed")
    /\ UNCHANGED <<guardVars, store, hung, thread, history, memory>>

\* The session is stored, execute_task submits the agent to the executor.
BeginTask(r) ==
    /\ Answered(r, "opening")
    /\ Enter(r, "tasking")
    /\ thread' = [thread EXCEPT ![r] = "queued"]
    /\ UNCHANGED <<guardVars, store, hung, status, history, memory>>

\* Slip: what comes back after the limit is recorded all the same.
InTimeOrLate(r) == thread[r] = "returned" /\ phase[r] \in {"tasking", "timeout"}

\* wait_for hands over what the thread returned, if the limit has not passed.
InTime(r) == thread[r] = "returned" /\ phase[r] = "tasking"

Record(r) ==
    /\ InTime(r)
    /\ history' = history \cup {r}
    /\ Enter(r, "appending")
    /\ UNCHANGED <<guardVars, store, hung, status, thread, memory>>

\* What the agent raised, in the fallback too, is what await raises.
TaskRaises(r) ==
    /\ phase[r] = "tasking" /\ thread[r] = "raised"
    /\ Answer(r, "failed")
    /\ UNCHANGED <<guardVars, store, hung, thread, history, memory>>

Append(r) ==
    /\ Answered(r, "appending")
    /\ memory' = memory \cup {r}
    /\ Answer(r, "completed")
    /\ UNCHANGED <<guardVars, store, hung, thread, history>>

\* APPEND fails, or EXPIRE after it.
AppendFails(r) ==
    /\ Answered(r, "appending") /\ store = "redis"
    /\ memory' \in {memory, memory \cup {r}}
    /\ Answer(r, "failed")
    /\ UNCHANGED <<guardVars, store, hung, thread, history>>

\* Slip: the limit is on the time the agent runs, not on the wait for a thread.
LimitWhileRunning(r) == phase[r] = "tasking" /\ r \in Busy

\* The limit counts from the submission.
Limit(r) == phase[r] = "tasking" /\ thread[r] \notin {"returned", "raised"}

\* wait_for: a thread that has not begun is not begun any more, another runs on.
TimesOut(r) ==
    /\ Limit(r)
    /\ Answer(r, "timeout")
    /\ thread' = [thread EXCEPT ![r] = IF @ = "queued" THEN "dropped" ELSE @]
    /\ UNCHANGED <<guardVars, store, hung, history, memory>>

-----------------------------------------------------------------------------
(* The thread: _AgentExecutorWrapper.invoke and _manual_fallback. *)

Thread(r, at) == thread' = [thread EXCEPT ![r] = at]
coroutineVars == <<store, status, hung, phase, history, memory>>

\* invoke is over, and with it the callback.
ThreadEnds(r, how) ==
    /\ Thread(r, how)
    /\ lastDecision' = [lastDecision EXCEPT ![r] = "None"]

ThreadBegins(r) ==
    /\ thread[r] = "queued" /\ Cardinality(Busy) < Workers
    /\ Thread(r, "thinking")
    /\ UNCHANGED <<guardVars, coroutineVars>>

\* The agent, or the fallback, is about to call a tool.
CallsTool(r) ==
    /\ AskTriage(r)
    /\ \/ thread[r] = "thinking" /\ Thread(r, "tool")
       \/ thread[r] = "fallback" /\ r \in Showing /\ Thread(r, "trying")
    /\ UNCHANGED coroutineVars

\* LangChain runs the tool whatever on_tool_start did.
AgentRuns == {"passed", "raised"}

\* The fallback runs it unless on_tool_start raised.
FallbackRuns == {"passed"}

\* on_tool_start is over, the tool begins.
RunsTool(r) ==
    /\ \/ thread[r] = "tool" /\ guard[r] \in AgentRuns /\ Thread(r, "working")
       \/ thread[r] = "trying" /\ guard[r] \in FallbackRuns /\ Thread(r, "using")
    /\ UNCHANGED <<guardVars, coroutineVars>>

\* The tool has ended: the agent goes on, the fallback returns what came of it.
ToolEnds(r) ==
    /\ CallOver(r)
    /\ \/ thread[r] = "working" /\ Thread(r, "thinking") /\ UNCHANGED lastDecision
       \/ thread[r] = "using" /\ ThreadEnds(r, "returned")
    /\ UNCHANGED coroutineVars

\* In the fallback a blocked call is a result, "blocked".
Blocked(r) ==
    /\ thread[r] = "trying" /\ guard[r] = "raised"
    /\ CallOver(r) /\ ThreadEnds(r, "returned")
    /\ UNCHANGED coroutineVars

\* The agent ends with an answer.
AgentReturns(r) ==
    /\ thread[r] = "thinking" /\ ThreadEnds(r, "returned")
    /\ UNCHANGED <<guard, queue, outside, dealt, coroutineVars>>

\* The agent raises for a reason of its own, a failed tool for one.
AgentRaises(r) ==
    /\ thread[r] = "thinking" /\ Thread(r, "fallback")
    /\ UNCHANGED <<guardVars, coroutineVars>>

\* An agent that shows no tools attribute: the fallback raises in turn.
FallbackRaises(r) ==
    /\ thread[r] = "fallback" /\ r \notin Showing
    /\ ThreadEnds(r, "raised")
    /\ UNCHANGED <<guard, queue, outside, dealt, coroutineVars>>

Next ==
    \E r \in Runs :
       \/ StartWorkflow(r) \/ BeginRun(r) \/ BeginFails(r) \/ BeginTask(r)
       \/ Record(r) \/ TaskRaises(r) \/ Append(r) \/ AppendFails(r) \/ TimesOut(r)
       \/ RedisHangs(r)
       \/ ThreadBegins(r) \/ CallsTool(r) \/ RunsTool(r) \/ ToolEnds(r) \/ Blocked(r)
       \/ AgentReturns(r) \/ AgentRaises(r) \/ FallbackRaises(r)
       \/ GuardStep(r) /\ UNCHANGED runtimeVars
       \/ OutsideStep(r) /\ UNCHANGED runtimeVars

\* The event loop runs what it has to run and its timers fire, and a call of Redis that does not
\* hang is answered. Nothing is assumed of threads, nor that Redis does not hang.
Fairness ==
    \A r \in Runs :
        /\ WF_vars(BeginRun(r)) /\ WF_vars(BeginTask(r)) /\ WF_vars(TimesOut(r))
        /\ WF_vars(Record(r)) /\ WF_vars(TaskRaises(r)) /\ WF_vars(Append(r))

Spec == Init /\ [][Next]_vars /\ Fairness
-----------------------------------------------------------------------------
(* What is checked. *)

\* Triage allowed this very call, or sent it to the sandbox and engine or container let it go.
Word(r) ==
    \/ "FAST_PATH" \in said[r]
    \/ "SANDBOX" \in said[r] /\ said[r] \cap {"ALLOW", "clean"} # {}

\* The callback lets a call pass, and the fallback runs its tool, only on the word of triage about
\* this very call, or of the sandbox triage sent it to: no failed request, dead engine, full
\* queue, or container that ends late, in an earlier call's wait, is taken for one.  Of the
\* agent's own calls it says nothing: LangChain runs their tools though the callback raised.
PassedOnWord == \A r \in Runs : guard[r] = "passed" \/ thread[r] = "using" => Word(r)

\* A call that was sandboxed is put before an analyst before its tool runs, promoted or not,
\* unless Redis did not take it ("Enqueue for human review regardless").
Reviewed ==
    \A r \in Runs : guard[r] = "passed" /\ lastDecision[r] = "SANDBOX" => r \in dealt

\* What was answered and what was recorded agree, however late the thread comes back: a
\* completed task is in the agent's history and memory, one that timed out is in neither, and
\* a workflow's final status is what one of its runs was told.
RecordsAgree ==
    /\ \A r \in Runs :
          /\ phase[r] = "completed" => r \in history \cap memory
          /\ phase[r] = "timeout" => r \notin history \cup memory
    /\ \A w \in Workflows :
          status[w] \in Final => \E r \in Runs : WorkflowOf[r] = w /\ phase[r] = status[w]

\* A workflow that was accepted comes to a final status, though its agent, the tools or the
\* sandbox hang and though every thread of the executor is taken by tasks given up on, unless
\* Redis leaves one of its runs without an answer.
WorkflowEnds ==
    \A w \in Workflows :
        status[w] \in {"pending", "running"} ~>
            status[w] \in Final \/ \E r \in hung : WorkflowOf[r] = w
=============================================================================
