----------------------------- MODULE TaskGraph -----------------------------
(***************************************************************************)
(* FinanceFlow's autonomous workflow (financeflow/orchestrator.py, behind  *)
(* POST /chat of financeflow/server.py).  Every chat request is a          *)
(* coroutine that plans a graph of tool calls and walks it in order:       *)
(*    fill the inputs - ask AgentGuard-X - run the tool, or ask the        *)
(*    sandbox engine first, or stop the whole graph.                       *)
(* Each emit and each HTTP call suspends it.  AgentGuard-X and the sandbox *)
(* engine decide on their own time: the caller gives up after 10 and 30    *)
(* seconds and takes the step as refused, while the decision may still be  *)
(* made and recorded.                                                      *)
(***************************************************************************)
EXTENDS Integers, Sequences, FiniteSets

CONSTANTS
    Workflows,   \* POST /chat requests
    Graphs       \* the graphs build_task_graph can return: a sequence of steps, each
                 \* [deps : the numbers of the steps it depends on,
                 \*  slot : the placeholder its input is created with]

Slots == {"none", "content", "body", "literal"}

\* A dependency is on an earlier step.
ASSUME GraphsAssumption ==
    /\ Graphs \subseteq Seq([deps : SUBSET Nat, slot : Slots])
    /\ \A g \in Graphs : g # <<>> /\ \A n \in DOMAIN g : g[n].deps \subseteq 1..(n - 1)

VARIABLES
    graph,     \* the plan, <<>> before there is one
    pc,        \* where the coroutine is suspended
    cur,       \* the step the loop is at
    status,    \* TaskNode.status
    verdict,   \* TaskNode.verdict
    input,     \* the steps whose outputs tool_input was filled with
    output,    \* step_outputs: "data", an "error" text, or "none"
    overall,   \* overall_status
    mesh,      \* what AgentGuard-X decided on a step's call, "none" while it has not
    engine     \* what the sandbox engine answered about a step's call, likewise

vars == <<graph, pc, cur, status, verdict, input, output, overall, mesh, engine>>

Steps(w) == DOMAIN graph[w]
Verdicts == {"ALLOW", "SANDBOX", "BLOCKED"}

\* The "verdict" of the engine's JSON: one of the two words it is documented to give, any
\* other text, or nothing that .upper() can be called on.
Words == {"ALLOW", "BLOCK", "other", "null"}

\* f has one mark of S for each step of each workflow.
Marks(f, S) == DOMAIN f = Workflows /\ \A w \in Workflows : f[w] \in [Steps(w) -> S]

TypeOK ==
    /\ graph \in [Workflows -> Graphs \cup {<<>>}]
    /\ pc \in [Workflows -> {"idle", "next", "guard", "route", "sandbox", "stop", "answered", "raised"}]
    /\ cur \in [Workflows -> Nat]
    /\ Marks(status, {"pending", "running", "done", "blocked"})
    /\ Marks(verdict, Verdicts \cup {"none"})
    /\ Marks(mesh, Verdicts \cup {"none"})
    /\ Marks(input, SUBSET Nat)
    /\ Marks(output, {"none", "data", "error"})
    /\ overall \in [Workflows -> {"completed", "blocked"}]
    /\ Marks(engine, Words \cup {"none"})

Init ==
    /\ graph = [w \in Workflows |-> <<>>]
    /\ pc = [w \in Workflows |-> "idle"]
    /\ cur = [w \in Workflows |-> 1]
    /\ status = [w \in Workflows |-> <<>>]
    /\ verdict = [w \in Workflows |-> <<>>]
    /\ input = [w \in Workflows |-> <<>>]
    /\ output = [w \in Workflows |-> <<>>]
    /\ overall = [w \in Workflows |-> "completed"]
    /\ mesh = [w \in Workflows |-> <<>>]
    /\ engine = [w \in Workflows |-> <<>>]

Goto(w, where) == pc' = [pc EXCEPT ![w] = where]
Mark(w, n, what) == status' = [status EXCEPT ![w][n] = what]

----------------------------------------------------------------------------

\* chat and run_query: classify, plan, announce the plan and the start.
Chat(w) ==
    /\ pc[w] = "idle"
    /\ \E g \in Graphs :
          /\ graph' = [graph EXCEPT ![w] = g]
          /\ status' = [status EXCEPT ![w] = [n \in DOMAIN g |-> "pending"]]
          /\ verdict' = [verdict EXCEPT ![w] = [n \in DOMAIN g |-> "none"]]
          /\ input' = [input EXCEPT ![w] = [n \in DOMAIN g |-> {}]]
          /\ output' = [output EXCEPT ![w] = [n \in DOMAIN g |-> "none"]]
          /\ mesh' = [mesh EXCEPT ![w] = [n \in DOMAIN g |-> "none"]]
          /\ engine' = [engine EXCEPT ![w] = [n \in DOMAIN g |-> "none"]]
    /\ Goto(w, "next")
    /\ UNCHANGED <<cur, overall>>

BlockedDeps(w, n) == {m \in graph[w][n].deps : status[w][m] = "blocked"}

\* Slip: the report, too, is filled only from outputs whose data is a dict.
FillFromData(w, n) ==
    {m \in graph[w][n].deps : graph[w][n].slot \in {"content", "body"} /\ output[w][m] = "data"}

\* _fill_inputs: a "content" placeholder takes the output of every dependency that has
\* one, a "body" placeholder that of the first dependency whose data is a dict.  A
\* placeholder written any other way is left as it is.
FillInputs(w, n) ==
    LET withData == {m \in graph[w][n].deps : output[w][m] = "data"} IN
    {m \in graph[w][n].deps :
        \/ graph[w][n].slot = "content" /\ output[w][m] # "none"
        \/ graph[w][n].slot = "body" /\ m \in withData /\ \A k \in withData : m <= k}

\* The head of the loop in execute_graph, and _execute_step up to the guard's call.
Visit(w) ==
    LET n == cur[w] IN
    /\ pc[w] = "next" /\ n \in Steps(w)
    /\ IF BlockedDeps(w, n) # {}
       THEN /\ Mark(w, n, "blocked")
            /\ overall' = [overall EXCEPT ![w] = "blocked"]
            /\ cur' = [cur EXCEPT ![w] = n + 1]
            /\ UNCHANGED <<pc, input>>
       ELSE /\ input' = [input EXCEPT ![w][n] = FillInputs(w, n)]
            /\ Mark(w, n, "running")
            /\ Goto(w, "guard")
            /\ UNCHANGED <<overall, cur>>
    /\ UNCHANGED <<graph, verdict, output, mesh, engine>>

\* AgentGuard-X decides on a call it was sent, whether or not anyone still waits.
MeshDecides(w) ==
    /\ \E n \in Steps(w), v \in Verdicts :
          /\ verdict[w][n] # "none" \/ (n = cur[w] /\ pc[w] = "guard")
          /\ mesh[w][n] = "none"
          /\ mesh' = [mesh EXCEPT ![w][n] = v]
    /\ UNCHANGED <<graph, pc, cur, status, verdict, input, output, overall, engine>>

Verdict(w, v) ==
    /\ verdict' = [verdict EXCEPT ![w][cur[w]] = v]
    /\ Goto(w, "route")
    /\ UNCHANGED <<graph, cur, status, input, output, overall, mesh, engine>>

GuardReplies(w) ==
    /\ pc[w] = "guard" /\ mesh[w][cur[w]] # "none"
    /\ Verdict(w, mesh[w][cur[w]])

\* Slip: no answer is no objection.
GuardFailsOpen(w) == pc[w] = "guard" /\ Verdict(w, "ALLOW")

\* check_with_guard: unreachable, too late or an HTTP error, all fail closed.
GuardFails(w) == pc[w] = "guard" /\ Verdict(w, "BLOCKED")

\* Slip: a failed tool gives its step a status nobody else knows.
RunToolOrFail(w) ==
    /\ \E o \in {"data", "error"} :
          /\ output' = [output EXCEPT ![w][cur[w]] = o]
          /\ Mark(w, cur[w], IF o = "data" THEN "done" ELSE "failed")
    /\ cur' = [cur EXCEPT ![w] = @ + 1]
    /\ Goto(w, "next")
    /\ UNCHANGED overall

\* execute_tool_sync holds the event loop; its errors are outputs like any other.
RunTool(w) ==
    /\ \E o \in {"data", "error"} : output' = [output EXCEPT ![w][cur[w]] = o]
    /\ Mark(w, cur[w], "done")
    /\ cur' = [cur EXCEPT ![w] = @ + 1]
    /\ Goto(w, "next")
    /\ UNCHANGED overall

\* Slip: the loop goes on with the next step.
SkipStep(w) ==
    /\ Mark(w, cur[w], "blocked")
    /\ overall' = [overall EXCEPT ![w] = "blocked"]
    /\ cur' = [cur EXCEPT ![w] = @ + 1]
    /\ Goto(w, "next")
    /\ UNCHANGED output

\* Slip: the overall status is not set.
StopSilently(w) ==
    /\ Mark(w, cur[w], "blocked")
    /\ Goto(w, "stop")
    /\ UNCHANGED <<overall, cur, output>>

\* The hard stop; the steps not yet visited follow one by one.
HardStop(w) ==
    /\ Mark(w, cur[w], "blocked")
    /\ overall' = [overall EXCEPT ![w] = "blocked"]
    /\ Goto(w, "stop")
    /\ UNCHANGED <<cur, output>>

\* Whatever is neither a refusal nor SANDBOX runs the tool; /execute has no fourth verdict.
Route(w) ==
    LET v == verdict[w][cur[w]] IN
    /\ pc[w] = "route"
    /\ \/ v = "BLOCKED" /\ HardStop(w)
       \/ v = "SANDBOX" /\ Goto(w, "sandbox") /\ UNCHANGED <<cur, status, output, overall>>
       \/ v \notin {"BLOCKED", "SANDBOX"} /\ RunTool(w)
    /\ UNCHANGED <<graph, verdict, input, mesh, engine>>

\* The engine answers a call it was sent, whether or not anyone still waits.
EngineAnswers(w) ==
    /\ \E n \in Steps(w), v \in Words :
          /\ verdict[w][n] = "SANDBOX" /\ ~(n = cur[w] /\ pc[w] = "route")
          /\ engine[w][n] = "none"
          /\ engine' = [engine EXCEPT ![w][n] = v]
    /\ UNCHANGED <<graph, pc, cur, status, verdict, input, output, overall, mesh>>

\* The engine's word reaches _execute_step, which stops on BLOCK alone: any other text
\* promotes the call, and no text raises outside every handler.
EngineReplies(w) ==
    LET v == engine[w][cur[w]] IN
    /\ pc[w] = "sandbox"
    /\ \/ v = "BLOCK" /\ HardStop(w)
       \/ v = "null" /\ Goto(w, "raised") /\ UNCHANGED <<cur, status, output, overall>>
       \/ v \notin {"none", "BLOCK", "null"} /\ RunTool(w)
    /\ UNCHANGED <<graph, verdict, input, mesh, engine>>

\* _sandbox_evaluate: unreachable, too late, or not a 200, is BLOCK.
EngineFails(w) ==
    /\ pc[w] = "sandbox" /\ HardStop(w)
    /\ UNCHANGED <<graph, verdict, input, mesh, engine>>

MarkRemaining(w) ==
    /\ pc[w] = "stop"
    /\ \E n \in Steps(w) :
          /\ status[w][n] = "pending"
          /\ \A m \in Steps(w) : m < n => status[w][m] # "pending"
          /\ Mark(w, n, "blocked")
    /\ UNCHANGED <<graph, pc, cur, verdict, input, output, overall, mesh, engine>>

\* Slip: the break also leaves the function.
AnswerAfterLoop(w) ==
    /\ pc[w] = "next" /\ cur[w] \notin Steps(w)
    /\ Goto(w, "answered")
    /\ UNCHANGED <<graph, cur, status, verdict, input, output, overall, mesh, engine>>

\* execution_complete, the reports, and the answer to the chat request.
Answer(w) ==
    /\ \/ pc[w] = "next" /\ cur[w] \notin Steps(w)
       \/ pc[w] = "stop" /\ \A n \in Steps(w) : status[w][n] # "pending"
    /\ Goto(w, "answered")
    /\ UNCHANGED <<graph, cur, status, verdict, input, output, overall, mesh, engine>>

Answered ==
    /\ \A w \in Workflows : pc[w] \in {"answered", "raised"}
    /\ UNCHANGED vars

Advance(w) ==
    \/ Chat(w) \/ Visit(w) \/ GuardReplies(w) \/ GuardFails(w) \/ Route(w)
    \/ EngineReplies(w) \/ EngineFails(w) \/ MarkRemaining(w) \/ Answer(w)

Next ==
    \/ \E w \in Workflows : Advance(w) \/ MeshDecides(w) \/ EngineAnswers(w)
    \/ Answered

Spec == Init /\ [][Next]_vars

\* The event loop runs every coroutine that can run, and check_with_guard and
\* _sandbox_evaluate have time limits.
Fairness == \A w \in Workflows : WF_vars(Advance(w))
FairSpec == Spec /\ Fairness

----------------------------------------------------------------------------
(* Properties.                                                             *)

\* A tool ran only if AgentGuard-X itself decided ALLOW on this very step, or decided
\* SANDBOX and the engine itself then answered something other than BLOCK; no timeout,
\* lost reply or late decision of _execute_step's calls turns into a run.
FailClosed ==
    \A w \in Workflows : \A n \in Steps(w) :
        status[w][n] = "done" =>
            \/ mesh[w][n] = "ALLOW"
            \/ mesh[w][n] = "SANDBOX" /\ engine[w][n] \in {"ALLOW", "other"}

\* The check of blocked dependencies at the head of execute_graph's loop never finds
\* one (the hard stop comes first), so a report whose content is marked "[auto-populated"
\* is written from the outputs of all the steps it depends on.  The report of the document
\* plan is marked "[from step-1]", which _fill_inputs passes over: it is written without
\* what the search before it found, and not meant here.
ReportComplete ==
    \A w \in Workflows : \A n \in Steps(w) :
        /\ pc[w] = "next" /\ n = cur[w] => BlockedDeps(w, n) = {}
        /\ status[w][n] = "done" /\ graph[w][n].slot = "content" => input[w][n] = graph[w][n].deps

\* The answer's status tells the truth: it is "completed" just when every step's tool
\* ran, and no step is left pending or running whichever way the graph was left.
TruthfulStatus ==
    \A w \in Workflows : pc[w] = "answered" =>
        /\ \A n \in Steps(w) : status[w][n] \in {"done", "blocked"}
        /\ overall[w] = "completed" <=> \A n \in Steps(w) : status[w][n] = "done"

Fate(s) == CASE s = "done" -> "ran" [] s = "blocked" -> "refused" [] OTHER -> "open"

Fates == [w \in Workflows |-> [n \in Steps(w) |-> Fate(status[w][n])]]

Promise == INSTANCE WorkflowPromise WITH fate <- Fates

\* The executor keeps the promise: dependencies first, and nothing after a refusal.
KeepsPromise == Promise!Spec

\* Every chat request is answered, with its result or with the 500 of what was raised.
EventuallyAnswered == \A w \in Workflows : <>(pc[w] \in {"answered", "raised"})
=============================================================================
