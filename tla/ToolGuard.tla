----------------------------- MODULE ToolGuard -----------------------------
(***************************************************************************)
(* AgentGuard-X inside an agent's process: the callback that asks the      *)
(* triage service before a tool runs (gateway/langchain_hook.py), the      *)
(* sandbox a suspicious call is first tried in (sandbox_bridge.py, with    *)
(* docker_runner.py when the sandbox engine does not answer) and the       *)
(* review queue (review/queue.py).  The callback is synchronous code of    *)
(* the thread that runs the agent.  The service, the engine and the        *)
(* container decide in steps of their own, which the callback may learn of *)
(* late, or never; the threads of other runs and analysts act in between.  *)
(*                                                                         *)
(* AgentRuntime composes these actions with the agents.                    *)
(***************************************************************************)
EXTENDS Naturals, FiniteSets

CONSTANT Runs      \* the executions of an agent's task

VARIABLES
    guard,         \* of a run's callback: where its current tool call is
    lastDecision,  \* last_decision: the routing decision of the last reply
    queue,         \* Redis: the review queue, one member per run
    said,          \* what service, engine and container have said of this very call, heard or not
    holder,        \* result_holder of this call's container, empty when there is none
    late,          \* the runs with a container that was given up on and runs on
    dealt          \* history: the runs whose call was queued, or refused by Redis

outside == <<said, holder, late>>
guardVars == <<guard, lastDecision, queue, outside, dealt>>

Decisions == {"FAST_PATH", "SANDBOX", "BLOCK"}
EngineVerdicts == {"ALLOW", "DENY"}
Outputs == {"clean", "anomalous"}
Stages == {"idle", "asking", "engine", "docker", "promoted", "killed", "passed", "raised"}

GuardTypeOK ==
    /\ guard \in [Runs -> Stages]
    /\ lastDecision \in [Runs -> Decisions \cup {"None"}]
    /\ queue \subseteq Runs
    /\ said \in [Runs -> SUBSET (Decisions \cup EngineVerdicts \cup Outputs)]
    /\ holder \in [Runs -> Outputs \cup {"empty", "error"}]
    /\ late \subseteq Runs /\ dealt \subseteq Runs

GuardInit ==
    /\ guard = [r \in Runs |-> "idle"]
    /\ lastDecision = [r \in Runs |-> "None"]
    /\ queue = {} /\ late = {} /\ dealt = {}
    /\ said = [r \in Runs |-> {}]
    /\ holder = [r \in Runs |-> "empty"]

To(r, stage) == guard' = [guard EXCEPT ![r] = stage]
Says(r, what) == said' = [said EXCEPT ![r] = @ \cup {what}]

-----------------------------------------------------------------------------
(* on_tool_start: one call to the triage service, and what follows from it. *)

AskTriage(r) ==
    /\ guard[r] = "idle"
    /\ To(r, "asking")
    /\ UNCHANGED <<lastDecision, queue, outside, dealt>>

\* The service decides, which the callback may or may not come to hear.
ServiceDecides(r, decision) ==
    /\ guard[r] = "asking" /\ said[r] = {}
    /\ Says(r, decision)
    /\ UNCHANGED <<guard, lastDecision, queue, holder, late, dealt>>

\* Unreachable, too slow, an error status, no JSON: blocked, and last_decision stays as it was.
TriageFails(r) ==
    /\ guard[r] = "asking"
    /\ To(r, "raised")
    /\ UNCHANGED <<lastDecision, queue, outside, dealt>>

\* Slip: the stage is named after the decision.
AfterByName(decision) == IF decision = "BLOCK" THEN "raised" ELSE decision

\* A reply with no routing_decision is one to block.
After(decision) ==
    CASE decision = "BLOCK" -> "raised"
      [] decision = "SANDBOX" -> "engine"
      [] OTHER -> "passed"

TriageReplies(r, decision) ==
    /\ guard[r] = "asking" /\ decision \in said[r]
    /\ lastDecision' = [lastDecision EXCEPT ![r] = decision]
    /\ To(r, After(decision))
    /\ UNCHANGED <<queue, outside, dealt>>

-----------------------------------------------------------------------------
(* execute_sandbox: the engine, and the local container when it fails. *)

Judge(r, promote) ==
    /\ To(r, IF promote THEN "promoted" ELSE "killed")
    /\ UNCHANGED <<lastDecision, queue, dealt>>

EngineDecides(r, verdict) ==
    /\ guard[r] = "engine" /\ said[r] \cap EngineVerdicts = {}
    /\ Says(r, verdict)
    /\ UNCHANGED <<guard, lastDecision, queue, holder, late, dealt>>

EngineReplies(r, verdict) ==
    /\ guard[r] = "engine" /\ verdict \in said[r]
    /\ Judge(r, verdict = "ALLOW")
    /\ UNCHANGED outside

\* No engine, a timeout, or a reply it cannot read, whatever its verdict: a container of this
\* call's own is to decide, with a result_holder of its own.
EngineFails(r) ==
    /\ guard[r] = "engine"
    /\ To(r, "docker")
    /\ UNCHANGED <<lastDecision, queue, outside, dealt>>

\* The thread of the container writes what came of it: its output, or the error of the daemon.
ContainerEnds(r, output) ==
    /\ guard[r] = "docker" /\ holder[r] = "empty"
    /\ holder' = [holder EXCEPT ![r] = output]
    /\ IF output \in Outputs THEN Says(r, output) ELSE UNCHANGED said
    /\ UNCHANGED <<guard, lastDecision, queue, late, dealt>>

\* No docker, an error inside, or no end within SANDBOX_TIMEOUT_SECONDS: KILL.
PromoteOnError == FALSE

\* execute_in_sandbox is over, and its result_holder with it.
Leave(r) == holder' = [holder EXCEPT ![r] = "empty"]

\* PROMOTE unless the network could be reached or the tool is execute_shell.
ContainerAnswers(r) ==
    /\ guard[r] = "docker" /\ holder[r] # "empty"
    /\ Judge(r, IF holder[r] = "error" THEN PromoteOnError ELSE holder[r] = "clean")
    /\ Leave(r) /\ UNCHANGED <<said, late>>

\* There is no docker, or the wait is over: a container that merely is late runs on, and its
\* thread with it.
ContainerFails(r) ==
    /\ guard[r] = "docker"
    /\ Judge(r, PromoteOnError)
    /\ late' \in {late, late \cup {r}}
    /\ Leave(r) /\ UNCHANGED said

\* Slip: one result_holder for all calls.
SharedHolder(r, output) == [holder EXCEPT ![r] = output]

\* Each execute_in_sandbox has a result_holder of its own: nobody reads a late one any more.
OwnHolder(r, output) == holder

\* The container that was given up on ends, whatever its run is at by then.
LateContainerEnds(r, output) ==
    /\ r \in late /\ late' = late \ {r}
    /\ holder' = OwnHolder(r, output)
    /\ UNCHANGED <<guard, lastDecision, queue, said, dealt>>

\* Slip: only what is killed is put before an analyst.
EnqueueKilled(r) == queue' = IF guard[r] = "promoted" THEN queue ELSE queue \cup {r}

\* SANDBOX begins at the score floor of the queue, which drops nothing then.
Enqueue(r) == queue' = queue \cup {r}

\* Back in on_tool_start: queued for review whatever the verdict, then raised or passed.
Conclude(r, stored) ==
    /\ guard[r] \in {"promoted", "killed"}
    /\ IF stored THEN Enqueue(r) ELSE UNCHANGED queue
    /\ dealt' = IF stored THEN dealt \cup (queue' \cap {r}) ELSE dealt \cup {r}
    /\ To(r, IF guard[r] = "promoted" THEN "passed" ELSE "raised")
    /\ UNCHANGED <<lastDecision, outside>>

\* The call is over: the next one of the callback starts from idle.
CallOver(r) ==
    /\ To(r, "idle")
    /\ said' = [said EXCEPT ![r] = {}]
    /\ dealt' = dealt \ {r}
    /\ UNCHANGED <<queue, holder, late>>

-----------------------------------------------------------------------------
(* An analyst takes what is first in the queue. The call in question has been *)
(* answered by then: what is decided of it (submit_decision) goes to the      *)
(* knowledge base, and no part of the guard reads it back.                    *)

Dequeue(r) ==
    /\ r \in queue /\ queue' = queue \ {r}
    /\ UNCHANGED <<guard, lastDecision, outside, dealt>>

\* The steps the thread of run r takes inside on_tool_start.
GuardStep(r) ==
    \/ TriageFails(r)
    \/ \E decision \in Decisions : TriageReplies(r, decision)
    \/ \E verdict \in EngineVerdicts : EngineReplies(r, verdict)
    \/ EngineFails(r)
    \/ ContainerAnswers(r)
    \/ ContainerFails(r)
    \/ \E stored \in BOOLEAN : Conclude(r, stored)

\* The steps of those it asks.
OutsideStep(r) ==
    \/ \E decision \in Decisions : ServiceDecides(r, decision)
    \/ \E verdict \in EngineVerdicts : EngineDecides(r, verdict)
    \/ \E output \in Outputs \cup {"error"} : ContainerEnds(r, output) \/ LateContainerEnds(r, output)
    \/ Dequeue(r)
=============================================================================
