--------------------------- MODULE GatewayCallback ---------------------------
(***************************************************************************)
(* The gateway as an agent's process embeds it: a handler puts every tool  *)
(* call before the pipeline and every output through the sanitizer         *)
(* (app/callback_handler.py, app/output_sanitizer.py), in the process that *)
(* GatewayStartup sets up; TriageClient runs beside it.                    *)
(*                                                                         *)
(* Tool calls of one handler overlap: each awaits the pipeline and the     *)
(* threads of Presidio.  The pipeline (GatewayPipeline) is reduced to its  *)
(* decision, or an exception.  The handler leaves raise_error at its       *)
(* default, so LangChain (external) logs what it raises: the tool runs all *)
(* the same, and the agent is handed the output as the tool returned it.   *)
(***************************************************************************)
EXTENDS GatewayStartup, TriageClient

CONSTANT Calls      \* tool calls of the agents that share the handler

ASSUME CallsAssumption == IsFiniteSet(Calls)

VARIABLES
    call,           \* where each call is
    stats,          \* the handler's counters
    decided         \* history: what the pipeline said of the call

callVars == <<call, stats, decided>>
vars == <<startupVars, clientVars, callVars>>

Decisions == {"ALLOW", "SANDBOX", "BLOCK"}
Counters == {"intercepted", "allowed", "sandboxed", "blocked"}
Started == {"running", "analyzing", "anonymizing", "scanning", "handed", "errored"}

TypeOK ==
    /\ StartupTypeOK /\ ClientTypeOK
    /\ call \in [Calls -> {"idle", "deciding", "refused"} \cup Started]
    /\ stats \in [Counters -> 0..Cardinality(Calls)]
    /\ decided \in [Calls -> Decisions \cup {"none", "error"}]

Init ==
    /\ StartupInit /\ ClientInit
    /\ call = [k \in Calls |-> "idle"]
    /\ stats = [n \in Counters |-> 0]
    /\ decided = [k \in Calls |-> "none"]

Goes(k, to) == call' = [call EXCEPT ![k] = to]
Counts(name) == stats' = [stats EXCEPT ![name] = @ + 1]

-----------------------------------------------------------------------------
(* on_tool_start, before and after it awaits process_request. *)

OnToolStart(k) ==
    /\ stage = "serving" /\ call[k] = "idle"
    /\ Goes(k, "deciding") /\ Counts("intercepted")
    /\ UNCHANGED decided

\* Slip: a block is raised before it is counted.
ActsRaisesFirst(k, decision) ==
    CASE decision = "ALLOW" -> Goes(k, "running") /\ Counts("allowed")
      [] decision = "SANDBOX" -> Goes(k, "running") /\ Counts("sandboxed")
      [] OTHER -> Goes(k, "refused") /\ UNCHANGED stats

\* SANDBOX is counted and goes on, BLOCK is counted and raised.
Acts(k, decision) ==
    CASE decision = "ALLOW" -> Goes(k, "running") /\ Counts("allowed")
      [] decision = "SANDBOX" -> Goes(k, "running") /\ Counts("sandboxed")
      [] OTHER -> Goes(k, "refused") /\ Counts("blocked")

Decide(k, decision) ==
    /\ call[k] = "deciding"
    /\ Acts(k, decision)
    /\ decided' = [decided EXCEPT ![k] = decision]

\* process_request raises: so does on_tool_start, and in none of the counters.
DecideFails(k) ==
    /\ call[k] = "deciding"
    /\ Goes(k, "refused")
    /\ decided' = [decided EXCEPT ![k] = "error"]
    /\ UNCHANGED stats

\* LangChain logs what on_tool_start raised, and runs the tool.
RunsAnyway(k) ==
    /\ call[k] = "refused" /\ Goes(k, "running")
    /\ UNCHANGED <<stats, decided>>

-----------------------------------------------------------------------------
(* on_tool_end and sanitize_tool_output. *)

ToolFails(k) ==
    /\ call[k] = "running" /\ Goes(k, "errored")
    /\ UNCHANGED <<stats, decided>>

\* The tool has returned: without a sanitizer or a scanner, that is the end of it.
OnToolEnd(k) ==
    /\ call[k] = "running"
    /\ Goes(k, IF sanitizer /\ scanner THEN "analyzing" ELSE "handed")
    /\ UNCHANGED <<stats, decided>>

\* The analyzer's thread: personal data, or none and the text stays as it is.
Analyze(k) ==
    /\ call[k] = "analyzing"
    /\ Goes(k, "anonymizing") \/ Goes(k, "scanning")
    /\ UNCHANGED <<stats, decided>>

Anonymize(k) ==
    /\ call[k] = "anonymizing" /\ Goes(k, "scanning")
    /\ UNCHANGED <<stats, decided>>

\* Either thread raises, and so does on_tool_end, which LangChain logs.
PresidioFails(k) ==
    /\ call[k] \in {"analyzing", "anonymizing"}
    /\ Goes(k, "handed")
    /\ UNCHANGED <<stats, decided>>

\* scan_and_redact is a coroutine function: the thread it is given to returns the coroutine,
\* which nobody awaits and which does not unpack into a text and its matches.
Scan(k) ==
    /\ call[k] = "scanning"
    /\ Goes(k, "handed")
    /\ UNCHANGED <<stats, decided>>

Handler ==
    \E k \in Calls :
       \/ OnToolStart(k) \/ DecideFails(k) \/ RunsAnyway(k) \/ ToolFails(k) \/ OnToolEnd(k)
       \/ Analyze(k) \/ Anonymize(k) \/ PresidioFails(k) \/ Scan(k)
       \/ \E decision \in Decisions : Decide(k, decision)

Next ==
    \/ Startup /\ UNCHANGED <<clientVars, callVars>>
    \/ Shutdown /\ UNCHANGED <<clientVars, callVars>>
    \/ Handler /\ UNCHANGED <<startupVars, clientVars>>
    \/ stage = "serving" /\ Client /\ UNCHANGED <<startupVars, callVars>>

\* Every step of the start has an end: a time limit, or work of its own.
Spec == Init /\ [][Next]_vars /\ WF_vars(Startup /\ UNCHANGED <<clientVars, callVars>>)
-----------------------------------------------------------------------------
(* What is checked. *)

\* The counters are the decisions of the pipeline, in whatever order they come to overlapping
\* calls, and only calls whose check failed, or is still under way, are intercepted and in no other
\* counter. They say nothing of which tools ran.
CountsAgree ==
    LET Said(d) == Cardinality({k \in Calls : decided[k] = d})
        UnderWay == Cardinality({k \in Calls : call[k] = "deciding"})
    IN /\ stats["allowed"] = Said("ALLOW") /\ stats["sandboxed"] = Said("SANDBOX")
       /\ stats["blocked"] = Said("BLOCK")
       /\ stats["intercepted"] = stats["allowed"] + stats["sandboxed"] + stats["blocked"]
                                 + Said("error") + UnderWay

\* ALLOW and BLOCK are only what the engine said of this very request, and every SANDBOX the
\* client gave itself is a failure counted, unless no engine is configured.
AnswerIsOurs ==
    /\ \A q \in Asks : ask[q] \in {"ALLOW", "BLOCK"} => said[q] = ask[q]
    /\ failures <= Cardinality({q \in Asks : ask[q] = "SANDBOX"})
    /\ configured =>
          Cardinality({q \in Asks : ask[q] = "SANDBOX" /\ said[q] # "SANDBOX"}) <= failures

\* Whatever fails, the process comes to serve ("without crashing the application").
StartupEnds == <>(stage = "serving")
=============================================================================
