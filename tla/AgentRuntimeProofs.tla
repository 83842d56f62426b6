------------------------- MODULE AgentRuntimeProofs -------------------------
(* What the agents' runtime and the guard in it keep for any executions,   *)
(* any workflows they name, any agents and any number of threads.          *)
EXTENDS AgentRuntime, TLAPS

(* A step is one of the guard's or of those it asks, which leaves the      *)
(* runtime alone, or one of the runtime, which touches the guard where a   *)
(* call begins and ends.                                                   *)

GuardAlone(r) == (GuardStep(r) \/ OutsideStep(r)) /\ UNCHANGED runtimeVars

Coroutine(r) ==
    \/ StartWorkflow(r) \/ BeginRun(r) \/ BeginFails(r) \/ BeginTask(r)
    \/ Record(r) \/ TaskRaises(r) \/ Append(r) \/ AppendFails(r) \/ TimesOut(r)

OnThread(r) ==
    \/ ThreadBegins(r) \/ CallsTool(r) \/ RunsTool(r) \/ ToolEnds(r) \/ Blocked(r)
    \/ AgentReturns(r) \/ AgentRaises(r) \/ FallbackRaises(r)

LEMMA StepKinds ==
    ASSUME Next PROVE \E r \in Runs : GuardAlone(r) \/ Coroutine(r) \/ RedisHangs(r) \/ OnThread(r)
BY DEF Next, GuardAlone, Coroutine, OnThread

\* A coroutine touches nothing of the guard, a thread nothing of the coroutines.
LEMMA CoroutineFrame == ASSUME NEW r \in Runs, Coroutine(r) \/ RedisHangs(r) PROVE UNCHANGED guardVars
BY DEF RedisHangs, Coroutine, StartWorkflow, BeginRun, BeginFails, BeginTask, Record, TaskRaises, Append,
       AppendFails, TimesOut

LEMMA ThreadFrame == ASSUME NEW r \in Runs, OnThread(r) PROVE UNCHANGED coroutineVars
BY DEF OnThread, ThreadBegins, CallsTool, RunsTool, ToolEnds, Blocked, AgentReturns, AgentRaises, FallbackRaises

\* What a thread's step does to the guard: nothing, a call begins, a call ends, or the callback.
LEMMA ThreadOnGuard ==
    ASSUME NEW r \in Runs, OnThread(r)
    PROVE  \/ UNCHANGED guardVars
           \/ AskTriage(r)
           \/ CallOver(r) /\ lastDecision' \in {lastDecision, [lastDecision EXCEPT ![r] = "None"]}
           \/ UNCHANGED <<guard, queue, outside, dealt>>
              /\ lastDecision' = [lastDecision EXCEPT ![r] = "None"]
BY DEF OnThread, ThreadBegins, CallsTool, RunsTool, ToolEnds, Blocked, AgentReturns, AgentRaises,
       FallbackRaises, ThreadEnds

-----------------------------------------------------------------------------
(* Types. *)

LEMMA GuardTypeStep == TypeOK /\ [Next]_vars => GuardTypeOK'
<1> SUFFICES ASSUME TypeOK, [Next]_vars PROVE GuardTypeOK'
  OBVIOUS
<1> USE DEF TypeOK, GuardTypeOK, Stages, Decisions
<1> USE DEF outside
<1>1. ASSUME NEW r \in Runs, GuardStep(r) PROVE GuardTypeOK'
  <2>1. CASE TriageFails(r)
    BY <2>1 DEF TriageFails, To
  <2>2. ASSUME NEW decision \in Decisions, TriageReplies(r, decision) PROVE GuardTypeOK'
    BY <2>2 DEF TriageReplies, After, To
  <2>3. ASSUME NEW verdict \in EngineVerdicts, EngineReplies(r, verdict) PROVE GuardTypeOK'
    BY <2>3 DEF EngineReplies, Judge, To
  <2>4. CASE EngineFails(r)
    BY <2>4 DEF EngineFails, To
  <2>5. CASE ContainerAnswers(r) \/ ContainerFails(r)
    BY <2>5 DEF ContainerAnswers, ContainerFails, Judge, Leave, To
  <2>6. ASSUME NEW stored \in BOOLEAN, Conclude(r, stored) PROVE GuardTypeOK'
    BY <2>6 DEF Conclude, Enqueue, To
  <2>7. QED
    BY <1>1, <2>1, <2>2, <2>3, <2>4, <2>5, <2>6 DEF GuardStep
<1>2. ASSUME NEW r \in Runs, OutsideStep(r) PROVE GuardTypeOK'
  <2>1. ASSUME NEW decision \in Decisions, ServiceDecides(r, decision) PROVE GuardTypeOK'
    BY <2>1 DEF ServiceDecides, Says
  <2>2. ASSUME NEW verdict \in EngineVerdicts, EngineDecides(r, verdict) PROVE GuardTypeOK'
    BY <2>2 DEF EngineDecides, EngineVerdicts, Says
  <2>3. ASSUME NEW output \in Outputs \cup {"error"}, ContainerEnds(r, output) PROVE GuardTypeOK'
    BY <2>3 DEF ContainerEnds, Outputs, Says
  <2>4. ASSUME NEW output \in Outputs \cup {"error"}, LateContainerEnds(r, output) PROVE GuardTypeOK'
    BY <2>4 DEF LateContainerEnds, OwnHolder
  <2>5. CASE Dequeue(r)
    BY <2>5 DEF Dequeue
  <2>6. QED
    BY <1>2, <2>1, <2>2, <2>3, <2>4, <2>5 DEF OutsideStep
<1>3. ASSUME NEW r \in Runs, OnThread(r) PROVE GuardTypeOK'
  BY <1>3, ThreadOnGuard DEF AskTriage, CallOver, To, guardVars
<1>4. ASSUME UNCHANGED guardVars PROVE GuardTypeOK'
  BY <1>4 DEF guardVars
<1>5. QED
  BY <1>1, <1>2, <1>3, <1>4, StepKinds, CoroutineFrame DEF GuardAlone, vars

LEMMA TypeStep == TypeOK /\ [Next]_vars => TypeOK'
<1> SUFFICES ASSUME TypeOK, [Next]_vars PROVE TypeOK'
  OBVIOUS
<1>g. GuardTypeOK'
  BY GuardTypeStep
<1> USE RuntimeAssumption DEF TypeOK, Phases, Threads, Working, Final
<1>1. ASSUME NEW r \in Runs, Coroutine(r) PROVE TypeOK'
  <2>1. CASE StartWorkflow(r) \/ BeginRun(r) \/ BeginTask(r)
    BY <1>g, <2>1 DEF StartWorkflow, BeginRun, BeginTask, Answered, Enter, Status
  <2>2. CASE BeginFails(r) \/ TaskRaises(r) \/ TimesOut(r)
    BY <1>g, <2>2 DEF BeginFails, TaskRaises, TimesOut, Answered, Answer, Enter, Status
  <2>3. CASE Record(r)
    BY <1>g, <2>3 DEF Record, Enter
  <2>4. CASE Append(r) \/ AppendFails(r)
    BY <1>g, <2>4 DEF Append, AppendFails, Answered, Answer, Enter, Status
  <2>5. QED
    BY <1>1, <2>1, <2>2, <2>3, <2>4 DEF Coroutine
<1>2. ASSUME NEW r \in Runs, OnThread(r) PROVE TypeOK'
  <2>1. UNCHANGED coroutineVars
    BY <1>2, ThreadFrame
  <2>2. thread' \in [Runs -> Threads]
    BY <1>2
    DEF OnThread, ThreadBegins, CallsTool, RunsTool, ToolEnds, Blocked, AgentReturns, AgentRaises,
        FallbackRaises, ThreadEnds, Thread
  <2>3. QED
    BY <1>g, <2>1, <2>2 DEF coroutineVars
<1>3. ASSUME UNCHANGED runtimeVars PROVE TypeOK'
  BY <1>g, <1>3 DEF runtimeVars
<1>r. ASSUME NEW r \in Runs, RedisHangs(r) PROVE TypeOK'
  BY <1>g, <1>r DEF RedisHangs
<1>4. QED
  BY <1>1, <1>2, <1>3, <1>r, StepKinds DEF GuardAlone, vars

\* Every reachable state of any executions has its types.
THEOREM TypeCorrect == Spec => []TypeOK
<1>1. Init => TypeOK
  BY DEF Init, TypeOK, GuardInit, GuardTypeOK, Stages, Decisions, Phases, Threads
<1>2. QED
  BY <1>1, TypeStep, PTL DEF Spec

-----------------------------------------------------------------------------
(* The guard. *)

\* Where a call is in the sandbox triage has sent it there; what the container wrote is its own
\* word; what is promoted already has its word; a tool is at work once on_tool_start is over, the
\* fallback's in a call that passed.
Justified ==
    \A r \in Runs :
       /\ guard[r] \in {"engine", "docker", "promoted", "killed"} => "SANDBOX" \in said[r]
       /\ holder[r] = "clean" => "clean" \in said[r]
       /\ holder[r] # "empty" => guard[r] = "docker"
       /\ guard[r] \in {"promoted", "passed"} => Word(r)
       /\ thread[r] = "using" => guard[r] = "passed"
       /\ thread[r] = "working" => guard[r] \in {"passed", "raised"}

GuardInv == TypeOK /\ Justified /\ Reviewed

\* Inside on_tool_start.
LEMMA GuardStepJustified ==
    ASSUME TypeOK, Justified, NEW r \in Runs, GuardStep(r), UNCHANGED thread
    PROVE  Justified'
<1> USE DEF Justified, Word, outside
<1>a. /\ guard \in [Runs -> Stages]
      /\ said \in [Runs -> SUBSET (Decisions \cup EngineVerdicts \cup Outputs)]
      /\ holder \in [Runs -> Outputs \cup {"empty", "error"}]
  BY DEF TypeOK, GuardTypeOK
<1>1. CASE TriageFails(r)
  BY <1>a, <1>1 DEF TriageFails, To
<1>2. ASSUME NEW decision \in Decisions, TriageReplies(r, decision) PROVE Justified'
  BY <1>a, <1>2 DEF TriageReplies, After, To, Decisions
<1>3. ASSUME NEW verdict \in EngineVerdicts, EngineReplies(r, verdict) PROVE Justified'
  BY <1>a, <1>3 DEF EngineReplies, Judge, To
<1>4. CASE EngineFails(r)
  BY <1>a, <1>4 DEF EngineFails, To
<1>5. CASE ContainerAnswers(r)
  BY <1>a, <1>5 DEF ContainerAnswers, PromoteOnError, Judge, Leave, To
<1>6. CASE ContainerFails(r)
  BY <1>a, <1>6 DEF ContainerFails, PromoteOnError, Judge, Leave, To
<1>7. ASSUME NEW stored \in BOOLEAN, Conclude(r, stored) PROVE Justified'
  BY <1>a, <1>7 DEF Conclude, To
<1>8. QED
  BY <1>1, <1>2, <1>3, <1>4, <1>5, <1>6, <1>7 DEF GuardStep

\* What service, engine and container add to what was said takes no word back, and a container
\* that was given up on writes where nobody reads.
LEMMA OutsideStepJustified ==
    ASSUME TypeOK, Justified, NEW r \in Runs, OutsideStep(r), UNCHANGED thread
    PROVE  Justified'
<1> USE DEF Justified, Word, outside
<1>a. /\ guard \in [Runs -> Stages]
      /\ said \in [Runs -> SUBSET (Decisions \cup EngineVerdicts \cup Outputs)]
      /\ holder \in [Runs -> Outputs \cup {"empty", "error"}]
  BY DEF TypeOK, GuardTypeOK
<1>1. ASSUME NEW decision \in Decisions, ServiceDecides(r, decision) PROVE Justified'
  BY <1>a, <1>1 DEF ServiceDecides, Says
<1>2. ASSUME NEW verdict \in EngineVerdicts, EngineDecides(r, verdict) PROVE Justified'
  BY <1>a, <1>2 DEF EngineDecides, Says
<1>3. ASSUME NEW output \in Outputs \cup {"error"}, ContainerEnds(r, output) PROVE Justified'
  BY <1>a, <1>3 DEF ContainerEnds, Says, Outputs
<1>4. ASSUME NEW output \in Outputs \cup {"error"}, LateContainerEnds(r, output) PROVE Justified'
  BY <1>a, <1>4 DEF LateContainerEnds, OwnHolder
<1>5. CASE Dequeue(r)
  BY <1>a, <1>5 DEF Dequeue
<1>6. QED
  BY <1>1, <1>2, <1>3, <1>4, <1>5 DEF OutsideStep

\* A call begins where none was, and is over where its tool is not at work any more.
LEMMA ThreadStepJustified ==
    ASSUME TypeOK, Justified, NEW r \in Runs, OnThread(r)
    PROVE  Justified'
<1> USE DEF Justified, Word, outside
<1>a. /\ guard \in [Runs -> Stages] /\ thread \in [Runs -> Threads]
      /\ said \in [Runs -> SUBSET (Decisions \cup EngineVerdicts \cup Outputs)]
      /\ holder \in [Runs -> Outputs \cup {"empty", "error"}]
  BY DEF TypeOK, GuardTypeOK
<1>1. CASE ThreadBegins(r) \/ AgentReturns(r) \/ AgentRaises(r) \/ FallbackRaises(r)
  BY <1>a, <1>1 DEF ThreadBegins, AgentReturns, AgentRaises, FallbackRaises, ThreadEnds, Thread, guardVars
<1>2. CASE CallsTool(r)
  BY <1>a, <1>2 DEF CallsTool, AskTriage, Thread, To
<1>3. CASE RunsTool(r)
  BY <1>a, <1>3 DEF RunsTool, AgentRuns, FallbackRuns, Thread, guardVars
<1>4. CASE ToolEnds(r) \/ Blocked(r)
  <2>1. holder[r] = "empty"
    BY <1>4 DEF ToolEnds, Blocked, CallOver
  <2>2. QED
    BY <1>a, <1>4, <2>1 DEF ToolEnds, Blocked, CallOver, ThreadEnds, Thread, To
<1>5. QED
  BY <1>1, <1>2, <1>3, <1>4 DEF OnThread

LEMMA ReviewedStep ==
    ASSUME TypeOK, Reviewed, [Next]_vars
    PROVE  Reviewed'
<1> USE DEF Reviewed, outside
<1>a. /\ guard \in [Runs -> Stages]
      /\ lastDecision \in [Runs -> Decisions \cup {"None"}]
  BY DEF TypeOK, GuardTypeOK
<1>1. ASSUME NEW r \in Runs, GuardStep(r) PROVE Reviewed'
  <2>1. CASE TriageFails(r)
    BY <1>a, <2>1 DEF TriageFails, To
  <2>2. ASSUME NEW decision \in Decisions, TriageReplies(r, decision) PROVE Reviewed'
    BY <1>a, <2>2 DEF TriageReplies, After, To, Decisions
  <2>3. ASSUME NEW verdict \in EngineVerdicts, EngineReplies(r, verdict) PROVE Reviewed'
    BY <1>a, <2>3 DEF EngineReplies, Judge, To
  <2>4. CASE EngineFails(r) \/ ContainerAnswers(r) \/ ContainerFails(r)
    BY <1>a, <2>4 DEF EngineFails, ContainerAnswers, ContainerFails, Judge, To
  <2>5. ASSUME NEW stored \in BOOLEAN, Conclude(r, stored) PROVE Reviewed'
    <3>1. r \in dealt' /\ dealt \subseteq dealt'
      BY <2>5 DEF Conclude, Enqueue
    <3>2. QED
      BY <1>a, <2>5, <3>1 DEF Conclude, To
  <2>6. QED
    BY <1>1, <2>1, <2>2, <2>3, <2>4, <2>5 DEF GuardStep
<1>2. ASSUME NEW r \in Runs, OutsideStep(r) PROVE Reviewed'
  <2>1. UNCHANGED <<guard, lastDecision, dealt>>
    BY <1>2 DEF OutsideStep, ServiceDecides, EngineDecides, ContainerEnds, LateContainerEnds, Dequeue
  <2>2. QED
    BY <2>1
<1>3. ASSUME NEW r \in Runs, OnThread(r) PROVE Reviewed'
  BY <1>a, <1>3, ThreadOnGuard DEF AskTriage, CallOver, To, guardVars
<1>4. ASSUME UNCHANGED guardVars PROVE Reviewed'
  BY <1>4 DEF guardVars
<1>5. QED
  BY <1>1, <1>2, <1>3, <1>4, StepKinds, CoroutineFrame DEF GuardAlone, vars

LEMMA GuardStepInv == GuardInv /\ [Next]_vars => GuardInv'
<1> SUFFICES ASSUME GuardInv, [Next]_vars PROVE GuardInv'
  OBVIOUS
<1> USE DEF GuardInv
<1>1. TypeOK' /\ Reviewed'
  BY TypeStep, ReviewedStep
<1>2. ASSUME NEW r \in Runs, GuardAlone(r) PROVE Justified'
  BY <1>2, GuardStepJustified, OutsideStepJustified DEF GuardAlone, runtimeVars
<1>3. ASSUME NEW r \in Runs, Coroutine(r) \/ RedisHangs(r) PROVE Justified'
  <2>1. UNCHANGED guardVars
    BY <1>3, CoroutineFrame
  <2>2. \A q \in Runs : thread'[q] \in {"working", "using"} => thread'[q] = thread[q]
    BY <1>3
    DEF TypeOK, Coroutine, StartWorkflow, BeginRun, BeginFails, BeginTask, Record, TaskRaises,
        Append, AppendFails, TimesOut, RedisHangs
  <2>3. QED
    BY <2>1, <2>2 DEF guardVars, outside, Justified, Word
<1>4. ASSUME UNCHANGED vars PROVE Justified'
  BY <1>4 DEF vars, guardVars, runtimeVars, outside, Justified, Word
<1>5. QED
  BY <1>1, <1>2, <1>3, <1>4, ThreadStepJustified, StepKinds

LEMMA GuardHolds == Spec => []GuardInv
<1>1. Init => TypeOK
  BY DEF Init, TypeOK, GuardInit, GuardTypeOK, Stages, Decisions, Phases, Threads
<1>2. Init => Justified /\ Reviewed
  BY DEF Init, GuardInit, Justified, Reviewed
<1>3. QED
  BY <1>1, <1>2, GuardStepInv, PTL DEF Spec, GuardInv

\* For any agents, any failures of triage, engine, container and queue, and containers that end at
\* any later time, a call passes, and the fallback's tool runs, only on the word of triage about
\* this call, or of the sandbox triage sent it to.
THEOREM Guarded == Spec => []PassedOnWord
<1>1. GuardInv => PassedOnWord
  BY DEF GuardInv, Justified, PassedOnWord
<1>2. QED
  BY <1>1, GuardHolds, PTL

\* A sandboxed call is put before an analyst before its tool runs, unless Redis did not take it.
THEOREM ReviewedFirst == Spec => []Reviewed
<1>1. GuardInv => Reviewed
  BY DEF GuardInv
<1>2. QED
  BY <1>1, GuardHolds, PTL

-----------------------------------------------------------------------------
(* The records.  Where the coroutine stands says what has been recorded,   *)
(* and a run that has come to its end stays there.                         *)

RecordInv ==
    \A r \in Runs :
       /\ phase[r] \in {"none", "pending", "opening", "tasking", "timeout"} => r \notin history \cup memory
       /\ phase[r] \in {"appending", "completed"} => r \in history
       /\ phase[r] = "completed" => r \in memory

StatusInv ==
    \A w \in Workflows :
        status[w] \in Final => \E r \in Runs : WorkflowOf[r] = w /\ phase[r] = status[w]

\* The records of a step that moves run r alone, to s, and sets the status of its workflow.
LEMMA StatusMoves ==
    ASSUME TypeOK, StatusInv, NEW r \in Runs, phase[r] \notin Final,
           NEW p \in Phases, phase' = [phase EXCEPT ![r] = p],
           \/ status' = status
           \/ \E s \in {"pending", "running"} \cup Final :
                 status' = [status EXCEPT ![WorkflowOf[r]] = s] /\ (s \in Final => s = p)
    PROVE  StatusInv'
<1> SUFFICES ASSUME NEW w \in Workflows, status'[w] \in Final
             PROVE  \E q \in Runs : WorkflowOf[q] = w /\ phase'[q] = status'[w]
  BY DEF StatusInv
<1>1. CASE status'[w] = status[w]
  <2>1. PICK q \in Runs : WorkflowOf[q] = w /\ phase[q] = status[w]
    BY <1>1 DEF StatusInv
  <2>2. phase'[q] = phase[q]
    BY <1>1, <2>1 DEF TypeOK
  <2>3. QED
    BY <1>1, <2>1, <2>2
<1>2. CASE status'[w] # status[w]
  <2>1. WorkflowOf[r] = w /\ status'[w] = p
    BY <1>2, RuntimeAssumption DEF TypeOK
  <2>2. phase'[r] = p
    BY DEF TypeOK
  <2>3. QED
    BY <2>1, <2>2
<1>3. QED
  BY <1>1, <1>2

LEMMA RecordStep == TypeOK /\ RecordInv /\ StatusInv /\ [Next]_vars => RecordInv' /\ StatusInv'
<1> SUFFICES ASSUME TypeOK, RecordInv, StatusInv, [Next]_vars PROVE RecordInv' /\ StatusInv'
  OBVIOUS
<1>p. phase \in [Runs -> Phases]
  BY DEF TypeOK
<1>1. ASSUME NEW r \in Runs, Coroutine(r) PROVE RecordInv' /\ StatusInv'
  <2>1. RecordInv'
    <3>1. CASE StartWorkflow(r) \/ BeginRun(r) \/ BeginTask(r)
      BY <1>p, <3>1 DEF StartWorkflow, BeginRun, BeginTask, Answered, Enter, RecordInv
    <3>2. CASE BeginFails(r) \/ TaskRaises(r)
      BY <1>p, <3>2 DEF BeginFails, TaskRaises, Answered, Answer, Enter, RecordInv
    <3>3. CASE TimesOut(r)
      BY <1>p, <3>3 DEF TimesOut, Limit, Answer, Enter, RecordInv
    <3>4. CASE Record(r)
      BY <1>p, <3>4 DEF Record, InTime, Enter, RecordInv
    <3>5. CASE Append(r) \/ AppendFails(r)
      BY <1>p, <3>5 DEF Append, AppendFails, Answered, Answer, Enter, RecordInv
    <3>6. QED
      BY <1>1, <3>1, <3>2, <3>3, <3>4, <3>5 DEF Coroutine
  <2>2. phase[r] \notin Final
    BY <1>1
    DEF Coroutine, StartWorkflow, BeginRun, BeginFails, BeginTask, Record, InTime, TaskRaises,
        Append, AppendFails, TimesOut, Limit, Answered, Final
  <2>3. PICK p \in Phases :
           /\ phase' = [phase EXCEPT ![r] = p]
           /\ \/ status' = status
              \/ \E s \in {"pending", "running"} \cup Final :
                    status' = [status EXCEPT ![WorkflowOf[r]] = s] /\ (s \in Final => s = p)
    BY <1>1
    DEF Coroutine, StartWorkflow, BeginRun, BeginFails, BeginTask, Record, TaskRaises, Append,
        AppendFails, TimesOut, Answered, Answer, Enter, Status, Final, Phases
  <2>4. StatusInv'
    BY <2>2, <2>3, StatusMoves
  <2>5. QED
    BY <2>1, <2>4
<1>2. ASSUME UNCHANGED <<status, phase, history, memory>> PROVE RecordInv' /\ StatusInv'
  BY <1>2 DEF RecordInv, StatusInv
<1>3. QED
  BY <1>1, <1>2, StepKinds, ThreadFrame DEF GuardAlone, RedisHangs, vars, runtimeVars, coroutineVars

\* However late threads come back and whatever fails, what was answered and what was recorded
\* agree, for workflows that share an id too.
THEOREM TrueRecords == Spec => []RecordsAgree
<1>1. Init => RecordInv /\ StatusInv
  BY DEF Init, RecordInv, StatusInv, Final
<1>2. RecordInv /\ StatusInv => RecordsAgree
  BY DEF RecordInv, StatusInv, RecordsAgree
<1>3. QED
  BY <1>1, <1>2, RecordStep, TypeCorrect, PTL DEF Spec

-----------------------------------------------------------------------------
(* How a workflow comes to its end.                                        *)

\* The most steps the coroutine of a run has still to take.
StepsFrom(p) ==
    CASE p = "none" -> 5 [] p = "pending" -> 4 [] p = "opening" -> 3
      [] p = "tasking" -> 2 [] p = "appending" -> 1 [] OTHER -> 0

Started(r) == phase[r] \notin {"none"} \cup Final

\* A workflow that is shown as pending or running has a run that is still at work, though a second
\* request took over its entry and whichever run ended first wrote its own end there.
StillWorking ==
    \A w \in Workflows :
        status[w] \in {"pending", "running"} => \E r \in Runs : WorkflowOf[r] = w /\ Started(r)

\* A step of its coroutine brings a run nearer to its end; any other, and every step once it has
\* ended, leaves its phase and its records alone: a thread that was given up on writes nothing.
EndsInSteps ==
    [][\A r \in Runs :
          \/ StepsFrom(phase'[r]) < StepsFrom(phase[r])
          \/ /\ phase'[r] = phase[r]
             /\ r \in history' <=> r \in history
             /\ r \in memory' <=> r \in memory]_vars

\* What the coroutine's own steps do to its phase and its entry.
LEMMA OwnStep ==
    ASSUME TypeOK, NEW r \in Runs, Coroutine(r)
    PROVE  \E p \in Phases :
             /\ phase' = [phase EXCEPT ![r] = p] /\ StepsFrom(p) < StepsFrom(phase[r])
             /\ history' \in {history, history \cup {r}} /\ memory' \in {memory, memory \cup {r}}
             /\ \/ status' = status /\ p \notin {"none"} \cup Final
                \/ \E s \in {"pending", "running"} \cup Final :
                      /\ status' = [status EXCEPT ![WorkflowOf[r]] = s]
                      /\ s \in Final \/ p \notin {"none"} \cup Final
<1> USE DEF Phases, Final, StepsFrom
<1>1. CASE StartWorkflow(r)
  BY <1>1 DEF StartWorkflow, Enter, Status
<1>2. CASE BeginRun(r)
  BY <1>2 DEF BeginRun, Enter, Status
<1>3. CASE BeginFails(r)
  BY <1>3 DEF BeginFails, Answered, Answer, Enter, Status
<1>4. CASE BeginTask(r)
  BY <1>4 DEF BeginTask, Answered, Enter
<1>5. CASE Record(r)
  BY <1>5 DEF Record, InTime, Enter
<1>6. CASE TaskRaises(r)
  BY <1>6 DEF TaskRaises, Answer, Enter, Status
<1>7. CASE Append(r) \/ AppendFails(r)
  BY <1>7 DEF Append, AppendFails, Answered, Answer, Enter, Status
<1>8. CASE TimesOut(r)
  BY <1>8 DEF TimesOut, Limit, Answer, Enter, Status
<1>9. QED
  BY <1>1, <1>2, <1>3, <1>4, <1>5, <1>6, <1>7, <1>8 DEF Coroutine

\* The safety half of WorkflowEnds, for any runs, however many share an id: an entry that is not
\* final has a run at work, if only on a call Redis does not answer, and no run has more than five
\* steps to take.
THEOREM WorkRunsOut == Spec => []StillWorking /\ EndsInSteps
<1>1. Init => StillWorking
  BY DEF Init, StillWorking
<1>2. ASSUME TypeOK, StillWorking, [Next]_vars PROVE StillWorking'
  <2>1. ASSUME NEW r \in Runs, Coroutine(r) PROVE StillWorking'
    <3>1. PICK p \in Phases :
             /\ phase' = [phase EXCEPT ![r] = p]
             /\ \/ status' = status /\ p \notin {"none"} \cup Final
                \/ \E s \in {"pending", "running"} \cup Final :
                      /\ status' = [status EXCEPT ![WorkflowOf[r]] = s]
                      /\ s \in Final \/ p \notin {"none"} \cup Final
      BY <1>2, <2>1, OwnStep
    <3>2. ASSUME NEW w \in Workflows, status'[w] \in {"pending", "running"}
          PROVE  \E q \in Runs : WorkflowOf[q] = w /\ Started(q)'
      <4>1. phase'[r] = p /\ \A q \in Runs : q # r => phase'[q] = phase[q]
        BY <1>2, <3>1 DEF TypeOK
      <4>2. CASE WorkflowOf[r] = w
        <5>1. p \notin {"none"} \cup Final
          BY <1>2, <3>1, <3>2, <4>2 DEF TypeOK, Final
        <5>2. QED
          BY <4>1, <4>2, <5>1 DEF Started
      <4>3. CASE WorkflowOf[r] # w
        <5>1. status'[w] = status[w]
          BY <1>2, <3>1, <4>3 DEF TypeOK
        <5>2. PICK q \in Runs : WorkflowOf[q] = w /\ Started(q)
          BY <1>2, <3>2, <5>1 DEF StillWorking
        <5>3. QED
          BY <4>1, <4>3, <5>2 DEF Started
      <4>4. QED
        BY <4>2, <4>3
    <3>3. QED
      BY <3>2 DEF StillWorking
  <2>2. CASE UNCHANGED <<status, phase>>
    BY <1>2, <2>2 DEF StillWorking, Started
  <2>3. QED
    BY <1>2, <2>1, <2>2, StepKinds, ThreadFrame DEF GuardAlone, RedisHangs, vars, runtimeVars, coroutineVars
<1>3. ASSUME TypeOK, [Next]_vars, NEW r \in Runs
      PROVE  \/ StepsFrom(phase'[r]) < StepsFrom(phase[r])
             \/ /\ phase'[r] = phase[r]
                /\ r \in history' <=> r \in history
                /\ r \in memory' <=> r \in memory
  <2>1. ASSUME NEW q \in Runs, Coroutine(q)
        PROVE  \/ StepsFrom(phase'[r]) < StepsFrom(phase[r])
               \/ /\ phase'[r] = phase[r]
                  /\ r \in history' <=> r \in history
                  /\ r \in memory' <=> r \in memory
    <3>1. PICK p \in Phases :
             /\ phase' = [phase EXCEPT ![q] = p] /\ StepsFrom(p) < StepsFrom(phase[q])
             /\ history' \in {history, history \cup {q}} /\ memory' \in {memory, memory \cup {q}}
      BY <1>3, <2>1, OwnStep
    <3>2. phase'[q] = p /\ (r # q => phase'[r] = phase[r])
      BY <1>3, <3>1 DEF TypeOK
    <3>3. QED
      BY <3>1, <3>2
  <2>2. CASE UNCHANGED <<phase, history, memory>>
    BY <2>2
  <2>3. QED
    BY <1>3, <2>1, <2>2, StepKinds, ThreadFrame DEF GuardAlone, RedisHangs, vars, runtimeVars, coroutineVars
<1>4. TypeOK /\ [Next]_vars =>
         [\A r \in Runs :
            \/ StepsFrom(phase'[r]) < StepsFrom(phase[r])
            \/ /\ phase'[r] = phase[r]
               /\ r \in history' <=> r \in history
               /\ r \in memory' <=> r \in memory]_vars
  BY <1>3
<1>5. QED
  BY <1>1, <1>2, <1>4, TypeCorrect, PTL DEF Spec, EndsInSteps
=============================================================================
