-------------------------- MODULE TaskGraphProofs --------------------------
(***************************************************************************)
(* The executor's guarantees for every set of workflows and every graph    *)
(* whose dependencies point backwards.  They rest on one inductive         *)
(* invariant, Inv: where a coroutine is suspended determines what the      *)
(* statuses of its steps can be.                                           *)
(***************************************************************************)
EXTENDS TaskGraph, FiniteSetTheorems, SequenceTheorems, TLAPS

----------------------------------------------------------------------------
(* The invariant, by parts.                                                *)

\* The loop's position is within the graph, or just past its end.
Position(w) ==
    /\ pc[w] = "idle" => graph[w] = <<>> /\ cur[w] = 1
    /\ pc[w] # "idle" => graph[w] \in Graphs
    /\ cur[w] \in 1..(Len(graph[w]) + 1)
    /\ pc[w] \in {"guard", "route", "sandbox", "stop", "raised"} => cur[w] \in Steps(w)

\* Everything before it is done, it is what the suspension says, and everything after
\* it is untouched unless the graph was stopped.
Progress(w) ==
    \A n \in Steps(w) :
        /\ n < cur[w] => status[w][n] = "done"
        /\ n = cur[w] /\ pc[w] = "next" => status[w][n] = "pending"
        /\ n = cur[w] /\ pc[w] \in {"guard", "route", "sandbox", "raised"} => status[w][n] = "running"
        /\ n = cur[w] /\ pc[w] \in {"stop", "answered"} => status[w][n] = "blocked"
        /\ n > cur[w] => \/ status[w][n] = "pending" /\ pc[w] # "answered"
                         \/ status[w][n] = "blocked" /\ pc[w] \in {"stop", "answered"}

\* A verdict that is not a refusal came from AgentGuard-X, and a promotion from the engine.
Granted(w) ==
    \A n \in Steps(w) :
        /\ verdict[w][n] \in {"ALLOW", "SANDBOX"} => mesh[w][n] = verdict[w][n]
        /\ status[w][n] = "done" =>
              \/ verdict[w][n] = "ALLOW"
              \/ verdict[w][n] = "SANDBOX" /\ engine[w][n] \in {"ALLOW", "other"}
        /\ pc[w] = "route" /\ n = cur[w] => verdict[w][n] \in Verdicts
        /\ pc[w] = "sandbox" /\ n = cur[w] => verdict[w][n] = "SANDBOX"

Filled(w) ==
    \A n \in Steps(w) :
        /\ status[w][n] = "done" => output[w][n] # "none"
        /\ status[w][n] \in {"running", "done"} /\ graph[w][n].slot = "content"
              => input[w][n] = graph[w][n].deps

Outcome(w) ==
    overall[w] = IF pc[w] \in {"stop", "answered"} /\ cur[w] \in Steps(w)
                 THEN "blocked" ELSE "completed"

WInv(w) == Position(w) /\ Progress(w) /\ Granted(w) /\ Filled(w) /\ Outcome(w)
Inv == TypeOK /\ \A w \in Workflows : WInv(w)

----------------------------------------------------------------------------

LEMMA GraphFacts ==
    ASSUME NEW g \in Graphs
    PROVE  /\ Len(g) \in Nat \ {0} /\ DOMAIN g = 1..Len(g) /\ g # <<>>
           /\ \A n \in DOMAIN g : g[n].deps \in SUBSET (1..(n - 1))
<1>1. g \in Seq([deps : SUBSET Nat, slot : Slots]) /\ g # <<>>
  BY GraphsAssumption
<1>2. Len(g) \in Nat \ {0} /\ DOMAIN g = 1..Len(g)
  BY <1>1, EmptySeq, LenProperties
<1>3. \A n \in DOMAIN g : g[n].deps \in SUBSET (1..(n - 1))
  BY GraphsAssumption
<1>4. QED
  BY <1>1, <1>2, <1>3

LEMMA EmptyFacts == Len(<<>>) = 0 /\ DOMAIN <<>> = {}
OBVIOUS

\* What an action of one workflow leaves of another's invariant.
LEMMA Frame ==
    ASSUME NEW v,
           graph'[v] = graph[v], pc'[v] = pc[v], cur'[v] = cur[v], status'[v] = status[v],
           verdict'[v] = verdict[v], input'[v] = input[v], output'[v] = output[v],
           overall'[v] = overall[v], mesh'[v] = mesh[v], engine'[v] = engine[v],
           WInv(v)
    PROVE  WInv(v)'
BY DEF WInv, Position, Progress, Granted, Filled, Outcome, Steps

\* Only workflow w changes.
Only(w) ==
    \A v \in Workflows \ {w} :
        /\ graph'[v] = graph[v] /\ pc'[v] = pc[v] /\ cur'[v] = cur[v]
        /\ status'[v] = status[v] /\ verdict'[v] = verdict[v] /\ input'[v] = input[v]
        /\ output'[v] = output[v] /\ overall'[v] = overall[v]
        /\ mesh'[v] = mesh[v] /\ engine'[v] = engine[v]

LEMMA OneWorkflow ==
    ASSUME Inv, NEW w \in Workflows, TypeOK', Only(w), WInv(w)'
    PROVE  Inv'
<1>1. ASSUME NEW v \in Workflows, v # w PROVE WInv(v)'
  <2>1. WInv(v)
    BY DEF Inv
  <2>2. QED
    BY <1>1, <2>1, Frame DEF Only
<1>2. QED
  BY <1>1 DEF Inv

LEMMA StepsFacts ==
    ASSUME TypeOK, NEW w \in Workflows
    PROVE  /\ Len(graph[w]) \in Nat /\ Steps(w) = 1..Len(graph[w])
           /\ graph[w] \in Graphs => graph[w] # <<>>
           /\ pc[w] # "idle" /\ Position(w) => \A n \in Steps(w) : graph[w][n].deps \in SUBSET Steps(w)
<1>1. graph[w] \in Graphs \/ graph[w] = <<>>
  BY DEF TypeOK
<1>2. QED
  BY <1>1, GraphFacts, EmptyFacts DEF Steps, Position

LEMMA ChatStep ==
    ASSUME Inv, NEW w \in Workflows, Chat(w)
    PROVE  Inv'
<1>1. PICK g \in Graphs :
         /\ graph' = [graph EXCEPT ![w] = g]
         /\ status' = [status EXCEPT ![w] = [n \in DOMAIN g |-> "pending"]]
         /\ verdict' = [verdict EXCEPT ![w] = [n \in DOMAIN g |-> "none"]]
         /\ input' = [input EXCEPT ![w] = [n \in DOMAIN g |-> {}]]
         /\ output' = [output EXCEPT ![w] = [n \in DOMAIN g |-> "none"]]
         /\ mesh' = [mesh EXCEPT ![w] = [n \in DOMAIN g |-> "none"]]
         /\ engine' = [engine EXCEPT ![w] = [n \in DOMAIN g |-> "none"]]
  BY DEF Chat
<1>2. /\ pc[w] = "idle" /\ pc' = [pc EXCEPT ![w] = "next"]
      /\ UNCHANGED <<cur, overall>>
  BY DEF Chat, Goto
<1>3. Only(w)
  BY <1>1, <1>2 DEF Inv, TypeOK, Marks, Only
<1>4. TypeOK'
  BY <1>1, <1>2 DEF Inv, TypeOK, Marks, Steps
<1>5. /\ graph'[w] = g /\ pc'[w] = "next" /\ cur'[w] = 1
      /\ status'[w] = [n \in DOMAIN g |-> "pending"]
      /\ verdict'[w] = [n \in DOMAIN g |-> "none"] /\ overall'[w] = overall[w]
  BY <1>1, <1>2 DEF Inv, TypeOK, Marks, WInv, Position
<1>6. overall[w] = "completed"
  BY <1>2 DEF Inv, WInv, Outcome
<1>7. WInv(w)'
  BY <1>5, <1>6, GraphFacts DEF WInv, Position, Progress, Granted, Filled, Outcome, Steps
<1>8. QED
  BY <1>3, <1>4, <1>7, OneWorkflow

\* The check at the head of the loop never finds a blocked dependency.
LEMMA NoneBlocked ==
    ASSUME Inv, NEW w \in Workflows, NEW n \in Steps(w), n = cur[w], pc[w] = "next"
    PROVE  /\ BlockedDeps(w, n) = {}
           /\ \A m \in graph[w][n].deps : m \in Steps(w) /\ status[w][m] = "done"
<1>1. /\ graph[w] \in Graphs /\ Steps(w) = 1..Len(graph[w]) /\ Len(graph[w]) \in Nat
      /\ graph[w][n].deps \in SUBSET (1..(n - 1)) /\ n \in Nat
  BY GraphFacts DEF Inv, WInv, Position, Steps
<1>2. \A m \in graph[w][n].deps : m \in Steps(w) /\ m < cur[w]
  BY <1>1
<1>3. \A m \in graph[w][n].deps : status[w][m] = "done"
  BY <1>2 DEF Inv, WInv, Progress
<1>4. QED
  BY <1>2, <1>3 DEF BlockedDeps

LEMMA VisitStep ==
    ASSUME Inv, NEW w \in Workflows, Visit(w)
    PROVE  Inv'
<1> DEFINE n == cur[w]
<1>1. pc[w] = "next" /\ n \in Steps(w)
  BY DEF Visit
<1>2. BlockedDeps(w, n) = {} /\ \A m \in graph[w][n].deps : m \in Steps(w) /\ status[w][m] = "done"
  BY <1>1, NoneBlocked
<1>3. /\ input' = [input EXCEPT ![w][n] = FillInputs(w, n)]
      /\ status' = [status EXCEPT ![w][n] = "running"]
      /\ pc' = [pc EXCEPT ![w] = "guard"]
      /\ UNCHANGED <<overall, cur, graph, verdict, output, mesh, engine>>
  BY <1>1, <1>2 DEF Visit, Mark, Goto
<1>4. Only(w)
  BY <1>3 DEF Inv, TypeOK, Marks, Only
<1>5. FillInputs(w, n) \in SUBSET Nat
  BY <1>1, <1>2, StepsFacts DEF Inv, FillInputs
<1>6. TypeOK'
  BY <1>1, <1>3, <1>5 DEF Inv, TypeOK, Marks, Steps
<1>7. /\ graph'[w] = graph[w] /\ pc'[w] = "guard" /\ cur'[w] = cur[w]
      /\ status'[w] = [status[w] EXCEPT ![n] = "running"]
      /\ input'[w] = [input[w] EXCEPT ![n] = FillInputs(w, n)]
      /\ verdict'[w] = verdict[w] /\ overall'[w] = overall[w] /\ output'[w] = output[w]
      /\ mesh'[w] = mesh[w] /\ engine'[w] = engine[w]
  BY <1>3 DEF Inv, TypeOK, Marks
<1>8. graph[w][n].slot = "content" => FillInputs(w, n) = graph[w][n].deps
  BY <1>2 DEF Inv, WInv, Filled, FillInputs
<1>9. WInv(w)'
  <2> /\ DOMAIN status[w] = Steps(w) /\ DOMAIN input[w] = Steps(w)
      /\ Steps(w) = 1..Len(graph[w]) /\ Len(graph[w]) \in Nat
    BY StepsFacts DEF Inv, TypeOK, Marks
  <2>1. Position(w)'
    BY <1>1, <1>7 DEF Inv, WInv, Position, Steps
  <2>2. Progress(w)'
    <3>1. Progress(w) /\ n \in Nat
      BY <1>1 DEF Inv, WInv
    <3>2. status'[w][n] = "running" /\ \A m \in Steps(w) : m # n => status'[w][m] = status[w][m]
      BY <1>1, <1>7
    <3>3. /\ pc[w] = "next" /\ pc'[w] = "guard" /\ cur'[w] = n /\ Steps(w)' = Steps(w)
          /\ Steps(w) \subseteq Nat
      BY <1>1, <1>7 DEF Steps
    <3>4. QED
      BY <3>1, <3>2, <3>3 DEF Progress
  <2>3. Granted(w)'
    BY <1>1, <1>7 DEF Inv, WInv, Granted, Steps
  <2>4. Filled(w)'
    BY <1>1, <1>7, <1>8 DEF Inv, WInv, Filled, Steps
  <2>5. Outcome(w)'
    BY <1>1, <1>7 DEF Inv, WInv, Outcome, Steps
  <2>6. QED
    BY <2>1, <2>2, <2>3, <2>4, <2>5 DEF WInv
<1>10. QED
  BY <1>4, <1>6, <1>9, OneWorkflow

LEMMA MeshStep ==
    ASSUME Inv, NEW w \in Workflows, MeshDecides(w)
    PROVE  Inv'
<1>1. PICK n \in Steps(w), v \in Verdicts :
         /\ verdict[w][n] # "none" \/ (n = cur[w] /\ pc[w] = "guard")
         /\ mesh[w][n] = "none"
         /\ mesh' = [mesh EXCEPT ![w][n] = v]
  BY DEF MeshDecides
<1>2. UNCHANGED <<graph, pc, cur, status, verdict, input, output, overall, engine>>
  BY DEF MeshDecides
<1>3. Only(w)
  BY <1>1, <1>2 DEF Inv, TypeOK, Marks, Only
<1>4. TypeOK'
  BY <1>1, <1>2 DEF Inv, TypeOK, Marks, Steps
<1>5. \A m \in Steps(w) : m # n => mesh'[w][m] = mesh[w][m]
  BY <1>1 DEF Inv, TypeOK, Marks
<1>6. Granted(w)'
  BY <1>1, <1>2, <1>5 DEF Inv, WInv, Granted, Steps
<1>7. WInv(w)'
  BY <1>2, <1>6 DEF Inv, WInv, Position, Progress, Filled, Outcome, Steps
<1>8. QED
  BY <1>3, <1>4, <1>7, OneWorkflow

LEMMA VerdictStep ==
    ASSUME Inv, NEW w \in Workflows, pc[w] = "guard",
           NEW v \in Verdicts, v = "BLOCKED" \/ v = mesh[w][cur[w]], Verdict(w, v)
    PROVE  Inv'
<1> DEFINE n == cur[w]
<1>1. /\ verdict' = [verdict EXCEPT ![w][n] = v]
      /\ pc' = [pc EXCEPT ![w] = "route"]
      /\ UNCHANGED <<graph, cur, status, input, output, overall, mesh, engine>>
  BY DEF Verdict, Goto
<1>2. n \in Steps(w) /\ status[w][n] = "running"
  BY DEF Inv, WInv, Position, Progress
<1>3. Only(w)
  BY <1>1 DEF Inv, TypeOK, Marks, Only
<1>4. TypeOK'
  BY <1>1, <1>2 DEF Inv, TypeOK, Marks, Steps
<1>5. pc'[w] = "route" /\ verdict'[w] = [verdict[w] EXCEPT ![n] = v] /\ DOMAIN verdict[w] = Steps(w)
  BY <1>1 DEF Inv, TypeOK, Marks
<1>6. Granted(w)'
  BY <1>1, <1>2, <1>5 DEF Inv, WInv, Granted, Steps
<1>7. WInv(w)'
  BY <1>1, <1>2, <1>5, <1>6 DEF Inv, WInv, Position, Progress, Filled, Outcome, Steps
<1>8. QED
  BY <1>3, <1>4, <1>7, OneWorkflow

\* The tool runs on ALLOW, or after the sandbox engine let the call through.
LEMMA RunStep ==
    ASSUME Inv, NEW w \in Workflows, pc[w] \in {"route", "sandbox"}, RunTool(w),
           UNCHANGED <<graph, verdict, input, mesh, engine>>,
           \/ verdict[w][cur[w]] = "ALLOW"
           \/ verdict[w][cur[w]] = "SANDBOX" /\ engine[w][cur[w]] \in {"ALLOW", "other"}
    PROVE  Inv'
<1> DEFINE n == cur[w]
<1>1. PICK o \in {"data", "error"} : output' = [output EXCEPT ![w][n] = o]
  BY DEF RunTool
<1>2. /\ status' = [status EXCEPT ![w][n] = "done"]
      /\ cur' = [cur EXCEPT ![w] = @ + 1]
      /\ pc' = [pc EXCEPT ![w] = "next"]
      /\ UNCHANGED overall
  BY DEF RunTool, Mark, Goto
<1>3. n \in Steps(w) /\ status[w][n] = "running" /\ n \in Nat
  BY DEF Inv, WInv, Position, Progress, TypeOK
<1>4. Only(w)
  BY <1>1, <1>2 DEF Inv, TypeOK, Marks, Only
<1>5. TypeOK'
  <2>1. TypeOK
    BY DEF Inv
  <2>2. Marks(status, {"pending", "running", "done", "blocked"})'
    BY <1>2, <1>3, <2>1 DEF TypeOK, Marks, Steps
  <2>3. Marks(output, {"none", "data", "error"})'
    BY <1>1, <1>3, <2>1 DEF TypeOK, Marks, Steps
  <2>4. Marks(engine, Words \cup {"none"})'
    BY <2>1 DEF TypeOK, Marks, Steps
  <2>5. /\ cur' \in [Workflows -> Nat]
        /\ pc' \in [Workflows -> {"idle", "next", "guard", "route", "sandbox", "stop",
                                     "answered", "raised"}]
    BY <1>2, <2>1 DEF TypeOK
  <2>6. QED
    BY <1>2, <2>1, <2>2, <2>3, <2>4, <2>5 DEF TypeOK, Marks, Steps
<1>6. /\ Steps(w) = 1..Len(graph[w]) /\ Len(graph[w]) \in Nat
      /\ DOMAIN status[w] = Steps(w) /\ DOMAIN output[w] = Steps(w)
  BY StepsFacts DEF Inv, TypeOK, Marks
<1>7. /\ graph'[w] = graph[w] /\ pc'[w] = "next" /\ cur'[w] = n + 1
      /\ status'[w][n] = "done" /\ \A m \in Steps(w) : m # n => status'[w][m] = status[w][m]
      /\ output'[w][n] = o /\ \A m \in Steps(w) : m # n => output'[w][m] = output[w][m]
      /\ verdict'[w] = verdict[w] /\ overall'[w] = overall[w] /\ input'[w] = input[w]
      /\ mesh'[w] = mesh[w]
  BY <1>1, <1>2, <1>3 DEF Inv, TypeOK, Marks
<1>8. /\ verdict[w][n] = "ALLOW" \/ (verdict[w][n] = "SANDBOX" /\ engine[w][n] \in {"ALLOW", "other"})
      /\ engine'[w] = engine[w]
  OBVIOUS
<1>9. WInv(w)'
  <2>1. Position(w)'
    BY <1>3, <1>6, <1>7 DEF Inv, WInv, Position, Steps
  <2>2. Progress(w)'
    <3>1. Progress(w)
      BY DEF Inv, WInv
    <3>2. QED
      BY <1>3, <1>6, <1>7, <3>1 DEF Progress, Steps
  <2>3. Granted(w)'
    BY <1>7, <1>8 DEF Inv, WInv, Granted, Steps
  <2>4. Filled(w)'
    BY <1>3, <1>7 DEF Inv, WInv, Filled, Steps
  <2>5. Outcome(w)'
    BY <1>7 DEF Inv, WInv, Outcome, Steps
  <2>6. QED
    BY <2>1, <2>2, <2>3, <2>4, <2>5 DEF WInv
<1>10. QED
  BY <1>4, <1>5, <1>9, OneWorkflow

LEMMA StopStep ==
    ASSUME Inv, NEW w \in Workflows, pc[w] \in {"route", "sandbox"}, HardStop(w),
           UNCHANGED <<graph, verdict, input, mesh, engine>>
    PROVE  Inv'
<1> DEFINE n == cur[w]
<1>1. /\ status' = [status EXCEPT ![w][n] = "blocked"]
      /\ overall' = [overall EXCEPT ![w] = "blocked"]
      /\ pc' = [pc EXCEPT ![w] = "stop"]
      /\ UNCHANGED <<cur, output>>
  BY DEF HardStop, Mark, Goto
<1>2. n \in Steps(w) /\ n \in Nat
  BY DEF Inv, WInv, Position, TypeOK
<1>3. Only(w)
  BY <1>1 DEF Inv, TypeOK, Marks, Only
<1>4. TypeOK'
  BY <1>1, <1>2 DEF Inv, TypeOK, Marks, Steps
<1>5. /\ Steps(w) = 1..Len(graph[w]) /\ Len(graph[w]) \in Nat
  BY StepsFacts DEF Inv
<1>6. /\ pc'[w] = "stop" /\ overall'[w] = "blocked"
      /\ status'[w][n] = "blocked" /\ \A m \in Steps(w) : m # n => status'[w][m] = status[w][m]
  BY <1>1, <1>2 DEF Inv, TypeOK, Marks
<1>7. WInv(w)'
  <2>1. Position(w)'
    BY <1>1, <1>2, <1>6 DEF Inv, WInv, Position, Steps
  <2>2. Progress(w)'
    <3>1. Progress(w)
      BY DEF Inv, WInv
    <3>2. QED
      BY <1>1, <1>2, <1>5, <1>6, <3>1 DEF Progress, Steps
  <2>3. Granted(w)'
    BY <1>1, <1>6 DEF Inv, WInv, Granted, Steps
  <2>4. Filled(w)'
    BY <1>1, <1>6 DEF Inv, WInv, Filled, Steps
  <2>5. Outcome(w)'
    BY <1>1, <1>2, <1>6 DEF Outcome, Steps
  <2>6. QED
    BY <2>1, <2>2, <2>3, <2>4, <2>5 DEF WInv
<1>8. QED
  BY <1>3, <1>4, <1>7, OneWorkflow

\* The coroutine only moves on: to the engine, or out of it with an exception.
LEMMA MoveStep ==
    ASSUME Inv, NEW w \in Workflows,
           UNCHANGED <<graph, cur, status, verdict, input, output, overall, mesh, engine>>,
           \/ pc[w] = "route" /\ verdict[w][cur[w]] = "SANDBOX" /\ Goto(w, "sandbox")
           \/ pc[w] = "sandbox" /\ Goto(w, "raised")
    PROVE  Inv'
<1>1. /\ pc[w] \in {"route", "sandbox"} /\ cur[w] \in Steps(w)
      /\ pc'[w] = "sandbox" => pc[w] = "route" /\ verdict[w][cur[w]] = "SANDBOX"
      /\ pc'[w] \in {"sandbox", "raised"}
  BY DEF Inv, WInv, Position, TypeOK, Goto
<1>2. Only(w)
  BY DEF Inv, TypeOK, Only, Goto
<1>3. TypeOK'
  BY DEF Inv, TypeOK, Marks, Steps, Goto
<1>4. Position(w)' /\ Progress(w)' /\ Granted(w)'
  BY <1>1 DEF Inv, WInv, Position, Progress, Granted, Steps
<1>5. Filled(w)' /\ Outcome(w)'
  BY <1>1 DEF Inv, WInv, Filled, Outcome, Steps
<1>6. QED
  BY <1>2, <1>3, <1>4, <1>5, OneWorkflow DEF WInv

LEMMA RouteStep ==
    ASSUME Inv, NEW w \in Workflows, Route(w)
    PROVE  Inv'
<1>1. /\ pc[w] = "route" /\ UNCHANGED <<graph, verdict, input, mesh, engine>>
      /\ verdict[w][cur[w]] \in Verdicts
  BY DEF Route, Inv, WInv, Position, Granted
<1>2. CASE verdict[w][cur[w]] = "BLOCKED" /\ HardStop(w)
  BY <1>1, <1>2, StopStep
<1>3. CASE verdict[w][cur[w]] \notin {"BLOCKED", "SANDBOX"} /\ RunTool(w)
  <2>1. verdict[w][cur[w]] = "ALLOW"
    BY <1>1, <1>3 DEF Verdicts
  <2>2. QED
    BY <1>1, <1>3, <2>1, RunStep
<1>4. CASE /\ verdict[w][cur[w]] = "SANDBOX" /\ Goto(w, "sandbox")
           /\ UNCHANGED <<cur, status, output, overall>>
  BY <1>1, <1>4, MoveStep
<1>5. QED
  BY <1>2, <1>3, <1>4 DEF Route

LEMMA EngineStep ==
    ASSUME Inv, NEW w \in Workflows, EngineAnswers(w)
    PROVE  Inv'
<1>1. PICK n \in Steps(w), v \in Words :
         /\ engine[w][n] = "none"
         /\ engine' = [engine EXCEPT ![w][n] = v]
  BY DEF EngineAnswers
<1>2. UNCHANGED <<graph, pc, cur, status, verdict, input, output, overall, mesh>>
  BY DEF EngineAnswers
<1>3. Only(w)
  BY <1>1, <1>2 DEF Inv, TypeOK, Marks, Only
<1>4. TypeOK'
  BY <1>1, <1>2 DEF Inv, TypeOK, Marks, Steps
<1>5. \A m \in Steps(w) : m # n => engine'[w][m] = engine[w][m]
  BY <1>1 DEF Inv, TypeOK, Marks
<1>6. Granted(w)'
  BY <1>1, <1>2, <1>5 DEF Inv, WInv, Granted, Steps
<1>7. WInv(w)'
  BY <1>2, <1>6 DEF Inv, WInv, Position, Progress, Filled, Outcome, Steps
<1>8. QED
  BY <1>3, <1>4, <1>7, OneWorkflow

LEMMA ReplyStep ==
    ASSUME Inv, NEW w \in Workflows, EngineReplies(w) \/ EngineFails(w)
    PROVE  Inv'
<1>1. pc[w] = "sandbox" /\ UNCHANGED <<graph, verdict, input, mesh, engine>>
  BY DEF EngineReplies, EngineFails
<1>2. /\ cur[w] \in Steps(w) /\ verdict[w][cur[w]] = "SANDBOX"
      /\ engine[w][cur[w]] \in Words \cup {"none"}
  BY <1>1 DEF Inv, WInv, Granted, Position, TypeOK, Marks
<1>3. CASE engine[w][cur[w]] \notin {"none", "BLOCK", "null"} /\ RunTool(w)
  <2>1. engine[w][cur[w]] \in {"ALLOW", "other"}
    BY <1>2, <1>3 DEF Words
  <2>2. QED
    BY <1>1, <1>2, <1>3, <2>1, RunStep
<1>4. CASE HardStop(w)
  BY <1>1, <1>4, StopStep
<1>5. CASE Goto(w, "raised") /\ UNCHANGED <<cur, status, output, overall>>
  BY <1>1, <1>5, MoveStep
<1>6. QED
  BY <1>3, <1>4, <1>5 DEF EngineReplies, EngineFails

LEMMA MarkStep ==
    ASSUME Inv, NEW w \in Workflows, MarkRemaining(w)
    PROVE  Inv'
<1>1. pc[w] = "stop" /\ UNCHANGED <<graph, pc, cur, verdict, input, output, overall, mesh, engine>>
  BY DEF MarkRemaining
<1>2. PICK n \in Steps(w) : /\ status[w][n] = "pending"
                            /\ status' = [status EXCEPT ![w][n] = "blocked"]
  BY DEF MarkRemaining, Mark
<1>3. Only(w)
  BY <1>1, <1>2 DEF Inv, TypeOK, Marks, Only
<1>4. TypeOK'
  BY <1>1, <1>2 DEF Inv, TypeOK, Marks, Steps
<1>5. status'[w][n] = "blocked" /\ \A m \in Steps(w) : m # n => status'[w][m] = status[w][m]
  BY <1>2 DEF Inv, TypeOK, Marks
<1>6. Position(w)' /\ Granted(w)' /\ Filled(w)' /\ Outcome(w)'
  BY <1>1, <1>5 DEF Inv, WInv, Position, Granted, Filled, Outcome, Steps
<1>7. Progress(w)'
  BY <1>1, <1>2, <1>5 DEF Inv, WInv, Progress, Steps
<1>8. QED
  BY <1>3, <1>4, <1>6, <1>7, OneWorkflow DEF WInv

LEMMA AnswerStep ==
    ASSUME Inv, NEW w \in Workflows, Answer(w)
    PROVE  Inv'
<1>1. /\ pc' = [pc EXCEPT ![w] = "answered"]
      /\ UNCHANGED <<graph, cur, status, verdict, input, output, overall, mesh, engine>>
  BY DEF Answer, Goto
<1>2. Only(w)
  BY <1>1 DEF Inv, TypeOK, Only
<1>3. TypeOK'
  BY <1>1 DEF Inv, TypeOK, Marks, Steps
<1>4. pc'[w] = "answered" /\ Steps(w) = 1..Len(graph[w]) /\ Len(graph[w]) \in Nat /\ cur[w] \in Nat
  BY <1>1, StepsFacts DEF Inv, TypeOK
<1>5. Position(w)' /\ Granted(w)' /\ Filled(w)' /\ Outcome(w)'
  BY <1>1, <1>4 DEF Inv, WInv, Position, Granted, Filled, Outcome, Steps, Answer
<1>6. Progress(w)'
  BY <1>1, <1>4 DEF Inv, WInv, Position, Progress, Steps, Answer
<1>7. QED
  BY <1>2, <1>3, <1>5, <1>6, OneWorkflow DEF WInv

----------------------------------------------------------------------------

LEMMA StartsWell == Init => Inv
<1> SUFFICES ASSUME Init PROVE Inv
  OBVIOUS
<1>1. TypeOK
  BY EmptyFacts DEF Init, TypeOK, Marks, Steps
<1>2. ASSUME NEW w \in Workflows PROVE WInv(w)
  <2>1. /\ graph[w] = <<>> /\ pc[w] = "idle" /\ cur[w] = 1 /\ overall[w] = "completed"
    BY <1>2 DEF Init
  <2>2. QED
    BY <2>1, EmptyFacts DEF WInv, Position, Progress, Granted, Filled, Outcome, Steps
<1>3. QED
  BY <1>1, <1>2 DEF Inv

LEMMA StepsWell == Inv /\ [Next]_vars => Inv'
<1> SUFFICES ASSUME Inv, [Next]_vars PROVE Inv'
  OBVIOUS
<1>1. ASSUME NEW w \in Workflows, Advance(w) PROVE Inv'
  <2>1. CASE Chat(w)
    BY <2>1, ChatStep
  <2>2. CASE Visit(w)
    BY <2>2, VisitStep
  <2>3. CASE GuardReplies(w)
    <3>1. cur[w] \in Steps(w) /\ mesh[w][cur[w]] \in Verdicts
      BY <2>3 DEF GuardReplies, Inv, TypeOK, Marks, WInv, Position
    <3>2. QED
      BY <2>3, <3>1, VerdictStep DEF GuardReplies
  <2>4. CASE GuardFails(w)
    BY <2>4, VerdictStep DEF GuardFails, Verdicts
  <2>5. CASE Route(w)
    BY <2>5, RouteStep
  <2>6. CASE EngineReplies(w) \/ EngineFails(w)
    BY <2>6, ReplyStep
  <2>7. CASE MarkRemaining(w)
    BY <2>7, MarkStep
  <2>8. CASE Answer(w)
    BY <2>8, AnswerStep
  <2>9. QED
    BY <1>1, <2>1, <2>2, <2>3, <2>4, <2>5, <2>6, <2>7, <2>8 DEF Advance
<1>2. ASSUME NEW w \in Workflows, MeshDecides(w) PROVE Inv'
  BY <1>2, MeshStep
<1>3. ASSUME NEW w \in Workflows, EngineAnswers(w) PROVE Inv'
  BY <1>3, EngineStep
<1>4. CASE UNCHANGED vars
  BY <1>4 DEF vars, Inv, TypeOK, Marks, WInv, Position, Progress, Granted, Filled, Outcome, Steps
<1>5. QED
  BY <1>1, <1>2, <1>3, <1>4 DEF Next, Answered

THEOREM InvHolds == Spec => []Inv
BY StartsWell, StepsWell, PTL DEF Spec

\* Every variable of the executor keeps its type, and every mark is on a step of the plan.
THEOREM TypeCorrect == Spec => []TypeOK
<1>1. Inv => TypeOK
  BY DEF Inv
<1>2. QED
  BY <1>1, InvHolds, PTL

\* No tool of any workflow runs unless AgentGuard-X decided ALLOW on that step, or decided
\* SANDBOX and the engine answered something other than BLOCK (_execute_step,
\* check_with_guard, _sandbox_evaluate).
THEOREM GuardedTools == Spec => []FailClosed
<1>1. Inv => FailClosed
  BY DEF Inv, WInv, Granted, FailClosed
<1>2. QED
  BY <1>1, InvHolds, PTL

\* In whatever plan, execute_graph never reaches a step with a blocked dependency, and a
\* report whose content is marked "[auto-populated" is written from the outputs of all its
\* dependencies.  Nothing is said of the document plan's report, whose text _fill_inputs
\* does not take for a placeholder: it is written from that text.
THEOREM WholeReports == Spec => []ReportComplete
<1>1. Inv => ReportComplete
  BY NoneBlocked DEF Inv, WInv, Filled, ReportComplete
<1>2. QED
  BY <1>1, InvHolds, PTL

\* overall_status of an answered workflow is "completed" exactly if every tool ran.
THEOREM HonestAnswers == Spec => []TruthfulStatus
<1>1. ASSUME Inv, NEW w \in Workflows, pc[w] = "answered"
      PROVE  /\ \A n \in Steps(w) : status[w][n] \in {"done", "blocked"}
             /\ overall[w] = "completed" <=> \A n \in Steps(w) : status[w][n] = "done"
  <2>1. /\ Steps(w) = 1..Len(graph[w]) /\ Len(graph[w]) \in Nat /\ cur[w] \in 1..(Len(graph[w]) + 1)
        /\ Progress(w) /\ Outcome(w)
    BY <1>1, StepsFacts DEF Inv, WInv, Position
  <2>2. \A n \in Steps(w) : status[w][n] \in {"done", "blocked"}
    BY <1>1, <2>1 DEF Progress
  <2>3. CASE cur[w] \in Steps(w)
    BY <1>1, <2>1, <2>2, <2>3 DEF Progress, Outcome
  <2>4. CASE cur[w] \notin Steps(w)
    BY <1>1, <2>1, <2>2, <2>4 DEF Progress, Outcome
  <2>5. QED
    BY <2>2, <2>3, <2>4
<1>2. Inv => TruthfulStatus
  BY <1>1 DEF TruthfulStatus
<1>3. QED
  BY <1>2, InvHolds, PTL

----------------------------------------------------------------------------
(* The executor implements WorkflowPromise.                                *)

FateTo(w, n, f) == Fates' = [Fates EXCEPT ![w][n] = f]

\* Marking one step changes that step's fate and no other.
LEMMA OneFate ==
    ASSUME TypeOK, NEW w \in Workflows, NEW n \in Steps(w), NEW x,
           graph' = graph, Mark(w, n, x)
    PROVE  FateTo(w, n, Fate(x))
<1>0. status' = [status EXCEPT ![w][n] = x]
  BY DEF Mark
<1>1. /\ \A v \in Workflows : v # w => status'[v] = status[v]
      /\ status'[w][n] = x /\ \A m \in Steps(w) : m # n => status'[w][m] = status[w][m]
  BY <1>0 DEF TypeOK, Marks
<1>2. \A v \in Workflows : Steps(v)' = Steps(v)
  BY DEF Steps
<1> DEFINE F == [Fates EXCEPT ![w][n] = Fate(x)]
<1>3. Fates[w] = [m \in Steps(w) |-> Fate(status[w][m])]
  BY DEF Fates
<1>4. F = [Fates EXCEPT ![w] = [Fates[w] EXCEPT ![n] = Fate(x)]]
  OBVIOUS
<1>5. [Fates[w] EXCEPT ![n] = Fate(x)] = [m \in Steps(w) |-> Fate(status'[w][m])]
  BY <1>1, <1>3
<1>6. F = [v \in Workflows |-> [m \in Steps(v) |-> Fate(status'[v][m])]]
  <2>1. ASSUME NEW v \in Workflows PROVE F[v] = [m \in Steps(v) |-> Fate(status'[v][m])]
    <3>1. CASE v = w
      BY <3>1, <1>4, <1>5 DEF Fates
    <3>2. CASE v # w
      <4>1. F[v] = Fates[v] /\ status'[v] = status[v]
        BY <3>2, <1>1, <1>4 DEF Fates
      <4>2. QED
        BY <4>1 DEF Fates
    <3>3. QED
      BY <3>1, <3>2
  <2>2. F = [v \in Workflows |-> F[v]]
    BY <1>4 DEF Fates
  <2> HIDE DEF F
  <2>3. QED
    BY <2>1, <2>2
<1>7. Fates' = [v \in Workflows |-> [m \in Steps(v) |-> Fate(status'[v][m])]]
  BY <1>2 DEF Fates
<1>8. QED
  BY <1>6, <1>7 DEF FateTo

\* What a mark stands for.
LEMMA FateValues ==
    /\ Fate("pending") = "open" /\ Fate("running") = "open"
    /\ Fate("done") = "ran" /\ Fate("blocked") = "refused"
BY DEF Fate

\* The fate of a step, read off its status.
LEMMA FateOf ==
    ASSUME NEW w \in Workflows, NEW n \in Steps(w)
    PROVE  Fates[w][n] = Fate(status[w][n])
BY DEF Fates

LEMMA RunsInOrder ==
    ASSUME Inv, NEW w \in Workflows, pc[w] \in {"route", "sandbox"}, RunTool(w), graph' = graph
    PROVE  Promise!Run(w, cur[w])
<1> DEFINE n == cur[w]
<1>1. /\ n \in Steps(w) /\ status[w][n] = "running" /\ graph[w] \in Graphs /\ n \in Nat
      /\ Progress(w) /\ TypeOK
  BY DEF Inv, WInv, Position, Progress, TypeOK
<1>2. Fates' = [Fates EXCEPT ![w][n] = "ran"]
  <2>1. Mark(w, n, "done")
    BY DEF RunTool
  <2>2. FateTo(w, n, Fate("done"))
    BY <1>1, <2>1, OneFate
  <2>3. QED
    BY <2>2, FateValues DEF FateTo
<1>3. \A m \in Steps(w) : Fates[w][m] # "refused"
  <2>1. Steps(w) = 1..Len(graph[w]) /\ Len(graph[w]) \in Nat
    BY <1>1, StepsFacts
  <2>2. \A m \in Steps(w) : status[w][m] \in {"pending", "running", "done"}
    BY <1>1, <2>1 DEF Progress
  <2>3. QED
    BY <2>2, FateOf, FateValues
<1>4. \A m \in graph[w][n].deps : Fates[w][m] = "ran"
  <2>1. \A m \in graph[w][n].deps : m \in Steps(w) /\ m < n
    BY <1>1, GraphFacts DEF Steps
  <2>2. \A m \in graph[w][n].deps : m \in Steps(w) /\ status[w][m] = "done"
    BY <1>1, <2>1 DEF Progress
  <2>3. QED
    BY <2>2, FateOf, FateValues
<1>5. Fates[w][n] = "open"
  BY <1>1, FateOf, FateValues
<1>6. QED
  BY <1>1, <1>2, <1>3, <1>4, <1>5 DEF Promise!Run, Promise!Settle, Steps

LEMMA Refuses ==
    ASSUME Inv, NEW w \in Workflows, NEW n \in Steps(w), status[w][n] \in {"pending", "running"},
           Mark(w, n, "blocked"), graph' = graph
    PROVE  Promise!Refuse(w, n)
<1>1. Fates' = [Fates EXCEPT ![w][n] = "refused"]
  <2>1. TypeOK
    BY DEF Inv
  <2>2. FateTo(w, n, Fate("blocked"))
    BY <2>1, OneFate
  <2>3. QED
    BY <2>2, FateValues DEF FateTo
<1>2. Fates[w][n] = "open"
  BY FateOf, FateValues
<1>3. QED
  BY <1>1, <1>2 DEF Promise!Refuse, Promise!Settle, Steps

LEMMA PromiseStarts == Init => Promise!Init
<1> SUFFICES ASSUME Init PROVE Promise!Init
  OBVIOUS
<1>1. graph = [w \in Workflows |-> <<>>]
  BY DEF Init
<1>2. ASSUME NEW w \in Workflows PROVE [n \in Steps(w) |-> Fate(status[w][n])] = <<>>
  BY <1>1, EmptyFacts DEF Steps
<1>3. Fates = [w \in Workflows |-> <<>>]
  BY <1>2 DEF Fates
<1>4. QED
  BY <1>1, <1>3 DEF Promise!Init

LEMMA PlansOnce ==
    ASSUME Inv, NEW w \in Workflows, Chat(w)
    PROVE  \E g \in Graphs : Promise!Plan(w, g)
<1>1. PICK g \in Graphs :
         /\ graph' = [graph EXCEPT ![w] = g]
         /\ status' = [status EXCEPT ![w] = [n \in DOMAIN g |-> "pending"]]
  BY DEF Chat
<1>2. graph[w] = <<>>
  BY DEF Chat, Inv, WInv, Position
<1>3. ASSUME NEW v \in Workflows
      PROVE  [n \in Steps(v)' |-> Fate(status'[v][n])]
                = IF v = w THEN [n \in DOMAIN g |-> "open"] ELSE Fates[v]
  <2>1. CASE v = w
    <3>1. Steps(v)' = DOMAIN g /\ status'[v] = [n \in DOMAIN g |-> "pending"]
      BY <1>1, <2>1 DEF Inv, TypeOK, Marks, Steps
    <3>2. QED
      BY <2>1, <3>1, FateValues
  <2>2. CASE v # w
    <3>1. Steps(v)' = Steps(v) /\ status'[v] = status[v]
      BY <1>1, <2>2 DEF Inv, TypeOK, Marks, Steps
    <3>2. QED
      BY <2>2, <3>1 DEF Fates
  <2>3. QED
    BY <2>1, <2>2
<1>4. Fates' = [Fates EXCEPT ![w] = [n \in DOMAIN g |-> "open"]]
  BY <1>3 DEF Fates
<1>5. QED
  BY <1>1, <1>2, <1>4 DEF Promise!Plan

LEMMA PromiseSteps == Inv /\ [Next]_vars => [Promise!Next]_Promise!vars
<1> SUFFICES ASSUME Inv, [Next]_vars PROVE Promise!Next \/ UNCHANGED <<graph, Fates>>
  BY DEF Promise!vars
<1>1. ASSUME NEW w \in Workflows, NEW n \in Steps(w), Promise!Run(w, n) \/ Promise!Refuse(w, n)
      PROVE  Promise!Next
  BY <1>1 DEF Promise!Next, Steps
<1>2. ASSUME UNCHANGED <<graph, status>> PROVE UNCHANGED <<graph, Fates>>
  BY <1>2 DEF Fates, Steps
<1>3. ASSUME NEW w \in Workflows, pc[w] \in {"route", "sandbox"}
      PROVE  cur[w] \in Steps(w) /\ status[w][cur[w]] = "running"
  BY <1>3 DEF Inv, WInv, Position, Progress
<1>4. ASSUME NEW w \in Workflows, Advance(w)
      PROVE  Promise!Next \/ UNCHANGED <<graph, Fates>>
  <2>1. CASE Chat(w)
    BY <2>1, PlansOnce DEF Promise!Next
  <2>2. CASE Visit(w)
    <3> DEFINE n == cur[w]
    <3>1. n \in Steps(w) /\ pc[w] = "next"
      BY <2>2 DEF Visit
    <3>2. BlockedDeps(w, n) = {} /\ status[w][n] = "pending"
      BY <3>1, NoneBlocked DEF Inv, WInv, Progress
    <3>3. Mark(w, n, "running") /\ graph' = graph
      BY <2>2, <3>2 DEF Visit
    <3>4. FateTo(w, n, Fate("running"))
      BY <3>1, <3>3, OneFate DEF Inv
    <3>5. Fates[w][n] = "open"
      BY <3>1, <3>2, FateOf, FateValues
    <3>6. Fates' = Fates
      <4>1. Fates' = [Fates EXCEPT ![w] = [Fates[w] EXCEPT ![n] = "open"]]
        BY <3>4, FateValues DEF FateTo
      <4>2. [Fates[w] EXCEPT ![n] = "open"] = Fates[w]
        BY <3>5 DEF Fates
      <4>3. QED
        BY <4>1, <4>2 DEF Fates
    <3>7. QED
      BY <3>3, <3>6
  <2>3. CASE GuardReplies(w) \/ GuardFails(w)
    BY <2>3, <1>2 DEF GuardReplies, GuardFails, Verdict
  <2>4. CASE Route(w)
    <3>1. pc[w] = "route" /\ graph' = graph
      BY <2>4 DEF Route
    <3>2. CASE HardStop(w)
      BY <3>1, <3>2, <1>1, <1>3, Refuses DEF HardStop
    <3>3. CASE RunTool(w)
      BY <3>1, <3>3, <1>1, <1>3, RunsInOrder
    <3>4. CASE UNCHANGED status
      BY <3>1, <3>4, <1>2
    <3>5. QED
      BY <2>4, <3>2, <3>3, <3>4 DEF Route
  <2>5. CASE EngineReplies(w) \/ EngineFails(w)
    <3>1. pc[w] = "sandbox" /\ graph' = graph
      BY <2>5 DEF EngineReplies, EngineFails
    <3>2. CASE HardStop(w)
      BY <3>1, <3>2, <1>1, <1>3, Refuses DEF HardStop
    <3>3. CASE RunTool(w)
      BY <3>1, <3>3, <1>1, <1>3, RunsInOrder
    <3>4. CASE UNCHANGED status
      BY <3>1, <3>4, <1>2
    <3>5. QED
      BY <2>5, <3>2, <3>3, <3>4 DEF EngineReplies, EngineFails
  <2>6. CASE MarkRemaining(w)
    BY <2>6, <1>1, Refuses DEF MarkRemaining
  <2>7. CASE Answer(w)
    BY <2>7, <1>2 DEF Answer
  <2>8. QED
    BY <1>4, <2>1, <2>2, <2>3, <2>4, <2>5, <2>6, <2>7 DEF Advance
<1>5. ASSUME NEW w \in Workflows, MeshDecides(w) PROVE UNCHANGED <<graph, Fates>>
  BY <1>5, <1>2 DEF MeshDecides
<1>6. ASSUME NEW w \in Workflows, EngineAnswers(w) PROVE UNCHANGED <<graph, Fates>>
  BY <1>6, <1>2 DEF EngineAnswers
<1>7. CASE UNCHANGED vars
  BY <1>7, <1>2 DEF vars
<1>8. QED
  BY <1>4, <1>5, <1>6, <1>7 DEF Next, Answered

\* execute_graph and _execute_step implement WorkflowPromise: tools run after the tools
\* they depend on, and nothing runs after a refusal.
THEOREM Implements == Spec => KeepsPromise
BY PromiseStarts, PromiseSteps, InvHolds, PTL DEF Spec, KeepsPromise, Promise!Spec

----------------------------------------------------------------------------
(* The chat's coroutine has an end: each of its steps brings it nearer.    *)

Pending(w) == {n \in Steps(w) : status[w][n] = "pending"}

\* How far the coroutine is with the step it is at.
Pauses(w) ==
    CASE pc[w] = "next" -> 4 [] pc[w] = "guard" -> 3 [] pc[w] = "route" -> 2 [] OTHER -> 1

\* What it may still have to do: four pauses for each step of its graph and one round more,
\* or, after a hard stop, one for each step that is not marked.
Left(w) ==
    CASE pc[w] = "answered" \/ pc[w] = "raised" -> 0
      [] pc[w] = "stop" -> 1 + Cardinality(Pending(w))
      [] OTHER -> 4 * (Len(graph[w]) + 1 - cur[w]) + Pauses(w)

\* Once a chat has its plan, every step of its own coroutine uses some of that up, and nothing that
\* AgentGuard-X, the engine or another chat does adds to it: execute_graph cannot go round for ever.
NearerTheEnd ==
    [][\A w \in Workflows : pc[w] # "idle" =>
          IF Advance(w) THEN Left(w)' < Left(w) ELSE Left(w)' = Left(w)]_vars

LEMMA PartOfInterval ==
    ASSUME NEW k \in Nat, NEW c \in 1..k, NEW S, S \subseteq (c + 1)..k
    PROVE  IsFiniteSet(S) /\ Cardinality(S) \in 0..(k - c)
<1>1. c + 1 \in Int /\ k \in Int
  OBVIOUS
<1>2. IsFiniteSet((c + 1)..k) /\ Cardinality((c + 1)..k) = k - c
  <2>1. Cardinality((c + 1)..k) = IF c + 1 > k THEN 0 ELSE k - (c + 1) + 1
    BY <1>1, FS_Interval
  <2>2. QED
    BY <1>1, <2>1, FS_Interval
<1>3. IsFiniteSet(S) /\ Cardinality(S) <= Cardinality((c + 1)..k)
  BY <1>2, FS_Subset
<1>4. Cardinality(S) \in Nat
  BY <1>3, FS_CardinalityType
<1>5. QED
  BY <1>2, <1>3, <1>4

LEMMA LeftFacts ==
    ASSUME Inv, NEW w \in Workflows
    PROVE  /\ Left(w) \in Nat
           /\ pc[w] = "stop" => /\ IsFiniteSet(Pending(w))
                                /\ Cardinality(Pending(w)) \in 0..(Len(graph[w]) - cur[w])
<1>1. Steps(w) = 1..Len(graph[w]) /\ Len(graph[w]) \in Nat /\ cur[w] \in 1..(Len(graph[w]) + 1)
  BY StepsFacts DEF Inv, WInv, Position
<1>2. ASSUME pc[w] = "stop"
      PROVE  IsFiniteSet(Pending(w)) /\ Cardinality(Pending(w)) \in 0..(Len(graph[w]) - cur[w])
  <2>1. cur[w] \in 1..Len(graph[w]) /\ Pending(w) \subseteq (cur[w] + 1)..Len(graph[w])
    BY <1>1, <1>2 DEF Inv, WInv, Position, Progress, Pending
  <2>2. QED
    BY <1>1, <2>1, PartOfInterval
<1>3. CASE pc[w] = "stop"
  BY <1>1, <1>2, <1>3 DEF Left
<1>4. CASE pc[w] # "stop"
  <2>1. 4 * (Len(graph[w]) + 1 - cur[w]) \in Nat
    BY <1>1
  <2>2. Pauses(w) \in Nat
    BY DEF Pauses
  <2>3. QED
    BY <1>4, <2>1, <2>2 DEF Left
<1>5. QED
  BY <1>2, <1>3, <1>4

\* Before the graph is left, it is the steps ahead and the pauses of this one that count.
LEMMA OnTheWay ==
    ASSUME NEW w \in Workflows, pc[w] \in {"next", "guard", "route", "sandbox"}
    PROVE  Left(w) = 4 * (Len(graph[w]) + 1 - cur[w]) + Pauses(w)
<1>1. ~(pc[w] = "answered" \/ pc[w] = "raised") /\ pc[w] # "stop"
  OBVIOUS
<1>2. QED
  BY <1>1, Zenon DEF Left

\* A pause of a step is over, and the next one of the same step begins.
LEMMA NextPause ==
    ASSUME Inv, NEW w \in Workflows, NEW here, NEW there, pc[w] = here, pc' = [pc EXCEPT ![w] = there],
           UNCHANGED <<graph, cur>>,
           \/ here = "next" /\ there = "guard"
           \/ here = "guard" /\ there = "route"
           \/ here = "route" /\ there = "sandbox"
    PROVE  Left(w)' < Left(w)
<1>1. Len(graph[w]) \in Nat /\ cur[w] \in Nat
  BY StepsFacts DEF Inv, TypeOK
<1>2. pc'[w] = there
  BY DEF Inv, TypeOK
<1>3. Left(w) = 4 * (Len(graph[w]) + 1 - cur[w]) + Pauses(w)
  BY OnTheWay
<1>4. Left(w)' = 4 * (Len(graph[w]) + 1 - cur[w]) + Pauses(w)'
  <2>1. ~(pc'[w] = "answered" \/ pc'[w] = "raised") /\ pc'[w] # "stop"
    BY <1>2
  <2>2. Left(w)' = 4 * (Len(graph'[w]) + 1 - cur'[w]) + Pauses(w)'
    BY <2>1, Zenon DEF Left
  <2>3. QED
    BY <2>2
<1>5. Pauses(w)' \in Nat /\ Pauses(w) \in Nat /\ Pauses(w)' < Pauses(w)
  BY <1>2 DEF Pauses
<1>6. QED
  BY <1>1, <1>3, <1>4, <1>5

LEMMA StepDone ==
    ASSUME Inv, NEW w \in Workflows, pc[w] \in {"route", "sandbox"}, RunTool(w), UNCHANGED graph
    PROVE  Left(w)' < Left(w)
<1>1. Len(graph[w]) \in Nat /\ cur[w] \in Nat
  BY StepsFacts DEF Inv, TypeOK
<1>2. pc'[w] = "next" /\ cur'[w] = cur[w] + 1
  BY DEF Inv, TypeOK, RunTool, Goto
<1>3. Left(w) >= 4 * (Len(graph[w]) + 1 - cur[w]) + 1
  BY <1>1, OnTheWay DEF Pauses
<1>4. Left(w)' = 4 * (Len(graph[w]) + 1 - cur[w])
  <2>1. Left(w)' = 4 * (Len(graph[w]) + 1 - (cur[w] + 1)) + 4
    BY <1>2 DEF Left, Pauses
  <2>2. QED
    BY <1>1, <2>1
<1>5. Left(w) \in Nat
  BY LeftFacts
<1>6. QED
  BY <1>1, <1>3, <1>4, <1>5

LEMMA StopsSoon ==
    ASSUME Inv, Inv', NEW w \in Workflows, pc[w] \in {"route", "sandbox"}, HardStop(w), UNCHANGED graph
    PROVE  Left(w)' < Left(w)
<1>1. /\ Len(graph[w]) \in Nat /\ Steps(w) = 1..Len(graph[w])
      /\ cur[w] \in 1..Len(graph[w])
  BY StepsFacts DEF Inv, WInv, Position
<1>2. pc'[w] = "stop" /\ cur'[w] = cur[w] /\ graph'[w] = graph[w]
  BY DEF Inv, TypeOK, HardStop, Goto
<1>3. Pending(w)' \subseteq (cur[w] + 1)..Len(graph[w])
  <2>1. Progress(w)'
    BY DEF Inv, WInv
  <2>2. QED
    BY <1>1, <1>2, <2>1 DEF Progress, Pending, Steps
<1>4. Cardinality(Pending(w)') \in 0..(Len(graph[w]) - cur[w])
  BY <1>1, <1>3, PartOfInterval
<1>5. Left(w)' = 1 + Cardinality(Pending(w)')
  BY <1>2 DEF Left
<1>6. Left(w) >= 4 * (Len(graph[w]) + 1 - cur[w]) + 1
  BY <1>1, OnTheWay DEF Pauses
<1>7. Left(w) \in Nat
  BY LeftFacts
<1>8. QED
  BY <1>1, <1>4, <1>5, <1>6, <1>7

LEMMA OneMarked ==
    ASSUME Inv, NEW w \in Workflows, MarkRemaining(w)
    PROVE  Left(w)' < Left(w)
<1>1. pc[w] = "stop" /\ UNCHANGED <<graph, pc>>
  BY DEF MarkRemaining
<1>2. PICK n \in Steps(w) : status[w][n] = "pending" /\ status' = [status EXCEPT ![w][n] = "blocked"]
  BY DEF MarkRemaining, Mark
<1>3. Pending(w)' = Pending(w) \ {n} /\ n \in Pending(w)
  BY <1>1, <1>2 DEF Inv, TypeOK, Marks, Pending, Steps
<1>4. IsFiniteSet(Pending(w)) /\ Cardinality(Pending(w)) \in Nat
  BY <1>1, LeftFacts, FS_CardinalityType
<1>5. Cardinality(Pending(w)') = Cardinality(Pending(w)) - 1
  BY <1>3, <1>4, FS_RemoveElement
<1>6. QED
  BY <1>1, <1>4, <1>5 DEF Left

LEMMA OwnSteps ==
    ASSUME Inv, Inv', NEW w \in Workflows, pc[w] # "idle", Advance(w)
    PROVE  Left(w)' < Left(w)
<1>1. CASE Visit(w)
  <2>1. pc[w] = "next" /\ cur[w] \in Steps(w) /\ UNCHANGED graph
    BY <1>1 DEF Visit
  <2>2. BlockedDeps(w, cur[w]) = {}
    BY <2>1, NoneBlocked
  <2>3. pc' = [pc EXCEPT ![w] = "guard"] /\ UNCHANGED cur
    BY <1>1, <2>2 DEF Visit, Goto
  <2>4. QED
    BY <2>1, <2>3, NextPause
<1>2. CASE GuardReplies(w) \/ GuardFails(w)
  BY <1>2, NextPause DEF GuardReplies, GuardFails, Verdict, Goto
<1>3. CASE Route(w)
  <2>1. pc[w] = "route" /\ UNCHANGED graph
    BY <1>3 DEF Route
  <2>2. CASE HardStop(w)
    BY <2>1, <2>2, StopsSoon
  <2>3. CASE RunTool(w)
    BY <2>1, <2>3, StepDone
  <2>4. CASE Goto(w, "sandbox") /\ UNCHANGED cur
    BY <2>1, <2>4, NextPause DEF Goto
  <2>5. QED
    BY <1>3, <2>2, <2>3, <2>4 DEF Route
<1>4. CASE EngineReplies(w) \/ EngineFails(w)
  <2>1. pc[w] = "sandbox" /\ UNCHANGED graph
    BY <1>4 DEF EngineReplies, EngineFails
  <2>2. CASE HardStop(w)
    BY <2>1, <2>2, StopsSoon
  <2>3. CASE RunTool(w)
    BY <2>1, <2>3, StepDone
  <2>4. CASE Goto(w, "raised")
    <3>1. pc'[w] = "raised"
      BY <2>4 DEF Goto, Inv, TypeOK
    <3>2. Left(w)' = 0
      BY <3>1 DEF Left
    <3>3. /\ Left(w) = 4 * (Len(graph[w]) + 1 - cur[w]) + 1
          /\ cur[w] \in 1..Len(graph[w]) /\ Len(graph[w]) \in Nat
      BY <2>1, StepsFacts DEF Left, Pauses, Inv, WInv, Position
    <3>4. QED
      BY <3>2, <3>3
  <2>5. QED
    BY <1>4, <2>2, <2>3, <2>4 DEF EngineReplies, EngineFails
<1>5. CASE MarkRemaining(w)
  BY <1>5, OneMarked
<1>6. CASE Answer(w)
  <2>1. /\ pc[w] \in {"next", "stop"} /\ pc'[w] = "answered"
        /\ pc[w] = "next" => cur[w] \in 1..(Len(graph[w]) + 1)
    BY <1>6 DEF Answer, Goto, Inv, TypeOK, WInv, Position
  <2>2. Len(graph[w]) \in Nat
    BY StepsFacts DEF Inv
  <2>3. CASE pc[w] = "next"
    BY <2>1, <2>2, <2>3 DEF Left, Pauses
  <2>4. CASE pc[w] = "stop"
    <3>1. Cardinality(Pending(w)) \in Nat
      BY <2>4, LeftFacts, FS_CardinalityType
    <3>2. QED
      BY <2>1, <2>4, <3>1 DEF Left
  <2>5. QED
    BY <2>1, <2>3, <2>4
<1>7. ~Chat(w)
  BY DEF Chat
<1>8. QED
  BY <1>1, <1>2, <1>3, <1>4, <1>5, <1>6, <1>7 DEF Advance

\* What Left reads of w.
LEMMA SameLeft ==
    ASSUME NEW w \in Workflows,
           graph'[w] = graph[w] /\ pc'[w] = pc[w] /\ cur'[w] = cur[w] /\ status'[w] = status[w]
    PROVE  Left(w)' = Left(w)
BY DEF Left, Pauses, Pending, Steps

LEMMA OthersSteps ==
    ASSUME Inv, [Next]_vars, NEW w \in Workflows, ~Advance(w)
    PROVE  Left(w)' = Left(w)
<1>1. ASSUME NEW v \in Workflows, Advance(v) PROVE Left(w)' = Left(w)
  <2>1. v # w
    BY <1>1
  <2>2. graph'[w] = graph[w] /\ pc'[w] = pc[w] /\ cur'[w] = cur[w] /\ status'[w] = status[w]
    <3>1. TypeOK
      BY DEF Inv
    <3>2. CASE Chat(v)
      BY <2>1, <3>1, <3>2 DEF Chat, Goto, TypeOK, Marks
    <3>3. CASE Visit(v)
      BY <2>1, <3>1, <3>3 DEF Visit, Goto, Mark, TypeOK, Marks
    <3>4. CASE GuardReplies(v) \/ GuardFails(v)
      BY <2>1, <3>1, <3>4 DEF GuardReplies, GuardFails, Verdict, Goto, TypeOK, Marks
    <3>5. CASE Route(v) \/ EngineReplies(v) \/ EngineFails(v)
      BY <2>1, <3>1, <3>5 DEF Route, EngineReplies, EngineFails, HardStop, RunTool, Goto, Mark, TypeOK, Marks
    <3>6. CASE MarkRemaining(v) \/ Answer(v)
      BY <2>1, <3>1, <3>6 DEF MarkRemaining, Answer, Goto, Mark, TypeOK, Marks
    <3>7. QED
      BY <1>1, <3>2, <3>3, <3>4, <3>5, <3>6 DEF Advance
  <2>3. QED
    BY <2>2, SameLeft
<1>2. CASE \E v \in Workflows : MeshDecides(v)
  BY <1>2, SameLeft DEF MeshDecides
<1>3. CASE \E v \in Workflows : EngineAnswers(v)
  BY <1>3, SameLeft DEF EngineAnswers
<1>4. CASE UNCHANGED vars
  BY <1>4, SameLeft DEF vars
<1>5. QED
  BY <1>1, <1>2, <1>3, <1>4 DEF Next, Answered

\* A chat has at most 4 (n + 1) steps before its answer when its graph has n: what keeps it from
\* one is only a step that is not taken. This is what the fairness of EventuallyAnswered is for.
THEOREM StepsRunOut == Spec => [](\A w \in Workflows : Left(w) \in Nat) /\ NearerTheEnd
<1> DEFINE Nearer ==
      \A w \in Workflows : pc[w] # "idle" =>
          IF Advance(w) THEN Left(w)' < Left(w) ELSE Left(w)' = Left(w)
<1>1. Inv => \A w \in Workflows : Left(w) \in Nat
  BY LeftFacts
<1>2. Inv /\ Inv' /\ [Next]_vars => [Nearer]_vars
  BY OwnSteps, OthersSteps
<1>3. QED
  BY <1>1, <1>2, InvHolds, PTL DEF Spec, NearerTheEnd
=============================================================================
