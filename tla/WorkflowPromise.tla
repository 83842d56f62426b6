-------------------------- MODULE WorkflowPromise --------------------------
(***************************************************************************)
(* What the FinanceFlow executor promises about the tools of a workflow,   *)
(* without saying how: a step's tool runs after the tools of the steps it  *)
(* depends on, and after the first refusal nothing of that workflow runs   *)
(* any more - the steps left over can only be refused with it.             *)
(***************************************************************************)
EXTENDS Integers, Sequences

CONSTANTS Workflows, Graphs   \* see TaskGraph

VARIABLES
    graph,   \* the graph each workflow was given, <<>> before it has one
    fate     \* fate[w][n]: the step is "open", "ran" or "refused"

vars == <<graph, fate>>

Init ==
    /\ graph = [w \in Workflows |-> <<>>]
    /\ fate = [w \in Workflows |-> <<>>]

Plan(w, g) ==
    /\ graph[w] = <<>>
    /\ graph' = [graph EXCEPT ![w] = g]
    /\ fate' = [fate EXCEPT ![w] = [n \in DOMAIN g |-> "open"]]

Settle(w, n, how) ==
    /\ n \in DOMAIN graph[w] /\ fate[w][n] = "open"
    /\ fate' = [fate EXCEPT ![w][n] = how]
    /\ UNCHANGED graph

Run(w, n) ==
    /\ \A m \in DOMAIN graph[w] : fate[w][m] # "refused"
    /\ \A m \in graph[w][n].deps : fate[w][m] = "ran"
    /\ Settle(w, n, "ran")

Refuse(w, n) == Settle(w, n, "refused")

Next ==
    \E w \in Workflows :
        \/ \E g \in Graphs : Plan(w, g)
        \/ \E n \in DOMAIN graph[w] : Run(w, n) \/ Refuse(w, n)

Spec == Init /\ [][Next]_vars
=============================================================================
