--------------------------- MODULE BreakerPromise ---------------------------
(***************************************************************************)
(* What a circuit breaker promises whoever calls a service through it,     *)
(* with no word of failure counts or of how time is kept: calls start      *)
(* freely while it is closed, none while it is open, and once it has been  *)
(* open for Rest a trial begins with no call left from before, in which at *)
(* most Trials calls run; only a call of the trial ends the trial.         *)
(***************************************************************************)
EXTENDS Naturals, FiniteSets

CONSTANTS Callers, Rest, Trials

VARIABLES
    mode,      \* "closed", "open" or "half_open"
    rest,      \* how long it has been left alone since the last failure, up to Rest
    running    \* the callers whose call runs

vars == <<mode, rest, running>>

Init == mode = "closed" /\ rest = Rest /\ running = {}

\* A call begins while the breaker is closed, or as one more of a trial.
Start(c) ==
    /\ c \notin running
    /\ \/ mode = "closed"
       \/ mode = "half_open" /\ Cardinality(running) < Trials
    /\ running' = running \cup {c}
    /\ UNCHANGED <<mode, rest>>

\* The first call after the rest begins a trial, and it is alone.
Trial(c) ==
    /\ mode = "open" /\ rest = Rest /\ running = {}
    /\ mode' = "half_open" /\ running' = {c}
    /\ UNCHANGED rest

\* A call ends: well, or with a failure that starts the rest anew.
End(c) ==
    /\ c \in running
    /\ running' = running \ {c}
    /\ \/ UNCHANGED rest /\ mode' \in (IF mode = "half_open" THEN {"half_open", "closed"} ELSE {mode})
       \/ rest' = 0 /\ mode' \in (IF mode = "closed" THEN {"closed", "open"} ELSE {"open"})

Wait ==
    /\ rest < Rest /\ rest' = rest + 1
    /\ UNCHANGED <<mode, running>>

Next == Wait \/ \E c \in Callers : Start(c) \/ Trial(c) \/ End(c)

Spec == Init /\ [][Next]_vars
=============================================================================
