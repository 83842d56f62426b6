---------------------------- MODULE GatewayEdge ----------------------------
(***************************************************************************)
(* The edge of the gateway: what stands between a client and the request   *)
(* pipeline.  create_app (app/main.py) adds four middlewares, and Starlette*)
(* makes the one added last the outermost:                                 *)
(*    input size ( load shedding ( time limit ( timing ( endpoint ))))     *)
(* A middleware of Starlette runs what it wraps as a task of its own and   *)
(* waits for that task's first message.  The time limit therefore gives up *)
(* waiting, answers 504, and leaves the endpoint running; and load shedding*)
(* gives its slot back when an answer passes, not when the work is over.   *)
(***************************************************************************)
EXTENDS Integers, FiniteSets

CONSTANTS
    Requests,
    Excluded,    \* the requests to a path of EXCLUDED_PATHS
    MaxActive,   \* 5000 requests
    MinTime,     \* MIN_RESPONSE_TIME, 15 ms, in units of time
    Timeout      \* REQUEST_TIMEOUT, 30 s, in the same units

ASSUME EdgeAssumption ==
    /\ IsFiniteSet(Requests) /\ Excluded \subseteq Requests
    /\ MaxActive \in Nat \ {0}
    /\ MinTime \in Nat \ {0} /\ Timeout \in Nat /\ MinTime < Timeout

VARIABLES
    pc,       \* idle, inside (the time limit), padding, leaving, answered
    work,     \* the endpoint's task: none, running, ended
    age,      \* time since the request went inside, up to Timeout
    code,     \* the answer
    active    \* GlobalLoadShedder.active_requests

vars == <<pc, work, age, code, active>>

Codes == {"none", "invalid", "overloaded", "timeout", "error", "served"}

TypeOK ==
    /\ pc \in [Requests -> {"idle", "inside", "padding", "leaving", "answered"}]
    /\ work \in [Requests -> {"none", "running", "ended"}]
    /\ age \in [Requests -> 0..Timeout]
    /\ code \in [Requests -> Codes]
    /\ active \in Nat

Init ==
    /\ pc = [r \in Requests |-> "idle"]
    /\ work = [r \in Requests |-> "none"]
    /\ age = [r \in Requests |-> 0]
    /\ code = [r \in Requests |-> "none"]
    /\ active = 0

Move(r, step, answer) ==
    /\ pc' = [pc EXCEPT ![r] = step]
    /\ code' = [code EXCEPT ![r] = answer]

----------------------------------------------------------------------------

\* The size of the body and of the headers, and the x-request-id header.
SizeLimit(r) ==
    /\ pc[r] = "idle" /\ r \notin Excluded
    /\ Move(r, "answered", "invalid")
    /\ UNCHANGED <<work, age, active>>

\* Slip: the limit is compared the wrong way round by one.
HasSlotOneTooMany == active <= MaxActive

\* acquire_slot; enqueue_request has no caller, so nothing is ever queued.
HasSlot == active < MaxActive

\* No slot, or not enough memory.
Shed(r) ==
    /\ pc[r] = "idle" /\ r \notin Excluded
    /\ Move(r, "answered", "overloaded")
    /\ UNCHANGED <<work, age, active>>

\* The lock of acquire_slot guards no await: nobody ever waits for it.
Admit(r) ==
    /\ pc[r] = "idle"
    /\ \/ r \notin Excluded /\ HasSlot /\ active' = active + 1
       \/ r \in Excluded /\ UNCHANGED active
    /\ pc' = [pc EXCEPT ![r] = "inside"]
    /\ work' = [work EXCEPT ![r] = "running"]
    /\ UNCHANGED <<age, code>>

\* Somebody still waits for the endpoint's first message.
Awaited(r) == pc[r] = "inside"

\* The endpoint answers or raises.  Only an answer is padded, by the timing middleware.
EndpointEnds(r) ==
    /\ work[r] = "running"
    /\ work' = [work EXCEPT ![r] = "ended"]
    /\ \/ Awaited(r) /\ age[r] < MinTime /\ r \notin Excluded /\ Move(r, "padding", "none")
       \/ Awaited(r) /\ (age[r] >= MinTime \/ r \in Excluded) /\ Move(r, "leaving", "served")
       \/ Awaited(r) /\ Move(r, "leaving", "error")
       \/ ~Awaited(r) /\ UNCHANGED <<pc, code>>
    /\ UNCHANGED <<age, active>>

PaddingEnds(r) ==
    /\ pc[r] = "padding" /\ age[r] >= MinTime
    /\ Move(r, "leaving", "served")
    /\ UNCHANGED <<work, age, active>>

\* Slip: the limit is looked at once the endpoint has answered.
LimitAfterAnswer(r) == pc[r] = "padding" /\ age[r] >= Timeout

LimitReached(r) == pc[r] \in {"inside", "padding"} /\ age[r] >= Timeout

TimeUp(r) ==
    /\ LimitReached(r) /\ r \notin Excluded
    /\ Move(r, "leaving", "timeout")
    /\ UNCHANGED <<work, age, active>>

\* Slip: the excluded paths, which took no slot, give one back.
ReleasedByAll(r) == active - 1

\* release_slot, in the finally clause; it does not go below 0.
Released(r) == IF r \in Excluded \/ active = 0 THEN active ELSE active - 1

Leave(r) ==
    /\ pc[r] = "leaving"
    /\ active' = Released(r)
    /\ Move(r, "answered", code[r])
    /\ UNCHANGED <<work, age>>

Timed == {r \in Requests : pc[r] \in {"inside", "padding"} /\ age[r] < Timeout}

Tick ==
    /\ Timed # {}
    /\ age' = [r \in Requests |-> IF r \in Timed THEN age[r] + 1 ELSE age[r]]
    /\ UNCHANGED <<pc, work, code, active>>

Quiet ==
    /\ \A r \in Requests : pc[r] = "answered" /\ work[r] # "running"
    /\ UNCHANGED vars

Next ==
    \/ \E r \in Requests :
          \/ SizeLimit(r) \/ Shed(r) \/ Admit(r) \/ EndpointEnds(r)
          \/ PaddingEnds(r) \/ TimeUp(r) \/ Leave(r)
    \/ Tick
    \/ Quiet

Spec == Init /\ [][Next]_vars

\* Time passes, and the event loop runs timers and the tasks that are ready.  Nothing
\* is assumed of the endpoint: it may hang.
Fairness ==
    /\ WF_vars(Tick)
    /\ \A r \in Requests : WF_vars(PaddingEnds(r)) /\ WF_vars(TimeUp(r)) /\ WF_vars(Leave(r))

FairSpec == Spec /\ Fairness

----------------------------------------------------------------------------
(* Properties.                                                             *)

Holding == {r \in Requests \ Excluded : pc[r] \in {"inside", "padding", "leaving"}}

\* active_requests counts the requests between acquire_slot and release_slot, whichever
\* way each leaves (answer, exception, time limit), and stays within its maximum.
SlotsCounted == active = Cardinality(Holding) /\ active <= MaxActive

Working == {r \in Requests \ Excluded : work[r] = "running"}
LeftBehind == {r \in Working : code[r] = "timeout"}

\* The slots bound the endpoints at work, except for those a 504 has left behind:
\* GlobalLoadShedder has lost sight of these.
WorkBounded == Cardinality(Working \ LeftBehind) <= MaxActive

\* A request gets one answer: what the endpoint says after the 504, or after its own
\* answer has left, changes nothing.
OneAnswer == [][\A r \in Requests : code[r] # "none" => code'[r] = code[r]]_vars

\* A request that was admitted is answered, though its endpoint may hang.
EventuallyAnswered ==
    \A r \in Requests \ Excluded : pc[r] = "inside" ~> pc[r] = "answered"
=============================================================================
