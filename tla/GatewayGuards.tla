---------------------------- MODULE GatewayGuards ----------------------------
(***************************************************************************)
(* Two guards of the gateway that keep a bounded table of who did what:    *)
(* BehaviorGuard (app/behavior_guard.py), a profile of every agent, and    *)
(* FailureRateGuard (app/hardening_advanced.py), the failures of every     *)
(* source.  Each has an asyncio.Lock, and coroutines of many requests call *)
(* them.  A body that does not await while it holds the lock is one step;  *)
(* the only one that does, get_suspicious_agents, awaits the same lock.    *)
(*                                                                         *)
(* Nothing in the gateway records in them yet (/metrics/security reads     *)
(* both), so the callers are those of their interface: a request is        *)
(* recorded when it comes, and once more when it fails or is blocked.  The *)
(* two share nothing: a behaviour exercises one of them.                   *)
(***************************************************************************)
EXTENDS Integers, SequencesExt

CONSTANTS
    Agents, Tools, Tasks,
    MaxTrackedAgents,
    MinRequests,        \* 5: a profile with fewer is not judged
    FocusAfter,         \* 50: more requests than this, all for one tool
    SpikeAfter,         \* 100: more than this are a spike
    MaxRequests,        \* bound: requests in a profile, and requests open
    Sources, MaxTrackedSources,
    RateThreshold,      \* suspicious failures per tick
    Window,             \* ticks a tracker looks back
    MaxTime,            \* bound: ticks
    MaxFailures,        \* bound: suspicious failures of a source
    NoTask

ASSUME GuardsAssumption ==
    /\ {MaxTrackedAgents, MaxTrackedSources, MaxRequests, MaxFailures, MaxTime} \subseteq Nat \ {0}
    /\ {MinRequests, FocusAfter, SpikeAfter, RateThreshold, Window} \subseteq Nat
    /\ NoTask \notin Tasks

VARIABLES
    subject,    \* the guard this behaviour exercises: "agents" or "sources"
    profiles,   \* of the agents that are tracked
    recency,    \* the agents that are tracked, by last_seen
    open,       \* requests of an agent that are recorded and not yet over
    holder,     \* of BehaviorGuard's lock, while somebody awaits in it
    waiting,    \* tasks that await that lock
    trackers,   \* of the sources that are tracked
    clock,      \* in ticks
    guilty      \* history: suspicious failures of each source

behaviorVars == <<profiles, recency, open, holder, waiting>>
failureVars == <<trackers, clock, guilty>>
guardsVars == <<subject, behaviorVars, failureVars>>

Profile == [requests : 1..MaxRequests, failures : Nat, blocks : Nat, tools : (SUBSET Tools) \ {{}}]
Tracker == [suspicious : 0..MaxFailures, last : 0..MaxTime, start : 0..MaxTime]

GuardsTypeOK ==
    /\ subject \in {"agents", "sources"}
    /\ DOMAIN profiles \subseteq Agents /\ Cardinality(DOMAIN profiles) <= MaxTrackedAgents
    /\ \A a \in DOMAIN profiles : profiles[a] \in Profile
    /\ Len(recency) = Cardinality(DOMAIN profiles)
    /\ \A i \in DOMAIN recency : recency[i] \in DOMAIN profiles
    /\ open \in [Agents -> 0..MaxRequests]
    /\ holder \in Tasks \cup {NoTask} /\ waiting \subseteq Tasks \ {holder}
    /\ DOMAIN trackers \subseteq Sources /\ Cardinality(DOMAIN trackers) <= MaxTrackedSources
    /\ \A s \in DOMAIN trackers : trackers[s] \in Tracker
    /\ clock \in 0..MaxTime
    /\ guilty \in [Sources -> 0..MaxFailures]

Empty == [x \in {} |-> x]

GuardsInit ==
    /\ subject \in {"agents", "sources"}
    /\ profiles = Empty /\ recency = <<>> /\ open = [a \in Agents |-> 0]
    /\ holder = NoTask /\ waiting = {}
    /\ trackers = Empty /\ clock = 0 /\ guilty = [s \in Sources |-> 0]

\* table with an entry for x, an old one or e, after old has made room for it.
With(table, x, old, e) ==
    [y \in (DOMAIN table \ old) \cup {x} |-> IF y = x THEN e ELSE table[y]]

-----------------------------------------------------------------------------
(* BehaviorGuard. *)

BehaviorStep == subject = "agents" /\ UNCHANGED <<subject, failureVars>>
LockFree == holder = NoTask /\ UNCHANGED <<holder, waiting>>

\* Slip: the table grows.
EvictedNobody(a) == {}

\* Who makes room for a when the table is full: the agent seen least recently.
Evicted(a) ==
    IF a \in DOMAIN profiles \/ Cardinality(DOMAIN profiles) < MaxTrackedAgents
    THEN {} ELSE {Head(recency)}

\* The order of last_seen once a is seen.
Seen(a) == Append(RemoveFirst(IF Evicted(a) = {} THEN recency ELSE Tail(recency), a), a)

RecordRequest(a, tool) ==
    /\ BehaviorStep /\ LockFree
    /\ open[a] < MaxRequests
    /\ LET p == IF a \in DOMAIN profiles THEN profiles[a]
                ELSE [requests |-> 0, failures |-> 0, blocks |-> 0, tools |-> {}]
       IN /\ p.requests < MaxRequests
          /\ profiles' = With(profiles, a, Evicted(a), [p EXCEPT !.requests = @ + 1,
                                                                 !.tools = @ \cup {tool}])
          /\ recency' = Seen(a)
    /\ open' = [open EXCEPT ![a] = @ + 1]

\* A request of a is over, and what: "ok" is recorded nowhere, the rest if a is tracked.
Over(a) == open[a] > 0 /\ open' = [open EXCEPT ![a] = @ - 1] /\ UNCHANGED recency

Succeed(a) ==
    /\ BehaviorStep /\ Over(a)
    /\ UNCHANGED <<profiles, holder, waiting>>

RecordFailure(a) ==
    /\ BehaviorStep /\ LockFree /\ Over(a)
    /\ profiles' = IF a \in DOMAIN profiles
                   THEN [profiles EXCEPT ![a].failures = @ + 1] ELSE profiles

RecordBlock(a) ==
    /\ BehaviorStep /\ LockFree /\ Over(a)
    /\ profiles' = IF a \in DOMAIN profiles
                   THEN [profiles EXCEPT ![a].blocks = @ + 1] ELSE profiles

FailureRateHigh(p) == 2 * p.failures > p.requests
BlockRateHigh(p) == 10 * p.blocks > 3 * p.requests

\* update_global_stats is never called: the average stays 0, and any rate is above it.
Spike(p) == p.requests > SpikeAfter
Focus(p) == Cardinality(p.tools) = 1 /\ p.requests > FocusAfter

\* is_suspicious: the checks in turn, each with its own return.
IsSuspicious(a) ==
    /\ a \in DOMAIN profiles
    /\ LET p == profiles[a]
       IN p.requests >= MinRequests /\ (FailureRateHigh(p) \/ BlockRateHigh(p) \/ Spike(p) \/ Focus(p))

\* Slip: a profile with a failure rate or a block rate is judged by it alone.
CountedByRate(p) ==
    IF p.failures > 0 \/ p.blocks > 0 THEN FailureRateHigh(p) \/ BlockRateHigh(p)
    ELSE Spike(p) \/ Focus(p)

\* get_metrics: the same checks inlined, as a chain of elif with the last beside it.
Counted(p) ==
    LET rated == IF FailureRateHigh(p) THEN TRUE
                 ELSE IF BlockRateHigh(p) THEN TRUE ELSE Spike(p)
    IN rated \/ (~rated /\ Focus(p))

SuspectsCounted == Cardinality({a \in DOMAIN profiles :
                                   profiles[a].requests >= MinRequests /\ Counted(profiles[a])})

\* get_suspicious_agents by task t, with an agent to judge: is_suspicious awaits the lock that
\* t holds. Without one it returns, and nothing has changed.
GetSuspiciousAgents(t) ==
    /\ BehaviorStep
    /\ holder = NoTask /\ t \notin waiting
    /\ \E a \in DOMAIN profiles : profiles[a].requests >= MinRequests
    /\ holder' = t
    /\ UNCHANGED <<profiles, recency, open, waiting>>

\* Any other call then waits as well: nobody is left to release the lock.
Wait(t) ==
    /\ BehaviorStep
    /\ holder # NoTask /\ t \notin waiting \cup {holder}
    /\ waiting' = waiting \cup {t}
    /\ UNCHANGED <<profiles, recency, open, holder>>

-----------------------------------------------------------------------------
(* FailureRateGuard. *)

FailureStep == subject = "sources" /\ UNCHANGED <<subject, behaviorVars>>

\* The sources whose tracker may go: one with the oldest last failure.
Dropped(s) ==
    IF s \in DOMAIN trackers \/ Cardinality(DOMAIN trackers) < MaxTrackedSources THEN {{}}
    ELSE {{u} : u \in {u \in DOMAIN trackers :
                          \A v \in DOMAIN trackers : trackers[u].last <= trackers[v].last}}

TrackerOf(s) ==
    IF s \in DOMAIN trackers THEN trackers[s] ELSE [suspicious |-> 0, last |-> clock, start |-> clock]

\* Slip: whatever fails is held against the source.
CountsAll(n) == n + 1

\* record_internal_failure counts apart.
CountsInternal(n) == n

RecordInternal(s) ==
    /\ FailureStep
    /\ TrackerOf(s).suspicious < MaxFailures
    /\ \E old \in Dropped(s) :
          trackers' = With(trackers, s, old,
                           [TrackerOf(s) EXCEPT !.suspicious = CountsInternal(@), !.last = clock])
    /\ UNCHANGED <<clock, guilty>>

RecordSuspicious(s) ==
    /\ FailureStep
    /\ guilty[s] < MaxFailures /\ TrackerOf(s).suspicious < MaxFailures
    /\ \E old \in Dropped(s) :
          trackers' = With(trackers, s, old,
                           [TrackerOf(s) EXCEPT !.suspicious = @ + 1, !.last = clock])
    /\ guilty' = [guilty EXCEPT ![s] = @ + 1]
    /\ UNCHANGED clock

GuardsTick ==
    /\ FailureStep
    /\ clock < MaxTime /\ clock' = clock + 1
    /\ UNCHANGED <<trackers, guilty>>

\* get_suspicious_rate against the threshold. The window begins with the tracker: reset_window
\* is never called, and once it has passed the rate is 0.
IsSuspiciousSource(s) ==
    /\ s \in DOMAIN trackers
    /\ LET elapsed == clock - trackers[s].start
       IN elapsed > 0 /\ elapsed <= Window /\ trackers[s].suspicious > RateThreshold * elapsed

GuardsNext ==
    \/ \E a \in Agents : Succeed(a) \/ RecordFailure(a) \/ RecordBlock(a)
                         \/ \E tool \in Tools : RecordRequest(a, tool)
    \/ \E t \in Tasks : GetSuspiciousAgents(t) \/ Wait(t)
    \/ \E s \in Sources : RecordInternal(s) \/ RecordSuspicious(s)
    \/ GuardsTick

GuardsSpec == GuardsInit /\ [][GuardsNext]_guardsVars /\ WF_guardsVars(GuardsNext)
-----------------------------------------------------------------------------
(* What is checked. *)

\* The metrics count the agents is_suspicious names: two copies of one logic, in two shapes.
MetricsAgree == SuspectsCounted = Cardinality({a \in Agents : IsSuspicious(a)})

\* A source is held suspicious only for more suspicious failures of its own than the threshold
\* allows for the time, however its tracker came and went: internal failures and those of
\* the sources that were evicted count for nothing.
AccusedRightly ==
    \A s \in Sources :
        IsSuspiciousSource(s) =>
            guilty[s] > RateThreshold * (clock - trackers[s].start)

\* "All operations are async-safe": who asks for the lock is answered in the end. The task that
\* looks for suspicious agents is not, once there is one to judge, and nobody after it.
LockAnswers == \A t \in Tasks : t \in waiting \cup {holder} ~> t \notin waiting \cup {holder}
=============================================================================
