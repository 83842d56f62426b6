---------------------------- MODULE TriageClient ----------------------------
(***************************************************************************)
(* app/triage_client.py: call_triage_engine, which answers each request    *)
(* with the engine's reply when that is whole and about this request, and  *)
(* with a SANDBOX of its own in every other case.                          *)
(*                                                                         *)
(* The engine is external: it judges a request when it likes, and what     *)
(* comes back on a connection may be late, broken or about another         *)
(* request. The HTTP library is taken to accept what post is passed, the   *)
(* client certificate too; one that does not makes every reply NoReply.    *)
(***************************************************************************)
EXTENDS Naturals, FiniteSets

CONSTANT Asks           \* the calls, each with a request id of its own

ASSUME AsksAssumption == IsFiniteSet(Asks)

VARIABLES
    configured,         \* TRIAGE_URL is set
    certified,          \* the certificate authority's file is there
    ask,                \* none, waiting, or the verdict that was returned
    said,               \* what the engine said of each request, "none" before it did
    failures            \* triage_failure_counter

clientVars == <<configured, certified, ask, said, failures>>

Verdicts == {"ALLOW", "SANDBOX", "BLOCK"}

ClientTypeOK ==
    /\ {configured, certified} \subseteq BOOLEAN
    /\ ask \in [Asks -> Verdicts \cup {"none", "waiting"}]
    /\ said \in [Asks -> Verdicts \cup {"none"}]
    /\ failures \in 0..Cardinality(Asks)

ClientInit ==
    /\ configured \in BOOLEAN /\ certified \in BOOLEAN
    /\ ask = [q \in Asks |-> "none"]
    /\ said = [q \in Asks |-> "none"]
    /\ failures = 0

Returns(q, verdict) == ask' = [ask EXCEPT ![q] = verdict]

\* Slip: what fails is counted and tried again.
FailsAgain(q) == Returns(q, "none") /\ failures' = failures + 1

Fails(q) == Returns(q, "SANDBOX") /\ failures' = failures + 1

\* No URL: a SANDBOX that counts as no failure. No certificate authority: one that does.
CallTriage(q) ==
    /\ ask[q] = "none"
    /\ IF ~configured THEN Returns(q, "SANDBOX") /\ UNCHANGED failures
       ELSE IF ~certified THEN Fails(q)
       ELSE Returns(q, "waiting") /\ UNCHANGED failures
    /\ UNCHANGED <<configured, certified, said>>

\* The engine comes to a verdict about a request it was sent.
Judges(q, verdict) ==
    /\ ask[q] = "waiting" /\ said[q] = "none"
    /\ said' = [said EXCEPT ![q] = verdict]
    /\ UNCHANGED <<configured, certified, ask, failures>>

\* Slip: whatever reply comes is taken for the one to this request.
AboutAny(q, id) == TRUE

AboutThis(q, id) == id = q

\* A whole reply arrives, the engine's about request id.
Replied(q, id) ==
    /\ ask[q] = "waiting" /\ said[id] # "none"
    /\ IF AboutThis(q, id) THEN Returns(q, said[id]) /\ UNCHANGED failures ELSE Fails(q)
    /\ UNCHANGED <<configured, certified, said>>

\* The 50 ms pass, the request fails, or the reply has another type, another status, no JSON
\* or a field too few or too many.
NoReply(q) ==
    /\ ask[q] = "waiting"
    /\ Fails(q)
    /\ UNCHANGED <<configured, certified, said>>

Client ==
    \E q \in Asks :
       \/ CallTriage(q) \/ NoReply(q)
       \/ \E verdict \in Verdicts : Judges(q, verdict)
       \/ \E id \in Asks : Replied(q, id)
=============================================================================
