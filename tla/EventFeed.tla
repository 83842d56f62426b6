----------------------------- MODULE EventFeed -----------------------------
(***************************************************************************)
(* How the two services show what happens to the dashboards that are       *)
(* connected to them: AgentGuard-X (triage/main.py) puts each decision in  *)
(* a Redis list and starts a task that sends it on, and gives a new client *)
(* the last of the list first; FinanceFlow (financeflow/server.py) sends   *)
(* the events of a chat one after the other inside the chat's coroutine,   *)
(* stores its reports and answers.  The connection manager is the same     *)
(* class in both.                                                          *)
(*                                                                         *)
(* Each send awaits the client's socket, so that clients come and go       *)
(* between two sends of one event.  Clients are connections: one that is   *)
(* lost does not come back.                                                *)
(***************************************************************************)
EXTENDS Naturals, Sequences, FiniteSets, Functions

CONSTANTS
    Clients,
    Agents,         \* their calls are judged by AgentGuard-X
    Chats,          \* of FinanceFlow
    Last,           \* each makes the events 1..Last[s], the last one of a chat its completion
    Recent          \* 20: how much of the list a new client is given

Sources == Agents \cup Chats

ASSUME FeedAssumption == Last \in [Sources -> Nat \ {0}] /\ Recent \in Nat

VARIABLES
    service,        \* the one this behaviour is about
    socket,         \* off, on, or lost: gone, which the server may not know yet
    active,         \* _active, in the order of connection
    backlog,        \* what ws_events still has to send a client of the list it read
    list,           \* Redis: the events list, newest first
    fan,            \* of each event: none, created, sending, done
    targets,        \* the clients its broadcast still has to send to, from a copy of active
    dead,           \* the clients a send of it failed for
    stored,         \* chats with an entry in _workflows, which are then answered
    got,            \* history: the events a client was sent
    due             \* history: the events a client that stays is to be sent

socketVars == <<service, socket, active, backlog, got>>
eventVars == <<list, fan, targets, dead, stored>>
vars == <<socketVars, eventVars, due>>

Events == UNION {{s} \X (1..Last[s]) : s \in Sources}

TypeOK ==
    /\ service \in {"agentguard", "financeflow"}
    /\ socket \in [Clients -> {"off", "on", "lost"}]
    /\ active \in Seq(Clients) /\ Len(active) = Cardinality(Range(active))
    /\ DOMAIN backlog = Clients
    /\ \A c \in Clients : backlog[c] \in Seq(Events) /\ Len(backlog[c]) <= Recent
    /\ list \in Seq(Events)
    /\ fan \in [Events -> {"none", "created", "sending", "done"}]
    /\ targets \in [Events -> Seq(Clients)]
    /\ dead \in [Events -> SUBSET Clients]
    /\ stored \subseteq Chats
    /\ {got, due} \subseteq [Clients -> SUBSET Events]

Init ==
    /\ service \in {"agentguard", "financeflow"}
    /\ socket = [c \in Clients |-> "off"]
    /\ active = <<>> /\ backlog = [c \in Clients |-> <<>>]
    /\ list = <<>> /\ stored = {}
    /\ fan = [e \in Events |-> "none"]
    /\ targets = [e \in Events |-> <<>>] /\ dead = [e \in Events |-> {}]
    /\ got = [c \in Clients |-> {}] /\ due = [c \in Clients |-> {}]

-----------------------------------------------------------------------------
(* Connections. *)

\* Slip: all of the list.
WholeList == list

Newest == SubSeq(list, 1, IF Len(list) < Recent THEN Len(list) ELSE Recent)

\* accept, then the list of connections and the read of the events list without an await; a
\* read that fails is an empty list.
Connect(c) ==
    /\ socket[c] = "off"
    /\ socket' = [socket EXCEPT ![c] = "on"]
    /\ active' = Append(active, c)
    /\ \E first \in {<<>>} \cup (IF service = "agentguard" THEN {Newest} ELSE {}) :
          /\ backlog' = [backlog EXCEPT ![c] = first]
          /\ due' = [due EXCEPT ![c] = Range(first)]
    /\ UNCHANGED <<service, got, eventVars>>

Lose(c) ==
    /\ socket[c] = "on"
    /\ socket' = [socket EXCEPT ![c] = "lost"]
    /\ got' = [got EXCEPT ![c] = {}] /\ due' = [due EXCEPT ![c] = {}]
    /\ UNCHANGED <<service, active, backlog, eventVars>>

\* active without the clients of S, in the same order.
Without(S) ==
    LET stay == {i \in DOMAIN active : active[i] \notin S}
        Place(i) == Cardinality({j \in stay : j <= i})
    IN [n \in 1..Cardinality(stay) |-> active[CHOOSE i \in stay : Place(i) = n]]

\* receive_text raises, once the backlog is dealt with: disconnect.
Noticing(c) ==
    /\ socket[c] = "lost" /\ backlog[c] = <<>> /\ c \in Range(active)
    /\ active' = Without({c})
    /\ UNCHANGED <<service, socket, backlog, got, list, fan, dead, stored, due>>

\* Slip: a broadcast walks the list itself, which has moved up under it by one.
NoticeInPlace(c) ==
    /\ Noticing(c)
    /\ targets' = [e \in Events |-> IF targets[e] # <<>> /\ c \notin Range(targets[e])
                                    THEN Tail(targets[e]) ELSE targets[e]]

Notice(c) == Noticing(c) /\ UNCHANGED targets

\* The client takes the message, now or later: until then whoever sends it waits.
Sent(c, e) ==
    /\ socket[c] = "on"
    /\ got' = [got EXCEPT ![c] = @ \cup {e}]

SendBacklog(c) ==
    /\ backlog[c] # <<>>
    /\ Sent(c, Head(backlog[c]))
    /\ backlog' = [backlog EXCEPT ![c] = Tail(@)]
    /\ UNCHANGED <<service, socket, active, eventVars, due>>

\* A send of the backlog fails: the rest of it is given up.
DropBacklog(c) ==
    /\ backlog[c] # <<>> /\ socket[c] = "lost"
    /\ backlog' = [backlog EXCEPT ![c] = <<>>]
    /\ UNCHANGED <<service, socket, active, got, eventVars, due>>

-----------------------------------------------------------------------------
(* Events. *)

To(e, stage) == fan' = [fan EXCEPT ![e] = stage]

\* The events of a source are made one after the other.
IsNext(e) == fan[e] = "none" /\ \A n \in 1..(e[2] - 1) : fan[<<e[1], n>>] # "none"

\* emit awaits the broadcast, and run_query awaits emit.
FannedBefore(e) == IsNext(e) /\ \A n \in 1..(e[2] - 1) : fan[<<e[1], n>>] = "done"

\* An event is due to whoever is connected when it is made.
Owed(e) == due' = [c \in Clients |-> IF c \in Range(active) /\ socket[c] = "on"
                                     THEN due[c] \cup {e} ELSE due[c]]

\* AgentGuard-X: pushed to the list, which may fail unseen, and a task created to send it.
Decide(e) ==
    /\ service = "agentguard" /\ e[1] \in Agents /\ IsNext(e)
    /\ list' \in {list, <<e>> \o list}
    /\ To(e, "created") /\ Owed(e)
    /\ UNCHANGED <<socketVars, targets, dead, stored>>

\* The task runs, up to its first send: a copy of the connections as they are now.
Start(e) ==
    /\ fan[e] = "created"
    /\ To(e, "sending") /\ targets' = [targets EXCEPT ![e] = active]
    /\ UNCHANGED <<socketVars, list, dead, stored, due>>

\* FinanceFlow: emit goes into the broadcast at once.
Emit(e) ==
    /\ service = "financeflow" /\ e[1] \in Chats /\ FannedBefore(e)
    /\ To(e, "sending") /\ targets' = [targets EXCEPT ![e] = active] /\ Owed(e)
    /\ UNCHANGED <<socketVars, list, dead, stored>>

Passed(e) == targets' = [targets EXCEPT ![e] = Tail(@)]

Send(e) ==
    /\ fan[e] = "sending" /\ targets[e] # <<>>
    /\ Sent(Head(targets[e]), e) /\ Passed(e)
    /\ UNCHANGED <<service, socket, active, backlog, list, fan, dead, stored, due>>

\* Slip: a send to a client that has gone waits like any other.
NeverRaises(c) == FALSE

Raises(c) == socket[c] = "lost"

SendFails(e) ==
    /\ fan[e] = "sending" /\ targets[e] # <<>>
    /\ LET c == Head(targets[e]) IN Raises(c) /\ dead' = [dead EXCEPT ![e] = @ \cup {c}]
    /\ Passed(e)
    /\ UNCHANGED <<socketVars, list, fan, stored, due>>

\* The broadcast ends: the dead leave, those who left already are passed over.
EndFan(e) ==
    /\ fan[e] = "sending" /\ targets[e] = <<>>
    /\ To(e, "done") /\ active' = Without(dead[e])
    /\ dead' = [dead EXCEPT ![e] = {}]
    /\ UNCHANGED <<service, socket, backlog, got, list, targets, stored, due>>

\* After the last event of a chat: the reports are stored and the chat answered.
Answer(s) ==
    /\ service = "financeflow" /\ s \notin stored
    /\ fan[<<s, Last[s]>>] = "done"
    /\ stored' = stored \cup {s}
    /\ UNCHANGED <<socketVars, list, fan, targets, dead, due>>

Next ==
    \/ \E c \in Clients : \/ Connect(c) \/ Lose(c) \/ Notice(c)
                          \/ SendBacklog(c) \/ DropBacklog(c)
    \/ \E e \in Events : \/ Decide(e) \/ Start(e) \/ Emit(e)
                         \/ Send(e) \/ SendFails(e) \/ EndFan(e)
    \/ \E s \in Chats : Answer(s)

\* The event loop goes on, and a client takes what it is sent, or is lost, in the end: one that
\* keeps its connection and never reads holds every chat for good.
Fairness ==
    /\ \A e \in Events : /\ WF_vars(Emit(e)) /\ WF_vars(EndFan(e))
                         /\ WF_vars(Send(e)) /\ WF_vars(SendFails(e))
    /\ \A s \in Chats : WF_vars(Answer(s))

Spec == Init /\ [][Next]_vars /\ Fairness
-----------------------------------------------------------------------------
(* What is checked. *)

\* A client that stays connected misses nothing: what was in the list's newest part when it
\* came, and every event made since, it was sent or is still about to be, whoever connects or
\* is dropped while broadcasts are under way.
NothingMissed ==
    \A c \in Clients : socket[c] = "on" =>
        \A e \in due[c] :
            e \in got[c] \cup Range(backlog[c]) \/ c \in Range(targets[e]) \/ fan[e] = "created"

\* A chat that has begun is answered and its reports can be asked for, though clients go in the
\* middle of its broadcasts: the report a client looks for at execution_complete, when there
\* is none yet, does come.
ChatsAnswered ==
    \A s \in Chats : fan[<<s, 1>>] # "none" ~> s \in stored
=============================================================================
