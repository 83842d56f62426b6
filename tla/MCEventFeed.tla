----------------------------- MODULE MCEventFeed -----------------------------
(* EventFeed for TLC: two clients, an agent with two calls and two chats of two events. *)
EXTENDS EventFeed, TLC

CONSTANTS c1, c2, a1, s1, s2

MCClients == {c1, c2}
MCAgents == {a1}
MCChats == {s1, s2}
MCLast == [s \in {a1, s1, s2} |-> 2]
=============================================================================
