SPECIFICATION Spec
CONSTANTS
    c1 = c1
    c2 = c2
    a1 = a1
    s1 = s1
    s2 = s2
    Clients <- MCClients
    Agents <- MCAgents
    Chats <- MCChats
    Last <- MCLast
    Recent = 1
INVARIANTS
    TypeOK
    NothingMissed
PROPERTIES
    ChatsAnswered
\* All events are sent and the clients are gone.
CHECK_DEADLOCK FALSE
