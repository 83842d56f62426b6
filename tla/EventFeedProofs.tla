-------------------------- MODULE EventFeedProofs --------------------------
(***************************************************************************)
(* The connections and broadcasts of either service, for any number of     *)
(* clients, agents, chats and events and any length of the list's part     *)
(* that a new client is given.                                             *)
(*                                                                         *)
(* NothingMissed is not inductive: a broadcast starts from the list of     *)
(* connections, so that whoever is still there must be in it.  Followed    *)
(* says so, and that a broadcast gives up only clients that have gone.     *)
(***************************************************************************)
EXTENDS EventFeed, FiniteSetTheorems, SequenceTheorems, TLAPS

-----------------------------------------------------------------------------
(* Lists without repetition. *)

\* A list without repetition is as long as the set of what it holds.
LEMMA AsLong ==
    ASSUME NEW S, NEW q \in Seq(S), IsInjective(q)
    PROVE  Len(q) = Cardinality(Range(q))
<1>1. PICK n \in Nat : n = Len(q) /\ DOMAIN q = 1..n
  BY LenProperties
<1>2. q \in [1..n -> Range(q)]
  <2>1. q \in [1..n -> S] /\ Range(q) = {q[i] : i \in 1..n}
    BY <1>1, SeqDef DEF Range
  <2>2. QED
    BY <2>1
<1>3. q \in Bijection(1..n, Range(q))
  <2>1. \A i, j \in 1..n : q[i] = q[j] => i = j
    BY <1>1 DEF IsInjective
  <2>2. \A e \in Range(q) : \E i \in 1..n : q[i] = e
    BY <1>1 DEF Range
  <2>3. QED
    BY <1>2, <2>1, <2>2 DEF Bijection, Injection, Surjection, IsInjective
<1>4. ExistsBijection(1..n, Range(q))
  BY <1>3 DEF ExistsBijection
<1>5. QED
  BY <1>1, <1>4, FS_CountingElements

\* The empty list, of whatever.
LEMMA Nothing ==
    ASSUME NEW S
    PROVE  \E q \in Seq(S) : q = <<>> /\ Len(q) = 0 /\ Range(q) = {} /\ IsInjective(q)
<1>1. PICK q \in Seq(S) : q = <<>> /\ Len(q) = 0
  BY EmptySeq
<1>2. DOMAIN q = 1..Len(q)
  BY LenProperties
<1>3. DOMAIN q = {}
  BY <1>1, <1>2
<1>4. Range(q) = {} /\ IsInjective(q)
  BY <1>3 DEF Range, IsInjective
<1>5. QED
  BY <1>1, <1>4

\* One more at the end, who is new.
LEMMA OneMore ==
    ASSUME NEW S, NEW q \in Seq(S), IsInjective(q), NEW x \in S, x \notin Range(q)
    PROVE  /\ Append(q, x) \in Seq(S) /\ IsInjective(Append(q, x))
           /\ Range(Append(q, x)) = Range(q) \cup {x}
<1>1. PICK n \in Nat : n = Len(q)
  BY LenProperties
<1>2. PICK t \in Seq(S) : t = Append(q, x)
  BY AppendProperties
<1>3. /\ DOMAIN q = 1..n /\ DOMAIN t = 1..(n + 1) /\ t[n + 1] = x
      /\ \A i \in 1..n : t[i] = q[i]
  BY <1>1, <1>2, AppendProperties, LenProperties
<1>4. Range(q) = {q[i] : i \in 1..n} /\ Range(t) = {t[i] : i \in 1..(n + 1)}
  BY <1>3 DEF Range
<1>5. \A i \in 1..(n + 1) : i \in 1..n \/ i = n + 1
  OBVIOUS
<1>6. IsInjective(t)
  <2>1. \A i, j \in 1..n : q[i] = q[j] => i = j
    BY <1>3 DEF IsInjective
  <2>2. ASSUME NEW i \in 1..(n + 1), NEW j \in 1..(n + 1), t[i] = t[j] PROVE i = j
    BY <1>3, <1>4, <1>5, <2>1, <2>2
  <2>3. QED
    BY <1>3, <2>2 DEF IsInjective
<1>7. Range(t) = Range(q) \cup {x}
  <2>1. n + 1 \in 1..(n + 1) /\ \A i \in 1..n : i \in 1..(n + 1)
    OBVIOUS
  <2>2. QED
    BY <1>3, <1>4, <1>5, <2>1
<1>8. QED
  BY <1>2, <1>6, <1>7

\* Those that stay keep their order and nobody else comes: the place of each among them is a
\* number of its own, and every number up to their count is taken.
LEMMA WithoutFacts ==
    ASSUME active \in Seq(Clients), IsInjective(active), NEW S
    PROVE  /\ Without(S) \in Seq(Clients) /\ IsInjective(Without(S))
           /\ Range(Without(S)) = Range(active) \ S
<1> DEFINE K == {i \in DOMAIN active : active[i] \notin S}
           Place(i) == Cardinality({j \in K : j <= i})
           m == Cardinality(K)
           at(k) == CHOOSE i \in K : Place(i) = k
<1>1. PICK n \in Nat : n = Len(active) /\ DOMAIN active = 1..n
  BY LenProperties
<1>2. /\ \A i \in 1..n : active[i] \in Clients
      /\ \A i, j \in 1..n : active[i] = active[j] => i = j
  BY <1>1, ElementOfSeq DEF IsInjective
<1>3. IsFiniteSet(K) /\ m \in Nat /\ K \subseteq 1..n
  <2>1. K \subseteq 1..n
    BY <1>1
  <2>2. IsFiniteSet(1..n)
    BY FS_Interval
  <2>3. QED
    BY <2>1, <2>2, FS_Subset, FS_CardinalityType
<1>4. Without(S) = [k \in 1..m |-> active[at(k)]]
  BY DEF Without
<1> HIDE DEF K
<1>5. \A i \in K : Place(i) \in 1..m
  <2> SUFFICES ASSUME NEW i \in K PROVE Place(i) \in 1..m
    OBVIOUS
  <2> DEFINE A == {j \in K : j <= i}
  <2>1. A \subseteq K /\ i \in A /\ Place(i) = Cardinality(A)
    BY <1>3
  <2> HIDE DEF A, Place
  <2>2. IsFiniteSet(A) /\ Cardinality(A) \in Nat /\ Cardinality(A) <= m
    BY <1>3, <2>1, FS_Subset, FS_CardinalityType
  <2>3. Cardinality(A) # 0
    BY <2>1, <2>2, FS_EmptySet
  <2>4. QED
    BY <1>3, <2>1, <2>2, <2>3
<1>6. ASSUME NEW i \in K, NEW k \in K, i < k PROVE Place(i) # Place(k)
  <2> DEFINE A == {j \in K : j <= i}
             B == {j \in K : j <= k}
  <2>1. A \subseteq K /\ B \subseteq K /\ A \cup {k} \subseteq B /\ k \notin A
    <3>1. \A j \in K : j \in Nat
      BY <1>3
    <3>2. i \in Nat /\ k \in Nat /\ \A j \in Nat : j <= i => j <= k /\ j # k
      BY <1>6, <3>1
    <3>3. k \in K /\ k <= k
      BY <1>6, <3>2
    <3>4. ASSUME NEW j \in A PROVE j \in B /\ j # k
      BY <3>1, <3>2, <3>4
    <3>5. k \in B
      BY <3>3
    <3>6. QED
      BY <3>4, <3>5
  <2>2. IsFiniteSet(A) /\ IsFiniteSet(B) /\ Cardinality(A) \in Nat /\ Cardinality(B) \in Nat
    BY <1>3, <2>1, FS_Subset, FS_CardinalityType
  <2> HIDE DEF A, B
  <2>3. Cardinality(A \cup {k}) = Cardinality(A) + 1
    BY <2>1, <2>2, FS_AddElement
  <2>4. Cardinality(A \cup {k}) <= Cardinality(B)
    BY <2>1, <2>2, FS_Subset
  <2>5. Cardinality(A) # Cardinality(B)
    BY <2>2, <2>3, <2>4
  <2>6. QED
    BY <2>5 DEF A, B
<1> HIDE DEF Place
<1>7. \A i, k \in K : Place(i) = Place(k) => i = k
  <2> SUFFICES ASSUME NEW i \in K, NEW k \in K, i # k PROVE Place(i) # Place(k)
    OBVIOUS
  <2>1. i < k \/ k < i
    BY <1>3
  <2>2. QED
    BY <1>6, <2>1
<1>8. \A k \in 1..m : \E i \in K : Place(i) = k
  <2> DEFINE f == [i \in K |-> Place(i)]
  <2>1. f \in Injection(K, 1..m)
    BY <1>5, <1>7 DEF Injection, IsInjective
  <2>2. IsFiniteSet(1..m) /\ Cardinality(1..m) = m
    BY <1>3, FS_Interval
  <2>3. f \in Surjection(K, 1..m)
    BY <2>1, <2>2, FS_Injection
  <2>4. \A k \in 1..m : \E i \in K : f[i] = k
    BY <2>3 DEF Surjection
  <2>5. QED
    BY <2>4
<1>9. \A k \in 1..m : at(k) \in K /\ Place(at(k)) = k
  BY <1>8
<1>10. \A i \in K : Place(i) \in 1..m /\ at(Place(i)) = i
  BY <1>5, <1>7, <1>9
<1> HIDE DEF at
<1>11. PICK t : t = Without(S)
  OBVIOUS
<1>12. DOMAIN t = 1..m /\ \A k \in 1..m : t[k] = active[at(k)]
  BY <1>4, <1>11
<1>13. t \in Seq(Clients)
  <2>1. \A k \in 1..m : active[at(k)] \in Clients
    BY <1>2, <1>3, <1>9
  <2>2. t \in [1..m -> Clients]
    BY <1>4, <1>11, <2>1
  <2>3. QED
    BY <1>3, <2>2, SeqDef
<1>14. IsInjective(t)
  <2> SUFFICES ASSUME NEW i \in 1..m, NEW k \in 1..m, t[i] = t[k] PROVE i = k
    BY <1>12 DEF IsInjective
  <2>1. active[at(i)] = active[at(k)] /\ at(i) \in K /\ at(k) \in K
    BY <1>9, <1>12
  <2>2. at(i) = at(k)
    BY <1>2, <1>3, <2>1
  <2>3. QED
    BY <1>9, <2>2
<1>15. Range(t) = Range(active) \ S
  <2>1. Range(t) = {t[k] : k \in 1..m} /\ Range(active) = {active[i] : i \in 1..n}
    BY <1>1, <1>12 DEF Range
  <2>2. ASSUME NEW c \in Range(t) PROVE c \in Range(active) \ S
    <3>1. PICK k \in 1..m : c = t[k]
      BY <2>1
    <3>2. c = active[at(k)] /\ at(k) \in K
      BY <1>9, <1>12, <3>1
    <3>3. QED
      BY <1>3, <2>1, <3>2 DEF K
  <2>3. ASSUME NEW c \in Range(active) \ S PROVE c \in Range(t)
    <3>1. PICK i \in 1..n : c = active[i]
      BY <2>1
    <3>2. i \in K
      BY <1>1, <3>1 DEF K
    <3>3. t[Place(i)] = c /\ Place(i) \in 1..m
      BY <1>10, <1>12, <3>1, <3>2
    <3>4. QED
      BY <2>1, <3>3
  <2>4. QED
    BY <2>2, <2>3
<1>16. QED
  BY <1>11, <1>13, <1>14, <1>15

-----------------------------------------------------------------------------
(* Types. *)

FeedTypes ==
    /\ service \in {"agentguard", "financeflow"}
    /\ socket \in [Clients -> {"off", "on", "lost"}]
    /\ active \in Seq(Clients) /\ IsInjective(active)
    /\ \A c \in Clients : socket[c] = "off" => c \notin Range(active)
    /\ backlog \in [Clients -> Seq(Events)] /\ \A c \in Clients : Len(backlog[c]) <= Recent
    /\ list \in Seq(Events)
    /\ fan \in [Events -> {"none", "created", "sending", "done"}]
    /\ targets \in [Events -> Seq(Clients)]
    /\ dead \in [Events -> SUBSET Clients]
    /\ stored \subseteq Chats
    /\ got \in [Clients -> SUBSET Events] /\ due \in [Clients -> SUBSET Events]

\* What a new client is given.
LEMMA NewestFacts ==
    ASSUME FeedTypes
    PROVE  Newest \in Seq(Events) /\ Len(Newest) <= Recent /\ Range(Newest) \subseteq Events
<1>1. Recent \in Nat /\ list \in Seq(Events)
  BY FeedAssumption DEF FeedTypes
<1>2. PICK n \in Nat : n = Len(list) /\ \A i \in 1..n : list[i] \in Events
  BY <1>1, LenProperties, ElementOfSeq
<1>3. PICK k \in Nat : k = (IF Len(list) < Recent THEN Len(list) ELSE Recent)
  BY <1>1, <1>2
<1>4. k <= n /\ k <= Recent
  BY <1>1, <1>2, <1>3
<1>5. \A i \in 1..k : list[i] \in Events
  BY <1>2, <1>4
<1>6. PICK t \in Seq(Events) : t = SubSeq(list, 1, k) /\ Len(t) = IF 1 <= k THEN k - 1 + 1 ELSE 0
  <2>1. /\ SubSeq(list, 1, k) \in Seq(Events)
        /\ Len(SubSeq(list, 1, k)) = IF 1 <= k THEN k - 1 + 1 ELSE 0
    BY <1>5, SubSeqProperties
  <2>2. QED
    BY <2>1
<1>7. Newest = t /\ Len(t) = k
  BY <1>3, <1>6 DEF Newest
<1>8. Range(t) \subseteq Events
  BY ElementOfSeq, LenProperties DEF Range
<1>9. QED
  BY <1>1, <1>4, <1>7, <1>8

LEMMA ConnectTypes == FeedTypes /\ (\E c \in Clients : Connect(c)) => FeedTypes'
<1> SUFFICES ASSUME FeedTypes, NEW c \in Clients, Connect(c) PROVE FeedTypes'
  OBVIOUS
<1>1. PICK first \in {<<>>} \cup (IF service = "agentguard" THEN {Newest} ELSE {}) :
          backlog' = [backlog EXCEPT ![c] = first] /\ due' = [due EXCEPT ![c] = Range(first)]
  BY DEF Connect
<1>2. first \in Seq(Events) /\ Len(first) <= Recent /\ Range(first) \subseteq Events
  <2>1. CASE first = <<>>
    <3>1. PICK empty \in Seq(Events) : empty = <<>> /\ Len(empty) = 0 /\ Range(empty) = {}
      BY Nothing
    <3>2. Recent \in Nat
      BY FeedAssumption
    <3>3. QED
      BY <2>1, <3>1, <3>2
  <2>2. CASE first = Newest
    BY <2>2, NewestFacts
  <2>3. QED
    BY <2>1, <2>2
<1>3. /\ socket[c] = "off" /\ socket' = [socket EXCEPT ![c] = "on"] /\ active' = Append(active, c)
      /\ UNCHANGED <<service, got, eventVars>>
  BY DEF Connect
<1>4. active \in Seq(Clients) /\ IsInjective(active) /\ c \notin Range(active)
  BY <1>3 DEF FeedTypes
<1>5. active' \in Seq(Clients) /\ IsInjective(active') /\ Range(active') = Range(active) \cup {c}
  BY <1>3, <1>4, OneMore
<1>6. /\ backlog' \in [Clients -> Seq(Events)] /\ due' \in [Clients -> SUBSET Events]
      /\ \A d \in Clients : Len(backlog'[d]) <= Recent
  BY <1>1, <1>2 DEF FeedTypes
<1>7. /\ socket' \in [Clients -> {"off", "on", "lost"}]
      /\ \A d \in Clients : socket'[d] = "off" => d \notin Range(active')
  BY <1>3, <1>5 DEF FeedTypes
<1>8. QED
  BY <1>3, <1>5, <1>6, <1>7 DEF FeedTypes, eventVars

\* Whoever leaves the list of connections leaves it in order.
LEMMA LeaveTypes ==
    ASSUME FeedTypes, NEW S, active' = Without(S)
    PROVE  active' \in Seq(Clients) /\ IsInjective(active') /\ Range(active') = Range(active) \ S
BY WithoutFacts DEF FeedTypes

\* What is left of a list whose head has been dealt with.
LEMMA TailTypes ==
    ASSUME NEW S, NEW q \in Seq(S), q # <<>>
    PROVE  /\ Head(q) \in S /\ Tail(q) \in Seq(S)
           /\ Len(q) \in Nat /\ Len(Tail(q)) = Len(q) - 1
           /\ Range(q) = {Head(q)} \cup Range(Tail(q))
<1>1. /\ Head(q) \in S /\ Tail(q) \in Seq(S) /\ Len(Tail(q)) = Len(q) - 1
      /\ \A i \in 1..Len(Tail(q)) : Tail(q)[i] = q[i + 1]
  BY HeadTailProperties
<1>2. PICK n \in Nat \ {0} : n = Len(q)
  BY LenProperties, EmptySeq
<1>3. PICK t \in Seq(S) : t = Tail(q) /\ DOMAIN t = 1..(n - 1) /\ \A i \in 1..(n - 1) : t[i] = q[i + 1]
  BY <1>1, <1>2, LenProperties
<1>4. /\ Range(q) = {q[i] : i \in 1..n} /\ Range(t) = {t[i] : i \in 1..(n - 1)} /\ Head(q) = q[1]
  <2>1. DOMAIN q = 1..n /\ DOMAIN t = 1..(n - 1)
    BY <1>2, <1>3, LenProperties
  <2>2. Head(q) = q[1]
    OBVIOUS
  <2>3. QED
    BY <2>1, <2>2 DEF Range
<1>5. ASSUME NEW e \in Range(q) PROVE e \in {Head(q)} \cup Range(t)
  <2>1. PICK i \in 1..n : e = q[i]
    BY <1>4
  <2>2. CASE i = 1
    BY <1>4, <2>1, <2>2
  <2>3. CASE i # 1
    <3>1. i - 1 \in 1..(n - 1) /\ (i - 1) + 1 = i
      BY <2>3
    <3>2. QED
      BY <1>3, <1>4, <2>1, <3>1
  <2>4. QED
    BY <2>2, <2>3
<1>6. ASSUME NEW e \in {Head(q)} \cup Range(t) PROVE e \in Range(q)
  <2>1. CASE e = Head(q)
    <3>1. 1 \in 1..n
      BY <1>2
    <3>2. QED
      BY <1>4, <2>1, <3>1
  <2>2. CASE e \in Range(t)
    <3>1. PICK i \in 1..(n - 1) : e = t[i]
      BY <1>4, <2>2
    <3>2. i + 1 \in 1..n /\ e = q[i + 1]
      BY <1>3, <3>1
    <3>3. QED
      BY <1>4, <3>2
  <2>3. QED
    BY <1>6, <2>1, <2>2
<1>7. QED
  BY <1>1, <1>2, <1>3, <1>5, <1>6

LEMMA ClientTypes ==
    ASSUME FeedTypes, NEW c \in Clients,
           Lose(c) \/ Notice(c) \/ SendBacklog(c) \/ DropBacklog(c)
    PROVE  FeedTypes'
<1>1. CASE Lose(c)
  <2>1. /\ socket[c] = "on" /\ socket' = [socket EXCEPT ![c] = "lost"]
        /\ got' = [got EXCEPT ![c] = {}] /\ due' = [due EXCEPT ![c] = {}]
        /\ UNCHANGED <<service, active, backlog, eventVars>>
    BY <1>1 DEF Lose
  <2>2. got' \in [Clients -> SUBSET Events] /\ due' \in [Clients -> SUBSET Events]
    BY <2>1 DEF FeedTypes
  <2>3. /\ socket' \in [Clients -> {"off", "on", "lost"}]
        /\ \A d \in Clients : socket'[d] = "off" => d \notin Range(active)
    BY <2>1 DEF FeedTypes
  <2>4. QED
    BY <2>1, <2>2, <2>3 DEF FeedTypes, eventVars
<1>2. CASE Notice(c)
  <2>1. active' = Without({c})
        /\ UNCHANGED <<service, socket, backlog, got, list, fan, dead, stored, due, targets>>
    BY <1>2 DEF Notice, Noticing
  <2>2. active' \in Seq(Clients) /\ IsInjective(active') /\ Range(active') = Range(active) \ {c}
    BY <2>1, LeaveTypes
  <2>3. QED
    BY <2>1, <2>2 DEF FeedTypes
<1>3. CASE SendBacklog(c)
  <2>1. /\ backlog[c] # <<>> /\ got' = [got EXCEPT ![c] = @ \cup {Head(backlog[c])}]
        /\ backlog' = [backlog EXCEPT ![c] = Tail(@)]
        /\ UNCHANGED <<service, socket, active, eventVars, due>>
    BY <1>3 DEF SendBacklog, Sent
  <2>2. PICK q \in Seq(Events) : q = backlog[c] /\ Len(q) <= Recent
    BY DEF FeedTypes
  <2>3. /\ Head(q) \in Events /\ Tail(q) \in Seq(Events) /\ Len(q) \in Nat
        /\ Len(Tail(q)) = Len(q) - 1 /\ Recent \in Nat
    BY <2>1, <2>2, TailTypes, FeedAssumption
  <2>4. /\ backlog' \in [Clients -> Seq(Events)] /\ got' \in [Clients -> SUBSET Events]
        /\ \A d \in Clients : Len(backlog'[d]) <= Recent
    <3>1. Len(Tail(q)) <= Recent
      BY <2>2, <2>3
    <3>2. PICK t \in Seq(Events) : t = Tail(q)
      BY <2>3
    <3>3. backlog' = [backlog EXCEPT ![c] = t] /\ got' = [got EXCEPT ![c] = @ \cup {Head(q)}]
      BY <2>1, <2>2, <3>2
    <3>4. QED
      BY <2>3, <3>1, <3>2, <3>3 DEF FeedTypes
  <2>5. QED
    BY <2>1, <2>4 DEF FeedTypes, eventVars
<1>4. CASE DropBacklog(c)
  <2>1. PICK empty \in Seq(Events) : empty = <<>> /\ Len(empty) = 0
    BY EmptySeq
  <2>2. /\ backlog' = [backlog EXCEPT ![c] = empty] /\ Recent \in Nat
        /\ UNCHANGED <<service, socket, active, got, eventVars, due>>
    BY <1>4, <2>1, FeedAssumption DEF DropBacklog
  <2>3. /\ backlog' \in [Clients -> Seq(Events)]
        /\ \A d \in Clients : Len(backlog'[d]) <= Recent
    BY <2>1, <2>2 DEF FeedTypes
  <2>4. QED
    BY <2>2, <2>3 DEF FeedTypes, eventVars
<1>5. QED
  BY <1>1, <1>2, <1>3, <1>4

LEMMA OwedTypes ==
    ASSUME FeedTypes, NEW e \in Events, Owed(e)
    PROVE  due' \in [Clients -> SUBSET Events]
BY DEF FeedTypes, Owed

LEMMA EventTypes ==
    ASSUME FeedTypes, NEW e \in Events,
           Decide(e) \/ Start(e) \/ Emit(e) \/ Send(e) \/ SendFails(e) \/ EndFan(e)
    PROVE  FeedTypes'
<1>1. CASE Decide(e)
  <2>1. /\ list' \in {list, <<e>> \o list} /\ fan' = [fan EXCEPT ![e] = "created"] /\ Owed(e)
        /\ UNCHANGED <<socketVars, targets, dead, stored>>
    BY <1>1 DEF Decide, To
  <2>2. list' \in Seq(Events)
    <3>1. <<e>> \in Seq(Events)
      OBVIOUS
    <3>2. <<e>> \o list \in Seq(Events) /\ list \in Seq(Events)
      BY <3>1, ConcatProperties DEF FeedTypes
    <3>3. QED
      BY <2>1, <3>2
  <2>3. fan' \in [Events -> {"none", "created", "sending", "done"}]
    BY <2>1 DEF FeedTypes
  <2>4. QED
    BY <2>1, <2>2, <2>3, OwedTypes DEF FeedTypes, socketVars
<1>2. CASE Start(e) \/ Emit(e)
  <2>1. /\ fan' = [fan EXCEPT ![e] = "sending"] /\ targets' = [targets EXCEPT ![e] = active]
        /\ Owed(e) \/ UNCHANGED due
        /\ UNCHANGED <<socketVars, list, dead, stored>>
    BY <1>2 DEF Start, Emit, To
  <2>2. /\ fan' \in [Events -> {"none", "created", "sending", "done"}]
        /\ targets' \in [Events -> Seq(Clients)]
    BY <2>1 DEF FeedTypes
  <2>3. due' \in [Clients -> SUBSET Events]
    BY <2>1, OwedTypes DEF FeedTypes
  <2>4. QED
    BY <2>1, <2>2, <2>3 DEF FeedTypes, socketVars
<1>3. CASE Send(e) \/ SendFails(e)
  <2>1. PICK q \in Seq(Clients) : q = targets[e] /\ q # <<>>
    BY <1>3 DEF FeedTypes, Send, SendFails
  <2>2. PICK h \in Clients, t \in Seq(Clients) : h = Head(q) /\ t = Tail(q)
    BY <2>1, TailTypes
  <2>3. /\ targets' = [targets EXCEPT ![e] = t]
        /\ UNCHANGED <<service, socket, active, backlog, list, fan, stored, due>>
        /\ \/ got' = [got EXCEPT ![h] = @ \cup {e}] /\ UNCHANGED dead
           \/ dead' = [dead EXCEPT ![e] = @ \cup {h}] /\ UNCHANGED got
    BY <1>3, <2>1, <2>2 DEF Send, SendFails, Sent, Passed, socketVars
  <2>4. /\ targets' \in [Events -> Seq(Clients)]
        /\ got' \in [Clients -> SUBSET Events] /\ dead' \in [Events -> SUBSET Clients]
    <3>1. targets' \in [Events -> Seq(Clients)]
      BY <2>3 DEF FeedTypes
    <3>2. CASE got' = [got EXCEPT ![h] = @ \cup {e}] /\ UNCHANGED dead
      BY <3>1, <3>2 DEF FeedTypes
    <3>3. CASE dead' = [dead EXCEPT ![e] = @ \cup {h}] /\ UNCHANGED got
      BY <3>1, <3>3 DEF FeedTypes
    <3>4. QED
      BY <2>3, <3>2, <3>3
  <2>5. QED
    BY <2>3, <2>4 DEF FeedTypes
<1>4. CASE EndFan(e)
  <2>1. /\ fan' = [fan EXCEPT ![e] = "done"] /\ active' = Without(dead[e])
        /\ dead' = [dead EXCEPT ![e] = {}]
        /\ UNCHANGED <<service, socket, backlog, got, list, targets, stored, due>>
    BY <1>4 DEF EndFan, To
  <2>2. active' \in Seq(Clients) /\ IsInjective(active') /\ Range(active') = Range(active) \ dead[e]
    BY <2>1, LeaveTypes
  <2>3. /\ fan' \in [Events -> {"none", "created", "sending", "done"}]
        /\ dead' \in [Events -> SUBSET Clients]
    BY <2>1 DEF FeedTypes
  <2>4. QED
    BY <2>1, <2>2, <2>3 DEF FeedTypes
<1>5. QED
  BY <1>1, <1>2, <1>3, <1>4

LEMMA TypesInvariant == Spec => []FeedTypes
<1>1. Init => FeedTypes
  <2> SUFFICES ASSUME Init PROVE FeedTypes
    OBVIOUS
  <2>1. PICK noClient \in Seq(Clients) : /\ noClient = <<>> /\ Range(noClient) = {}
                                        /\ IsInjective(noClient)
    BY Nothing
  <2>2. PICK noEvent \in Seq(Events) : noEvent = <<>> /\ Len(noEvent) = 0
    BY Nothing
  <2>3. Recent \in Nat
    BY FeedAssumption
  <2>4. /\ active = noClient /\ list = noEvent /\ targets = [e \in Events |-> noClient]
        /\ backlog = [c \in Clients |-> noEvent]
    BY <2>1, <2>2 DEF Init
  <2>5. QED
    BY <2>1, <2>2, <2>3, <2>4 DEF Init, FeedTypes
<1>2. FeedTypes /\ [Next]_vars => FeedTypes'
  <2> SUFFICES ASSUME FeedTypes, [Next]_vars PROVE FeedTypes'
    OBVIOUS
  <2>1. ASSUME NEW s \in Chats, Answer(s) PROVE FeedTypes'
    BY <2>1 DEF Answer, FeedTypes, socketVars
  <2>2. CASE UNCHANGED vars
    BY <2>2 DEF FeedTypes, vars, socketVars, eventVars
  <2>3. QED
    BY <2>1, <2>2, ConnectTypes, ClientTypes, EventTypes DEF Next
<1>3. QED
  BY <1>1, <1>2, PTL DEF Spec

\* Every variable keeps its type: no client is twice in the list of connections, and none is
\* given more of the events list than Recent.
THEOREM TypeCorrect == Spec => []TypeOK
<1>1. FeedTypes => TypeOK
  BY AsLong DEF FeedTypes, TypeOK
<1>2. QED
  BY <1>1, TypesInvariant, PTL

-----------------------------------------------------------------------------
(* What a client that stays is owed. *)

Followed ==
    /\ \A c \in Clients : socket[c] = "on" => c \in Range(active)
    /\ \A e \in Events : \A c \in dead[e] : socket[c] = "lost"

\* Sent, in the backlog, in a broadcast that is under way, or in one that will begin.
Covered(c, e) ==
    e \in got[c] \cup Range(backlog[c]) \/ c \in Range(targets[e]) \/ fan[e] = "created"

LEMMA FollowedClient ==
    ASSUME FeedTypes, Followed, NEW c \in Clients,
           Connect(c) \/ Lose(c) \/ Notice(c) \/ SendBacklog(c) \/ DropBacklog(c)
    PROVE  Followed'
<1>1. CASE Connect(c)
  <2>1. /\ socket[c] = "off" /\ socket' = [socket EXCEPT ![c] = "on"]
        /\ active' = Append(active, c) /\ dead' = dead
    BY <1>1 DEF Connect, eventVars
  <2>2. Range(active') = Range(active) \cup {c}
    BY <2>1, OneMore DEF FeedTypes
  <2>3. QED
    BY <2>1, <2>2 DEF FeedTypes, Followed
<1>2. CASE Lose(c)
  BY <1>2 DEF Lose, eventVars, FeedTypes, Followed
<1>3. CASE Notice(c)
  <2>1. socket[c] = "lost" /\ active' = Without({c}) /\ UNCHANGED <<socket, dead>>
    BY <1>3 DEF Notice, Noticing
  <2>2. Range(active') = Range(active) \ {c}
    BY <2>1, LeaveTypes
  <2>3. QED
    BY <2>1, <2>2 DEF Followed
<1>4. CASE SendBacklog(c) \/ DropBacklog(c)
  BY <1>4 DEF SendBacklog, DropBacklog, eventVars, Followed
<1>5. QED
  BY <1>1, <1>2, <1>3, <1>4

LEMMA FollowedEvent ==
    ASSUME FeedTypes, Followed, NEW e \in Events,
           Decide(e) \/ Start(e) \/ Emit(e) \/ Send(e) \/ SendFails(e) \/ EndFan(e)
    PROVE  Followed'
<1>1. CASE Decide(e) \/ Start(e) \/ Emit(e) \/ Send(e)
  BY <1>1 DEF Decide, Start, Emit, Send, socketVars, Followed
<1>2. CASE SendFails(e)
  <2>1. PICK h : /\ socket[h] = "lost" /\ dead' = [dead EXCEPT ![e] = @ \cup {h}]
                 /\ UNCHANGED <<socket, active>>
    BY <1>2 DEF SendFails, Raises, socketVars
  <2>2. QED
    BY <2>1 DEF FeedTypes, Followed
<1>3. CASE EndFan(e)
  <2>1. /\ active' = Without(dead[e]) /\ dead' = [dead EXCEPT ![e] = {}] /\ UNCHANGED socket
    BY <1>3 DEF EndFan
  <2>2. Range(active') = Range(active) \ dead[e]
    BY <2>1, LeaveTypes
  <2>3. QED
    BY <2>1, <2>2 DEF FeedTypes, Followed
<1>4. QED
  BY <1>1, <1>2, <1>3

LEMMA CoveredClient ==
    ASSUME FeedTypes, Followed, NothingMissed, NEW d \in Clients,
           Connect(d) \/ Lose(d) \/ Notice(d) \/ SendBacklog(d) \/ DropBacklog(d),
           NEW c \in Clients, socket'[c] = "on", NEW e \in due'[c]
    PROVE  Covered(c, e)'
<1>1. UNCHANGED <<fan, targets>>
  BY DEF Connect, Lose, Notice, Noticing, SendBacklog, DropBacklog, eventVars
<1>2. CASE socket[c] = "on" /\ e \in due[c] /\ got[c] \subseteq got'[c] /\ backlog'[c] = backlog[c]
  BY <1>1, <1>2 DEF NothingMissed, Covered
<1>3. CASE Connect(d)
  <2>1. PICK first : /\ backlog' = [backlog EXCEPT ![d] = first]
                     /\ due' = [due EXCEPT ![d] = Range(first)]
                     /\ socket' = [socket EXCEPT ![d] = "on"] /\ got' = got
    BY <1>3 DEF Connect
  <2>2. CASE c = d
    BY <2>1, <2>2 DEF FeedTypes, Covered
  <2>3. CASE c # d
    BY <1>2, <2>1, <2>3 DEF FeedTypes
  <2>4. QED
    BY <2>2, <2>3
<1>4. CASE Lose(d)
  <2>1. c # d
    BY <1>4 DEF Lose, FeedTypes
  <2>2. QED
    BY <1>2, <1>4, <2>1 DEF Lose, FeedTypes
<1>5. CASE Notice(d)
  BY <1>2, <1>5 DEF Notice, Noticing
<1>6. CASE SendBacklog(d)
  <2>1. /\ backlog[d] # <<>> /\ got' = [got EXCEPT ![d] = @ \cup {Head(backlog[d])}]
        /\ backlog' = [backlog EXCEPT ![d] = Tail(@)] /\ UNCHANGED <<socket, due>>
    BY <1>6 DEF SendBacklog, Sent
  <2>2. CASE c = d
    <3>1. /\ backlog[d] \in Seq(Events) /\ got'[d] = got[d] \cup {Head(backlog[d])}
          /\ backlog'[d] = Tail(backlog[d])
      BY <2>1 DEF FeedTypes
    <3>2. Range(backlog[d]) = {Head(backlog[d])} \cup Range(backlog'[d])
      BY <2>1, <3>1, TailTypes
    <3>3. Covered(c, e)
      BY <2>1 DEF NothingMissed, Covered
    <3>4. QED
      BY <1>1, <2>2, <3>1, <3>2, <3>3 DEF Covered
  <2>3. CASE c # d
    BY <1>2, <2>1, <2>3 DEF FeedTypes
  <2>4. QED
    BY <2>2, <2>3
<1>7. CASE DropBacklog(d)
  <2>1. c # d
    BY <1>7 DEF DropBacklog
  <2>2. QED
    BY <1>2, <1>7, <2>1 DEF DropBacklog, FeedTypes
<1>8. QED
  BY <1>3, <1>4, <1>5, <1>6, <1>7

LEMMA CoveredEvent ==
    ASSUME FeedTypes, Followed, NothingMissed, NEW f \in Events,
           Decide(f) \/ Start(f) \/ Emit(f) \/ Send(f) \/ SendFails(f) \/ EndFan(f),
           NEW c \in Clients, socket'[c] = "on", NEW e \in due'[c]
    PROVE  Covered(c, e)'
<1>1. /\ socket' = socket /\ backlog' = backlog /\ e \in Events
      /\ e \in due[c] \/ (e = f /\ (Decide(f) \/ Emit(f)))
  <2>1. socket' = socket /\ backlog' = backlog
    BY DEF Decide, Start, Emit, Send, SendFails, EndFan, socketVars
  <2>2. due' = due \/ (Owed(f) /\ (Decide(f) \/ Emit(f)))
    BY DEF Decide, Start, Emit, Send, SendFails, EndFan
  <2>3. e \in due[c] \/ (e = f /\ (Decide(f) \/ Emit(f)))
    BY <2>2 DEF Owed
  <2>4. QED
    BY <2>1, <2>3 DEF FeedTypes
<1>2. e \in due[c] => Covered(c, e)
  BY <1>1 DEF NothingMissed, Covered
<1>3. CASE Decide(f)
  <2>1. fan' = [fan EXCEPT ![f] = "created"] /\ UNCHANGED <<got, targets>>
    BY <1>3 DEF Decide, To, socketVars
  <2>2. QED
    BY <1>1, <1>2, <2>1 DEF FeedTypes, Covered
<1>4. CASE Start(f) \/ Emit(f)
  <2>1. /\ fan' = [fan EXCEPT ![f] = "sending"] /\ targets' = [targets EXCEPT ![f] = active]
        /\ UNCHANGED got
    BY <1>4 DEF Start, Emit, To, socketVars
  <2>2. c \in Range(active)
    BY <1>1 DEF Followed
  <2>3. CASE e = f
    BY <2>1, <2>2, <2>3 DEF FeedTypes, Covered
  <2>4. CASE e # f
    BY <1>1, <1>2, <2>1, <2>4 DEF FeedTypes, Covered
  <2>5. QED
    BY <2>3, <2>4
<1>5. CASE Send(f) \/ SendFails(f)
  <2>1. PICK q \in Seq(Clients) : q = targets[f] /\ q # <<>>
    BY <1>5 DEF FeedTypes, Send, SendFails
  <2>2. PICK h \in Clients, t \in Seq(Clients) :
            h = Head(q) /\ t = Tail(q) /\ Range(q) = {h} \cup Range(t)
    <3>1. Head(q) \in Clients /\ Tail(q) \in Seq(Clients) /\ Range(q) = {Head(q)} \cup Range(Tail(q))
      BY <2>1, TailTypes
    <3>2. PICK h \in Clients : h = Head(q)
      BY <3>1
    <3>3. PICK t \in Seq(Clients) : t = Tail(q)
      BY <3>1
    <3>4. Range(q) = {h} \cup Range(t)
      BY <3>1, <3>2, <3>3, Zenon
    <3>5. QED
      BY <3>2, <3>3, <3>4
  <2>3. /\ targets' = [targets EXCEPT ![f] = t] /\ fan' = fan
        /\ \/ got' = [got EXCEPT ![h] = @ \cup {f}]
           \/ socket[h] = "lost" /\ got' = got
    BY <1>5, <2>1, <2>2 DEF Send, SendFails, Sent, Passed, Raises, socketVars
  <2>4. e \in due[c] /\ got[c] \subseteq got'[c]
    <3>1. got[c] \subseteq got'[c]
      BY <2>3 DEF FeedTypes
    <3>2. ~Decide(f) /\ ~Emit(f)
      BY <1>5 DEF Decide, Emit, Send, SendFails, IsNext, FannedBefore
    <3>3. QED
      BY <1>1, <3>1, <3>2
  <2>5. CASE e = f /\ c = h
    <3>1. f \in got'[h]
      BY <1>1, <2>3, <2>5 DEF FeedTypes
    <3>2. QED
      BY <2>5, <3>1 DEF Covered
  <2>6. CASE e = f /\ c # h
    <3>1. Range(targets'[f]) = Range(t) /\ Range(targets[f]) = {h} \cup Range(t)
      BY <2>1, <2>2, <2>3 DEF FeedTypes
    <3>2. QED
      BY <1>1, <1>2, <2>3, <2>4, <2>6, <3>1 DEF Covered
  <2>7. CASE e # f
    <3>1. targets'[e] = targets[e]
      BY <1>1, <2>3, <2>7 DEF FeedTypes
    <3>2. QED
      BY <1>1, <1>2, <2>3, <2>4, <3>1 DEF Covered
  <2>8. QED
    BY <2>5, <2>6, <2>7
<1>6. CASE EndFan(f)
  <2>1. fan[f] = "sending" /\ fan' = [fan EXCEPT ![f] = "done"] /\ UNCHANGED <<got, targets, due>>
    BY <1>6 DEF EndFan, To
  <2>2. QED
    BY <1>1, <1>2, <2>1 DEF FeedTypes, Covered
<1>7. QED
  BY <1>3, <1>4, <1>5, <1>6

\* Whoever connects or is dropped while broadcasts are under way: a client that stays is sent
\* all that was in the list's newest part when it came, and every event since.
THEOREM NobodyMisses == Spec => []NothingMissed
<1>1. Init => Followed /\ NothingMissed
  BY DEF Init, Followed, NothingMissed
<1>2. FeedTypes /\ Followed /\ NothingMissed /\ [Next]_vars => Followed' /\ NothingMissed'
  <2> SUFFICES ASSUME FeedTypes, Followed, NothingMissed, [Next]_vars
               PROVE  Followed' /\ NothingMissed'
    OBVIOUS
  <2>1. CASE UNCHANGED <<socket, active, dead, backlog, got, due, fan, targets>>
    <3>1. Followed'
      BY <2>1 DEF Followed
    <3>2. NothingMissed'
      BY <2>1 DEF NothingMissed
    <3>3. QED
      BY <3>1, <3>2
  <2>2. ASSUME NEW c \in Clients, Connect(c) \/ Lose(c) \/ Notice(c) \/ SendBacklog(c) \/ DropBacklog(c)
        PROVE  Followed' /\ NothingMissed'
    <3>1. \A d \in Clients : socket'[d] = "on" => \A e \in due'[d] : Covered(d, e)'
      BY <2>2, CoveredClient
    <3>2. QED
      BY <2>2, <3>1, FollowedClient DEF NothingMissed, Covered
  <2>3. ASSUME NEW e \in Events,
               Decide(e) \/ Start(e) \/ Emit(e) \/ Send(e) \/ SendFails(e) \/ EndFan(e)
        PROVE  Followed' /\ NothingMissed'
    <3>1. \A d \in Clients : socket'[d] = "on" => \A f \in due'[d] : Covered(d, f)'
      BY <2>3, CoveredEvent
    <3>2. QED
      BY <2>3, <3>1, FollowedEvent DEF NothingMissed, Covered
  <2>4. ASSUME NEW s \in Chats, Answer(s) PROVE Followed' /\ NothingMissed'
    BY <2>1, <2>4 DEF Answer, socketVars
  <2>5. CASE UNCHANGED vars
    BY <2>1, <2>5 DEF vars, socketVars, eventVars
  <2>6. QED
    BY <2>2, <2>3, <2>4, <2>5 DEF Next
<1>3. QED
  BY <1>1, <1>2, TypesInvariant, PTL DEF Spec

-----------------------------------------------------------------------------
(* The events of a chat, one after the other.                              *)
(*                                                                         *)
(* run_query awaits emit, and emit the broadcast: each event of a chat is  *)
(* with all its clients before the next is made.  Of AgentGuard-X, whose   *)
(* broadcasts are tasks of their own, none of this holds.                  *)

\* What makes the two invariants below inductive: no backlog, no broadcast put off, and none begun
\* before those of the chat's earlier events have ended, with nobody left to send to.
InTurn ==
    /\ \A c \in Clients : Range(backlog[c]) = {} /\ \A e \in got[c] : fan[e] # "none"
    /\ \A e \in Events : /\ fan[e] # "created"
                         /\ fan[e] # "sending" => Range(targets[e]) = {}
                         /\ fan[e] # "none" => \A n \in 1..(e[2] - 1) : fan[<<e[1], n>>] = "done"

\* FinanceFlow sends an event to nobody twice: whoever a broadcast has still to send to was not
\* sent that event, and comes once in what is left of its copy of the connections.
SentOnce ==
    service = "financeflow" =>
        \A e \in Events : /\ IsInjective(targets[e])
                          /\ \A c \in Range(targets[e]) : e \notin got[c]

\* FinanceFlow sends the events of a chat in order and leaves none out: a client that stays and was
\* sent one of them was sent every earlier one that it was there for.
SeenInOrder ==
    service = "financeflow" =>
        \A c \in Clients : socket[c] = "on" =>
            \A e \in got[c] : \A n \in 1..(e[2] - 1) :
                <<e[1], n>> \in due[c] => <<e[1], n>> \in got[c]

ChatsInTurn == service = "financeflow" => InTurn

\* An earlier event of the same source is an event.
LEMMA EarlierEvent ==
    ASSUME NEW e \in Events, NEW n \in 1..(e[2] - 1)
    PROVE  <<e[1], n>> \in Events /\ <<e[1], n>> # e
<1>1. PICK s \in Sources : \E k \in 1..Last[s] : e = <<s, k>>
  BY DEF Events
<1>k. PICK k \in 1..Last[s] : e = <<s, k>>
  BY <1>1
<1>2. Last[s] \in Nat
  BY FeedAssumption
<1>3. e[1] = s /\ e[2] = k
  BY <1>k
<1>4. n \in 1..Last[s] /\ n # k
  BY <1>2, <1>3
<1>5. <<s, n>> \in {s} \X (1..Last[s])
  BY <1>4
<1>6. <<s, n>> \in Events
  BY <1>5 DEF Events
<1>7. <<s, n>> # <<s, k>>
  BY <1>4
<1>8. QED
  BY <1>k, <1>3, <1>6, <1>7

\* What is left of a list without repetition repeats nothing, its head least of all.
LEMMA TailInjective ==
    ASSUME NEW S, NEW q \in Seq(S), q # <<>>, IsInjective(q)
    PROVE  IsInjective(Tail(q)) /\ Head(q) \notin Range(Tail(q))
<1>1. PICK n \in Nat \ {0} : n = Len(q)
  BY LenProperties, EmptySeq
<1>2. PICK t \in Seq(S) : t = Tail(q) /\ Len(t) = n - 1 /\ \A i \in 1..(n - 1) : t[i] = q[i + 1]
  BY <1>1, HeadTailProperties
<1>3. DOMAIN q = 1..n /\ DOMAIN t = 1..(n - 1) /\ Head(q) = q[1]
  BY <1>1, <1>2, LenProperties
<1>4. \A i, j \in 1..n : q[i] = q[j] => i = j
  BY <1>3 DEF IsInjective
<1>5. \A i \in 1..(n - 1) : i + 1 \in 1..n /\ i + 1 # 1
  OBVIOUS
<1>6. IsInjective(t)
  <2>1. ASSUME NEW i \in 1..(n - 1), NEW j \in 1..(n - 1), t[i] = t[j] PROVE i = j
    <3>1. q[i + 1] = q[j + 1]
      BY <1>2, <2>1
    <3>2. i + 1 = j + 1
      BY <1>4, <1>5, <3>1
    <3>3. QED
      BY <3>2
  <2>2. QED
    BY <1>3, <2>1 DEF IsInjective
<1>7. ASSUME NEW x \in Range(t) PROVE x # q[1]
  <2>1. PICK i \in 1..(n - 1) : x = t[i]
    BY <1>3 DEF Range
  <2>2. x = q[i + 1] /\ 1 \in 1..n
    BY <1>2, <2>1
  <2>3. QED
    BY <1>4, <1>5, <2>2
<1>8. QED
  BY <1>2, <1>3, <1>6, <1>7

LEMMA TurnClient ==
    ASSUME FeedTypes, service = "financeflow", InTurn, SentOnce, NEW d \in Clients,
           Connect(d) \/ Lose(d) \/ Notice(d) \/ SendBacklog(d) \/ DropBacklog(d)
    PROVE  InTurn' /\ SentOnce'
<1>1. UNCHANGED <<service, fan, targets>>
  BY DEF Connect, Lose, Notice, Noticing, SendBacklog, DropBacklog, eventVars
<1>2. \A c \in Clients : got'[c] \subseteq got[c] /\ Range(backlog'[c]) = {}
  <2>1. PICK noEvent \in Seq(Events) : noEvent = <<>> /\ Range(noEvent) = {}
    BY Nothing
  <2>2. CASE Connect(d)
    <3>1. backlog' = [backlog EXCEPT ![d] = noEvent] /\ got' = got
      BY <2>1, <2>2 DEF Connect
    <3>2. QED
      BY <2>1, <3>1 DEF FeedTypes, InTurn
  <2>3. CASE Lose(d)
    BY <2>3 DEF Lose, FeedTypes, InTurn
  <2>4. CASE Notice(d)
    BY <2>4 DEF Notice, Noticing, InTurn
  <2>5. CASE SendBacklog(d)
    <3>1. backlog[d] \in Seq(Events) /\ backlog[d] # <<>>
      BY <2>5 DEF SendBacklog, FeedTypes
    <3>2. Head(backlog[d]) \in Range(backlog[d])
      BY <3>1, TailTypes
    <3>3. QED
      BY <3>2 DEF InTurn
  <2>6. CASE DropBacklog(d)
    <3>1. backlog' = [backlog EXCEPT ![d] = noEvent] /\ got' = got
      BY <2>1, <2>6 DEF DropBacklog
    <3>2. QED
      BY <2>1, <3>1 DEF FeedTypes, InTurn
  <2>7. QED
    BY <2>2, <2>3, <2>4, <2>5, <2>6
<1>3. InTurn'
  BY <1>1, <1>2 DEF InTurn
<1>4. SentOnce'
  <2>1. \A e \in Events : Range(targets[e]) \subseteq Clients
    BY ElementOfSeq, LenProperties DEF FeedTypes, Range
  <2>2. QED
    BY <1>1, <1>2, <2>1 DEF SentOnce
<1>5. QED
  BY <1>3, <1>4

\* A broadcast begins: those before it have ended, and nobody has the event yet.
LEMMA TurnEmit ==
    ASSUME FeedTypes, service = "financeflow", InTurn, SentOnce, NEW f \in Events, Emit(f)
    PROVE  InTurn' /\ SentOnce'
<1>1. /\ fan' = [fan EXCEPT ![f] = "sending"] /\ targets' = [targets EXCEPT ![f] = active]
      /\ UNCHANGED <<service, backlog, got>> /\ fan[f] = "none"
      /\ \A n \in 1..(f[2] - 1) : fan[<<f[1], n>>] = "done"
  BY DEF Emit, To, socketVars, FannedBefore, IsNext
<1>2. \A e \in Events : e # f => fan'[e] = fan[e] /\ targets'[e] = targets[e]
  BY <1>1 DEF FeedTypes
<1>3. fan'[f] = "sending" /\ targets'[f] = active
  BY <1>1 DEF FeedTypes
<1>4. ASSUME NEW e \in Events, fan'[e] # "none", NEW n \in 1..(e[2] - 1)
      PROVE  fan'[<<e[1], n>>] = "done"
  <2>1. <<e[1], n>> \in Events
    BY EarlierEvent
  <2>2. fan[<<e[1], n>>] = "done"
    BY <1>1, <1>2, <1>4 DEF InTurn
  <2>3. <<e[1], n>> # f
    BY <1>1, <2>2
  <2>4. QED
    BY <1>2, <2>1, <2>2, <2>3
<1>5. InTurn'
  <2>1. \A c \in Clients : Range(backlog'[c]) = {} /\ \A e \in got'[c] : fan'[e] # "none"
    BY <1>1, <1>2, <1>3 DEF InTurn, FeedTypes
  <2>2. \A e \in Events : fan'[e] # "created" /\ (fan'[e] # "sending" => Range(targets'[e]) = {})
    BY <1>2, <1>3 DEF InTurn
  <2>3. QED
    BY <1>4, <2>1, <2>2 DEF InTurn
<1>6. \A c \in Range(active) : f \notin got[c]
  <2>1. Range(active) \subseteq Clients
    BY ElementOfSeq, LenProperties DEF FeedTypes, Range
  <2>2. QED
    BY <1>1, <2>1 DEF InTurn
<1>7. ASSUME NEW e \in Events
      PROVE  IsInjective(targets'[e]) /\ \A c \in Range(targets'[e]) : e \notin got'[c]
  <2>1. CASE e = f
    BY <1>1, <1>3, <1>6, <2>1 DEF FeedTypes
  <2>2. CASE e # f
    BY <1>1, <1>2, <2>2 DEF SentOnce
  <2>3. QED
    BY <2>1, <2>2
<1>8. QED
  BY <1>5, <1>7 DEF SentOnce

\* One client is dealt with, and was so once.
LEMMA TurnSend ==
    ASSUME FeedTypes, service = "financeflow", InTurn, SentOnce, NEW f \in Events,
           Send(f) \/ SendFails(f)
    PROVE  InTurn' /\ SentOnce'
<1>1. PICK q \in Seq(Clients) : q = targets[f] /\ q # <<>>
  BY DEF FeedTypes, Send, SendFails
<1>2. IsInjective(q) /\ \A c \in Range(q) : f \notin got[c]
  BY <1>1 DEF SentOnce
<1>3. /\ Head(q) \in Clients /\ Tail(q) \in Seq(Clients) /\ Range(q) = {Head(q)} \cup Range(Tail(q))
      /\ IsInjective(Tail(q)) /\ Head(q) \notin Range(Tail(q))
  BY <1>1, <1>2, TailTypes, TailInjective
<1>4. PICK h \in Clients, t \in Seq(Clients) :
          /\ h = Head(q) /\ t = Tail(q) /\ Range(t) \subseteq Range(q)
          /\ IsInjective(t) /\ h \notin Range(t)
  <2>1. PICK h \in Clients : h = Head(q)
    BY <1>3
  <2>2. PICK t \in Seq(Clients) : t = Tail(q)
    BY <1>3
  <2>3. Range(t) \subseteq Range(q) /\ IsInjective(t) /\ h \notin Range(t)
    BY <1>3, <2>1, <2>2, Zenon
  <2>4. QED
    BY <2>1, <2>2, <2>3
<1>5. /\ targets' = [targets EXCEPT ![f] = t] /\ fan[f] = "sending"
      /\ UNCHANGED <<service, backlog, fan>>
      /\ got' = [got EXCEPT ![h] = @ \cup {f}] \/ got' = got
  BY <1>1, <1>4 DEF Send, SendFails, Sent, Passed, socketVars
<1>6. targets'[f] = t /\ \A e \in Events : e # f => targets'[e] = targets[e]
  BY <1>5 DEF FeedTypes
<1>7. \A c \in Clients : /\ got'[c] \subseteq got[c] \cup {f}
                         /\ c # h => got'[c] = got[c]
  BY <1>5 DEF FeedTypes
<1>8. InTurn'
  <2>1. \A c \in Clients : Range(backlog'[c]) = {} /\ \A e \in got'[c] : fan'[e] # "none"
    BY <1>5, <1>7 DEF InTurn
  <2>2. \A e \in Events : fan'[e] # "created" /\ (fan'[e] # "sending" => Range(targets'[e]) = {})
    BY <1>5, <1>6 DEF InTurn
  <2>3. QED
    BY <1>5, <2>1, <2>2 DEF InTurn
<1>9. ASSUME NEW e \in Events
      PROVE  IsInjective(targets'[e]) /\ \A c \in Range(targets'[e]) : e \notin got'[c]
  <2>1. Range(targets[e]) \subseteq Clients
    BY ElementOfSeq, LenProperties DEF FeedTypes, Range
  <2>2. CASE e = f
    <3>1. IsInjective(targets'[e]) /\ Range(targets'[e]) = Range(t)
      BY <1>4, <1>6, <2>2
    <3>2. ASSUME NEW c \in Range(t) PROVE f \notin got'[c]
      <4>1. c \in Clients /\ c # h /\ f \notin got[c]
        BY <1>1, <1>2, <1>4, <2>1, <2>2
      <4>2. QED
        BY <1>7, <4>1
    <3>3. QED
      BY <2>2, <3>1, <3>2
  <2>3. CASE e # f
    <3>1. targets'[e] = targets[e] /\ IsInjective(targets[e]) /\ \A c \in Range(targets[e]) : e \notin got[c]
      BY <1>6, <2>3 DEF SentOnce
    <3>2. QED
      BY <1>7, <2>1, <2>3, <3>1
  <2>4. QED
    BY <2>2, <2>3
<1>10. QED
  BY <1>8, <1>9 DEF SentOnce

LEMMA TurnEvent ==
    ASSUME FeedTypes, service = "financeflow", InTurn, SentOnce, NEW f \in Events,
           Decide(f) \/ Start(f) \/ Emit(f) \/ Send(f) \/ SendFails(f) \/ EndFan(f)
    PROVE  InTurn' /\ SentOnce'
<1>1. ~Decide(f) /\ ~Start(f)
  BY DEF Decide, Start, InTurn
<1>2. CASE EndFan(f)
  <2>1. /\ fan[f] = "sending" /\ targets[f] = <<>> /\ fan' = [fan EXCEPT ![f] = "done"]
        /\ UNCHANGED <<service, backlog, got, targets>>
    BY <1>2 DEF EndFan, To
  <2>2. Range(targets[f]) = {}
    <3>1. PICK noClient \in Seq(Clients) : noClient = <<>> /\ Range(noClient) = {}
      BY Nothing
    <3>2. QED
      BY <2>1, <3>1
  <2>3. fan'[f] = "done" /\ \A e \in Events : e # f => fan'[e] = fan[e]
    BY <2>1 DEF FeedTypes
  <2>4. ASSUME NEW e \in Events, fan'[e] # "none", NEW n \in 1..(e[2] - 1)
        PROVE  fan'[<<e[1], n>>] = "done"
    <3>1. <<e[1], n>> \in Events /\ fan[e] # "none"
      BY <2>1, <2>3, <2>4, EarlierEvent
    <3>2. fan[<<e[1], n>>] = "done"
      BY <3>1 DEF InTurn
    <3>3. QED
      BY <2>3, <3>1, <3>2
  <2>5. \A c \in Clients : Range(backlog'[c]) = {} /\ \A e \in got'[c] : fan'[e] # "none"
    BY <2>1, <2>3 DEF InTurn, FeedTypes
  <2>6. \A e \in Events : fan'[e] # "created" /\ (fan'[e] # "sending" => Range(targets'[e]) = {})
    BY <2>1, <2>2, <2>3 DEF InTurn
  <2>7. InTurn'
    BY <2>4, <2>5, <2>6 DEF InTurn
  <2>8. SentOnce'
    BY <2>1 DEF SentOnce
  <2>9. QED
    BY <2>7, <2>8
<1>3. QED
  BY <1>1, <1>2, TurnEmit, TurnSend

LEMMA TurnInvariant == Spec => [](ChatsInTurn /\ SentOnce)
<1>1. Init => ChatsInTurn /\ SentOnce
  <2> SUFFICES ASSUME Init PROVE ChatsInTurn /\ SentOnce
    OBVIOUS
  <2>1. PICK noClient \in Seq(Clients) : noClient = <<>> /\ Range(noClient) = {} /\ IsInjective(noClient)
    BY Nothing
  <2>2. PICK noEvent \in Seq(Events) : noEvent = <<>> /\ Range(noEvent) = {}
    BY Nothing
  <2>3. targets = [e \in Events |-> noClient] /\ backlog = [c \in Clients |-> noEvent]
    BY <2>1, <2>2 DEF Init
  <2>4. QED
    BY <2>1, <2>2, <2>3 DEF Init, ChatsInTurn, InTurn, SentOnce
<1>2. FeedTypes /\ ChatsInTurn /\ SentOnce /\ [Next]_vars => ChatsInTurn' /\ SentOnce'
  <2> SUFFICES ASSUME FeedTypes, ChatsInTurn, SentOnce, [Next]_vars
               PROVE  ChatsInTurn' /\ SentOnce'
    OBVIOUS
  <2>1. service' = service
    BY DEF Next, Connect, Lose, Notice, Noticing, SendBacklog, DropBacklog, Decide, Start, Emit,
           Send, SendFails, EndFan, Answer, vars, socketVars
  <2>2. CASE service = "financeflow"
    <3>1. InTurn
      BY <2>2 DEF ChatsInTurn
    <3>2. CASE UNCHANGED <<service, backlog, fan, got, targets>>
      BY <3>1, <3>2 DEF ChatsInTurn, InTurn, SentOnce
    <3>3. ASSUME NEW s \in Chats, Answer(s) PROVE ChatsInTurn' /\ SentOnce'
      BY <3>2, <3>3 DEF Answer, socketVars
    <3>4. CASE UNCHANGED vars
      BY <3>2, <3>4 DEF vars, socketVars, eventVars
    <3>5. QED
      BY <2>2, <3>1, <3>3, <3>4, TurnClient, TurnEvent DEF Next, ChatsInTurn
  <2>3. CASE service # "financeflow"
    BY <2>1, <2>3 DEF ChatsInTurn, SentOnce
  <2>4. QED
    BY <2>2, <2>3
<1>3. QED
  BY <1>1, <1>2, TypesInvariant, PTL DEF Spec

\* However clients come, stay and are lost between two sends, and whatever the other chats do: a
\* dashboard is sent every event of a chat once at most, in the order of the chat, and without a
\* gap from the first it was there for.
THEOREM ChatsShownInOrder == Spec => [](SentOnce /\ SeenInOrder)
<1>1. FeedTypes /\ NothingMissed /\ ChatsInTurn => SeenInOrder
  <2> SUFFICES ASSUME FeedTypes, NothingMissed, ChatsInTurn, service = "financeflow",
                      NEW c \in Clients, socket[c] = "on", NEW e \in got[c],
                      NEW n \in 1..(e[2] - 1), <<e[1], n>> \in due[c]
               PROVE  <<e[1], n>> \in got[c]
    BY DEF SeenInOrder
  <2>1. InTurn
    BY DEF ChatsInTurn
  <2>2. e \in Events /\ fan[e] # "none"
    BY <2>1 DEF FeedTypes, InTurn
  <2>3. <<e[1], n>> \in Events /\ fan[<<e[1], n>>] = "done"
    BY <2>1, <2>2, EarlierEvent DEF InTurn
  <2>4. Range(backlog[c]) = {} /\ Range(targets[<<e[1], n>>]) = {}
    BY <2>1, <2>3 DEF InTurn
  <2>5. \/ <<e[1], n>> \in got[c] \cup Range(backlog[c])
        \/ c \in Range(targets[<<e[1], n>>]) \/ fan[<<e[1], n>>] = "created"
    BY DEF NothingMissed
  <2>6. QED
    BY <2>3, <2>4, <2>5
<1>2. QED
  BY <1>1, TypesInvariant, NobodyMisses, TurnInvariant, PTL
=============================================================================
