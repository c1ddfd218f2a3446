---------------------------- MODULE PresenceProofs ----------------------------
(***************************************************************************)
(* Proofs about Presence, for any Nodes, any number of connections and any *)
(* channel capacities: type correctness, with the capacities, that an open *)
(* registered connection is the one the server has for its Node, and that  *)
(* a client's view is wrong only for the two reasons the model records.    *)
(***************************************************************************)
EXTENDS Presence, SequenceTheorems, TLAPS

\* A connection that was made has an owner.
OwnerInv == \A k \in Conns : handler[k] # "none" => owner[k] \in Nodes

PresenceInv == TypeOK /\ OwnerInv

LEMMA MessageRecords ==
    /\ \A kind \in {"snapshot", "join", "leave", "relay"}, S \in SUBSET Nodes :
          Message(kind, S) \in Messages
    /\ \A m \in Messages : m.nodes \in SUBSET Nodes
BY DEF Message, Messages

\* The capacity of a channel after a send that looked for room.
LEMMA RoomFacts ==
    ASSUME NEW s \in Seq(Messages), NEW m \in Messages, NEW cap \in Nat
    PROVE  /\ Append(s, m) \in Seq(Messages)
           /\ Len(s) < cap => Len(Append(s, m)) <= cap
           /\ s # <<>> => /\ Head(s) \in Messages
                          /\ Tail(s) \in Seq(Messages)
                          /\ Len(s) <= cap => Len(Tail(s)) <= cap
OBVIOUS

LEMMA EmptyFacts ==
    /\ <<>> \in Seq(Messages)
    /\ <<>> \in Seq(Nodes)
    /\ Len(<<>>) <= QueueCap
    /\ Len(<<>>) <= RelayCap
BY PresenceAssumption

\* What a broadcast does to the queues and the histories.
LEMMA BroadcastTypes ==
    ASSUME TypeOK, NEW n \in Nodes, NEW m \in Messages, Broadcast(n, m)
    PROVE  /\ queue' \in [Conns -> Seq(Messages)]
           /\ \A k \in Conns : Len(queue'[k]) <= QueueCap
           /\ dropped' \in [Conns -> SUBSET Nodes]
           /\ stale' \subseteq Nodes
<1>1. \A k \in Conns : queue[k] \in Seq(Messages) /\ Len(queue[k]) <= QueueCap
  BY DEF TypeOK
<1>2. \A k \in Conns : queue'[k] = queue[k] \/ (HasRoom(k) /\ queue'[k] = Append(queue[k], m))
  BY DEF Broadcast
<1>3. \A k \in Conns : queue'[k] \in Seq(Messages) /\ Len(queue'[k]) <= QueueCap
  BY <1>1, <1>2, RoomFacts, PresenceAssumption DEF HasRoom
<1>4. queue' \in [Conns -> Seq(Messages)]
  <2>1. queue' = [k \in Conns |-> queue'[k]]
    BY DEF Broadcast
  <2> QED
    BY <1>3, <2>1
<1>5. dropped' \in [Conns -> SUBSET Nodes]
  BY DEF Broadcast, TypeOK
<1>6. stale' \subseteq Nodes
  BY DEF Broadcast, TypeOK
<1> QED
  BY <1>3, <1>4, <1>5, <1>6

LEMMA SocketsCloseTypes ==
    ASSUME TypeOK, NEW K, SocketsClose(K)
    PROVE  /\ open' \in [Conns -> BOOLEAN]
           /\ client' \in [Conns -> {"none", "dialing", "running", "ended"}]
           /\ peers' \in [Conns -> SUBSET Nodes]
           /\ down' \in [Conns -> Seq(Messages)]
<1>1. open' \in [Conns -> BOOLEAN]
  BY DEF SocketsClose, TypeOK
<1>2. client' \in [Conns -> {"none", "dialing", "running", "ended"}]
  BY DEF SocketsClose, TypeOK
<1>3. peers' \in [Conns -> SUBSET Nodes]
  BY DEF SocketsClose, TypeOK
<1>4. down' \in [Conns -> Seq(Messages)]
  BY EmptyFacts DEF SocketsClose, TypeOK
<1> QED
  BY <1>1, <1>2, <1>3, <1>4

-----------------------------------------------------------------------------
LEMMA TypeStep ==
    ASSUME PresenceInv, [Next]_vars
    PROVE  PresenceInv'
<1> USE DEF PresenceInv, OwnerInv, clientVars
<1>1. CASE UNCHANGED vars
  BY <1>1 DEF vars, TypeOK
<1>2. ASSUME NEW n \in Nodes, Dial(n)
      PROVE  PresenceInv'
  <2>1. lastConn + 1 \in Conns /\ lastConn + 1 \in 0..MaxConns
    BY <1>2, PresenceAssumption DEF Dial, TypeOK, Conns
  <2> QED
    BY <1>2, <2>1 DEF Dial, TypeOK
<1>3. ASSUME NEW k \in Conns, RegisterFails(k)
      PROVE  PresenceInv'
  BY <1>3, SocketsCloseTypes DEF RegisterFails, TypeOK
<1>4. ASSUME NEW k \in Conns, HandleWS(k)
      PROVE  PresenceInv'
  <2>0. owner[k] \in Nodes
    BY <1>4 DEF HandleWS, Add, WriteSnapshot, BroadcastJoin, ReadRelay, RouteRelay, Remove,
                BroadcastLeave
  <2>1. CASE Add(k)
    <3>1. snapshot' \in [Conns -> SUBSET Nodes] /\ clients' \in [Nodes -> Conns \cup {0}]
      BY <2>1 DEF Add, TypeOK, Registered
    <3> QED
      BY <2>1, <3>1, SocketsCloseTypes DEF Add, TypeOK
  <2>2. CASE WriteSnapshot(k)
    <3>1. Message("snapshot", snapshot[k]) \in Messages
      BY MessageRecords DEF TypeOK
    <3>2. down' \in [Conns -> Seq(Messages)]
      BY <2>2, <3>1, RoomFacts DEF WriteSnapshot, Written, TypeOK
    <3> QED
      BY <2>2, <3>2 DEF WriteSnapshot, TypeOK
  <2>3. CASE BroadcastJoin(k)
    <3>1. Message("join", {owner[k]}) \in Messages
      BY <2>0, MessageRecords
    <3> QED
      BY <2>0, <2>3, <3>1, BroadcastTypes DEF BroadcastJoin, TypeOK
  <2>4. CASE BroadcastLeave(k)
    <3>1. Message("leave", {owner[k]}) \in Messages
      BY <2>0, MessageRecords
    <3> QED
      BY <2>0, <2>4, <3>1, BroadcastTypes DEF BroadcastLeave, TypeOK
  <2>5. CASE ReadRelay(k)
    <3>1. Head(up[k]) \in Nodes /\ Tail(up[k]) \in Seq(Nodes)
      BY <2>5 DEF ReadRelay, TypeOK
    <3> QED
      BY <2>5, <3>1 DEF ReadRelay, TypeOK
  <2>6. CASE RouteRelay(k)
    <3>1. Message("relay", {owner[k]}) \in Messages
      BY <2>0, MessageRecords
    <3>2. queue' \in [Conns -> Seq(Messages)] /\ \A j \in Conns : Len(queue'[j]) <= QueueCap
      <4>0. \A j \in Conns : queue[j] \in Seq(Messages) /\ Len(queue[j]) <= QueueCap
        BY DEF TypeOK
      <4>1. CASE HasRoom(route[k]) /\ route[k] \in Conns
        <5>1. queue' = [queue EXCEPT ![route[k]] =
                           Append(queue[route[k]], Message("relay", {owner[k]}))]
          BY <2>6, <4>1 DEF RouteRelay
        <5>2. /\ Append(queue[route[k]], Message("relay", {owner[k]})) \in Seq(Messages)
              /\ Len(Append(queue[route[k]], Message("relay", {owner[k]}))) <= QueueCap
          BY <3>1, <4>0, <4>1, RoomFacts, PresenceAssumption DEF HasRoom
        <5> QED
          BY <5>1, <5>2, <4>0, <4>1 DEF TypeOK
      <4>2. CASE ~HasRoom(route[k]) \/ route[k] \notin Conns
        <5>1. queue' = queue
          BY <2>6, <4>2 DEF RouteRelay, TypeOK
        <5> QED
          BY <5>1, <4>0 DEF TypeOK
      <4> QED
        BY <4>1, <4>2
    <3> QED
      BY <2>6, <3>2 DEF RouteRelay, TypeOK
  <2>7. CASE Remove(k)
    <3>1. queue' \in [Conns -> Seq(Messages)] /\ \A j \in Conns : Len(queue'[j]) <= QueueCap
      BY <2>7, EmptyFacts DEF Remove, TypeOK
    <3> QED
      BY <2>7, <3>1 DEF Remove, TypeOK
  <2> QED
    BY <1>4, <2>1, <2>2, <2>3, <2>4, <2>5, <2>6, <2>7 DEF HandleWS
<1>5. ASSUME NEW k \in Conns, Writer(k)
      PROVE  PresenceInv'
  <2>1. /\ Head(queue[k]) \in Messages
        /\ Tail(queue[k]) \in Seq(Messages)
        /\ Len(Tail(queue[k])) <= QueueCap
        /\ Append(down[k], Head(queue[k])) \in Seq(Messages)
    BY <1>5, RoomFacts, PresenceAssumption DEF Writer, TypeOK
  <2> QED
    BY <1>5, <2>1 DEF Writer, TypeOK
<1>6. ASSUME NEW k \in Conns, ReadLoop(k)
      PROVE  PresenceInv'
  <2>1. Head(down[k]) \in Messages /\ Tail(down[k]) \in Seq(Messages)
    BY <1>6 DEF ReadLoop, ReadSnapshot, ReadMessage, TypeOK
  <2>2. Head(down[k]).nodes \in SUBSET Nodes
    BY <2>1, MessageRecords
  <2>3. CASE ReadSnapshot(k)
    BY <2>1, <2>2, <2>3 DEF ReadSnapshot, TypeOK
  <2>4. CASE ReadMessage(k)
    <3>1. peers' \in [Conns -> SUBSET Nodes]
      BY <2>2, <2>4 DEF ReadMessage, TypeOK
    <3>2. relays' \in [Conns -> Seq(Messages)] /\ \A j \in Conns : Len(relays'[j]) <= RelayCap
      <4>1. \/ relays' = relays
            \/ /\ Len(relays[k]) < RelayCap
               /\ relays' = [relays EXCEPT ![k] = Append(relays[k], Head(down[k]))]
        BY <2>4 DEF ReadMessage
      <4>2. /\ Append(relays[k], Head(down[k])) \in Seq(Messages)
            /\ Len(relays[k]) < RelayCap => Len(Append(relays[k], Head(down[k]))) <= RelayCap
        BY <2>1, RoomFacts, PresenceAssumption DEF TypeOK
      <4>3. CASE relays' = relays
        BY <4>3 DEF TypeOK
      <4>4. CASE relays' # relays
        <5>1. /\ \A j \in Conns \ {k} : relays'[j] = relays[j]
              /\ relays'[k] = Append(relays[k], Head(down[k]))
              /\ Len(relays[k]) < RelayCap
          BY <4>1, <4>4 DEF TypeOK
        <5>2. \A j \in Conns : relays[j] \in Seq(Messages) /\ Len(relays[j]) <= RelayCap
          BY DEF TypeOK
        <5>3. relays' \in [Conns -> Seq(Messages)]
          BY <4>1, <4>2, <4>4 DEF TypeOK
        <5> QED
          BY <4>2, <5>1, <5>2, <5>3
      <4> QED
        BY <4>3, <4>4
    <3> QED
      BY <2>1, <2>4, <3>1, <3>2 DEF ReadMessage, TypeOK
  <2> QED
    BY <1>6, <2>3, <2>4 DEF ReadLoop
<1>7. ASSUME NEW k \in Conns, RouteRelays(k)
      PROVE  PresenceInv'
  <2>1. Tail(relays[k]) \in Seq(Messages) /\ Len(Tail(relays[k])) <= RelayCap
    BY <1>7, RoomFacts, PresenceAssumption DEF RouteRelays, TypeOK
  <2> QED
    BY <1>7, <2>1 DEF RouteRelays, TypeOK
<1>8. ASSUME NEW k \in Conns, NEW n \in Nodes, SendRelay(k, n)
      PROVE  PresenceInv'
  <2>1. sent + 1 \in 0..MaxRelays /\ Append(up[k], n) \in Seq(Nodes)
    BY <1>8, PresenceAssumption DEF SendRelay, TypeOK
  <2> QED
    BY <1>8, <2>1 DEF SendRelay, TypeOK
<1>9. ASSUME NEW k \in Conns, Disconnect(k)
      PROVE  PresenceInv'
  BY <1>9, SocketsCloseTypes DEF Disconnect, TypeOK
<1> QED
  BY <1>1, <1>2, <1>3, <1>4, <1>5, <1>6, <1>7, <1>8, <1>9 DEF Next

LEMMA TypeInit ==
    ASSUME Init
    PROVE  PresenceInv
<1>1. /\ queue \in [Conns -> Seq(Messages)]
      /\ down \in [Conns -> Seq(Messages)]
      /\ up \in [Conns -> Seq(Nodes)]
      /\ relays \in [Conns -> Seq(Messages)]
      /\ \A k \in Conns : Len(queue[k]) <= QueueCap /\ Len(relays[k]) <= RelayCap
  BY EmptyFacts DEF Init
<1>2. 0 \in 0..MaxConns /\ 0 \in 0..MaxRelays
  BY PresenceAssumption
<1> QED
  BY <1>1, <1>2 DEF Init, PresenceInv, OwnerInv, TypeOK

LEMMA InvHolds == Spec => []PresenceInv
BY TypeInit, TypeStep, PTL DEF Spec

\* Type correctness of the server and the clients, and the bounds of their
\* channels: a send that finds a channel full drops, and never blocks or grows it.
THEOREM TypeCorrect == Spec => []TypeOK
<1>1. PresenceInv => TypeOK
  BY DEF PresenceInv
<1> QED
  BY <1>1, InvHolds, PTL

-----------------------------------------------------------------------------
Served(k) == open[k] /\ handler[k] \in {"snapshot", "join", "serve", "route"}

\* A step that opens no socket, registers nobody and moves no served handler in.
LEMMA RegisteredKept ==
    ASSUME OpenIsRegistered, clients' = clients,
           \A k \in Conns : (Served(k))' => Served(k) /\ owner'[k] = owner[k]
    PROVE  OpenIsRegistered'
BY DEF OpenIsRegistered, Served

LEMMA RegisteredStep ==
    ASSUME PresenceInv, OpenIsRegistered, [Next]_vars
    PROVE  OpenIsRegistered'
<1> USE DEF clientVars
<1>1. CASE UNCHANGED vars
  BY <1>1 DEF vars, OpenIsRegistered
<1>2. ASSUME NEW n \in Nodes, Dial(n)
      PROVE  OpenIsRegistered'
  <2>1. lastConn + 1 \in Conns
    BY <1>2, PresenceAssumption DEF Dial, PresenceInv, TypeOK, Conns
  <2>2. \A j \in Conns : (Served(j))' => Served(j) /\ owner'[j] = owner[j]
    BY <1>2, <2>1 DEF Dial, PresenceInv, TypeOK, Served
  <2> QED
    BY <1>2, <2>2, RegisteredKept DEF Dial
<1>3. ASSUME NEW k \in Conns, RegisterFails(k) \/ Disconnect(k)
      PROVE  OpenIsRegistered'
  <2>1. \A j \in Conns : (Served(j))' => Served(j) /\ owner'[j] = owner[j]
    BY <1>3 DEF RegisterFails, Disconnect, SocketsClose, PresenceInv, TypeOK, Served
  <2> QED
    BY <1>3, <2>1, RegisteredKept DEF RegisterFails, Disconnect
<1>4. ASSUME NEW k \in Conns, Add(k)
      PROVE  OpenIsRegistered'
  <2>1. owner[k] \in Nodes /\ owner' = owner
    BY <1>4 DEF Add, PresenceInv, OwnerInv
  <2>2. /\ clients'[owner[k]] = k
        /\ \A n \in Nodes \ {owner[k]} : clients'[n] = clients[n]
    BY <1>4, <2>1 DEF Add, PresenceInv, TypeOK
  <2>3. \A j \in Conns \ {k} : (Served(j))' => Served(j) /\ j # clients[owner[k]]
    BY <1>4 DEF Add, SocketsClose, Served, PresenceInv, TypeOK
  <2>4. \A j \in Conns : Served(j) => clients[owner[j]] = j /\ owner[j] \in Nodes
    BY DEF Served, OpenIsRegistered, PresenceInv, OwnerInv
  <2>5. \A j \in Conns \ {k} : (Served(j))' => clients'[owner[j]] = j
    BY <2>2, <2>3, <2>4
  <2> QED
    BY <2>1, <2>2, <2>5 DEF OpenIsRegistered, Served
<1>5. ASSUME NEW k \in Conns, Remove(k)
      PROVE  OpenIsRegistered'
  <2>1. \A j \in Conns : (Served(j))' => Served(j) /\ j # k
    BY <1>5 DEF Remove, Served, PresenceInv, TypeOK
  <2>2. owner' = owner /\ owner[k] \in Nodes
    BY <1>5 DEF Remove, PresenceInv, OwnerInv
  <2>3. \A j \in Conns : Served(j) => clients[owner[j]] = j /\ owner[j] \in Nodes
    BY DEF Served, OpenIsRegistered, PresenceInv, OwnerInv
  <2>4. \A n \in Nodes : clients'[n] = clients[n] \/ clients[n] = k
    BY <1>5 DEF Remove, PresenceInv, TypeOK
  <2>5. \A j \in Conns : (Served(j))' => clients'[owner[j]] = j
    BY <2>1, <2>3, <2>4
  <2> QED
    BY <2>2, <2>5 DEF OpenIsRegistered, Served
<1>6. ASSUME NEW k \in Conns,
             \/ WriteSnapshot(k) \/ BroadcastJoin(k) \/ ReadRelay(k) \/ RouteRelay(k)
             \/ BroadcastLeave(k)
      PROVE  OpenIsRegistered'
  <2>1. clients' = clients /\ owner' = owner /\ open' = open
    BY <1>6 DEF WriteSnapshot, BroadcastJoin, ReadRelay, RouteRelay, BroadcastLeave
  <2>2. \A j \in Conns :
           handler'[j] \in {"snapshot", "join", "serve", "route"}
              => handler[j] \in {"snapshot", "join", "serve", "route"}
    BY <1>6 DEF WriteSnapshot, BroadcastJoin, ReadRelay, RouteRelay, BroadcastLeave, PresenceInv,
                TypeOK
  <2> QED
    BY <2>1, <2>2, RegisteredKept DEF Served
<1>7. ASSUME NEW k \in Conns,
             Writer(k) \/ ReadLoop(k) \/ RouteRelays(k) \/ \E n \in Nodes : SendRelay(k, n)
      PROVE  OpenIsRegistered'
  BY <1>7 DEF Writer, ReadLoop, ReadSnapshot, ReadMessage, RouteRelays, SendRelay,
              OpenIsRegistered
<1> QED
  BY <1>1, <1>2, <1>3, <1>4, <1>5, <1>6, <1>7 DEF Next, HandleWS

\* An open connection that registered is the one the server knows its Node by, for
\* any number of Nodes and of connections of one Node: add supersedes, and remove
\* deletes only what is its own.
THEOREM NewestStaysRegistered == Spec => []OpenIsRegistered
<1>1. Init => OpenIsRegistered
  BY DEF Init, OpenIsRegistered
<1>2. PresenceInv /\ OpenIsRegistered /\ [Next]_vars => OpenIsRegistered'
  BY RegisteredStep
<1> QED
  BY <1>1, <1>2, InvHolds, PTL DEF Spec

-----------------------------------------------------------------------------
\* What the clients are told. Between add and the read loop of the Node, a
\* connection goes through its handler's steps in order: nothing is written before
\* the snapshot, and the server knows only connections that were added.
ShapeInv ==
    /\ \A k \in Conns :
          /\ k > lastConn => handler[k] = "none"
          /\ open[k] => handler[k] \in {"register", "snapshot", "join", "serve", "route"}
          /\ client[k] \in {"dialing", "running"} => open[k]
          /\ handler[k] \in {"none", "register", "snapshot"} =>
                down[k] = <<>> /\ client[k] # "running"
          /\ handler[k] \in {"none", "register"} => queue[k] = <<>>
          /\ client[k] = "dialing" /\ handler[k] \notin {"register", "snapshot"} =>
                down[k] # <<>> /\ down[k][1].kind = "snapshot"
          /\ route[k] # 0 => handler[route[k]] \notin {"none", "register"}
    /\ \A n \in Nodes : clients[n] # 0 => handler[clients[n]] \notin {"none", "register"}

\* What the client of k has still to read: what is on the socket, or the snapshot
\* that is yet to be written, and then what its queue holds.
Before(k) == IF handler[k] = "snapshot" THEN <<Message("snapshot", snapshot[k])>> ELSE down[k]

Feed(k) == Before(k) \o queue[k]

\* A message that changes whether n is a peer, and what it makes of it.
Concerns(m, n) == m.kind = "snapshot" \/ (m.kind \in {"join", "leave"} /\ n \in m.nodes)

Says(m, n) == m.kind = "join" \/ (m.kind = "snapshot" /\ n \in m.nodes)

\* The last message of the sequence s about n says that n is online.
LastSays(s, n, online) ==
    \E a \in 1..Len(s) :
        /\ Concerns(s[a], n)
        /\ Says(s[a], n) <=> online
        /\ \A b \in 1..Len(s) : a < b => ~Concerns(s[b], n)

\* Once it has read everything, a client that has the peers P (when it runs) and
\* still has to read s believes that n is online, or not.
Believes(s, running, P, n, online) ==
    \/ LastSays(s, n, online)
    \/ /\ running
       /\ \A a \in 1..Len(s) : ~Concerns(s[a], n)
       /\ n \in P <=> online

\* Some handler has still to tell the others about n.
Owed(n) == \E j \in Conns : owner[j] = n /\ handler[j] \in {"snapshot", "join", "leave"}

\* Every client that is served ends up with the truth about a Node, unless a
\* message is owed, was dropped, or was overtaken.
ViewInv ==
    \A k \in Conns, n \in Nodes :
        Served(k) /\ n # owner[k] /\ n \notin stale /\ n \notin dropped[k] /\ ~Owed(n)
            => Believes(Feed(k), client[k] = "running", peers[k], n, n \in Registered)

-----------------------------------------------------------------------------
\* Beliefs and the sequences they are read from.

LEMMA ConcerningFacts ==
    /\ \A kind, S : Message(kind, S).kind = kind /\ Message(kind, S).nodes = S
    /\ \A S, n : ~Concerns(Message("relay", S), n)
    /\ \A S, n : Concerns(Message("snapshot", S), n) /\ (Says(Message("snapshot", S), n) <=> n \in S)
    /\ \A n : Concerns(Message("join", {n}), n) /\ Says(Message("join", {n}), n)
    /\ \A n : Concerns(Message("leave", {n}), n) /\ ~Says(Message("leave", {n}), n)
    /\ \A m, n : m # n => /\ ~Concerns(Message("join", {m}), n)
                          /\ ~Concerns(Message("leave", {m}), n)
BY DEF Message, Concerns, Says

\* A message about something else changes no belief.
LEMMA BelievesOther ==
    ASSUME NEW s \in Seq(Messages), NEW m \in Messages, NEW r, NEW P, NEW n, NEW v,
           ~Concerns(m, n), Believes(s, r, P, n, v)
    PROVE  Believes(Append(s, m), r, P, n, v)
<1> DEFINE t == Append(s, m)
<1>1. /\ Len(t) = Len(s) + 1
      /\ \A a \in 1..Len(s) : t[a] = s[a]
      /\ t[Len(s) + 1] = m
      /\ Len(s) \in Nat
  BY AppendProperties
<1> HIDE DEF t
<1>2. \A a \in 1..Len(t) : a \in 1..Len(s) \/ a = Len(s) + 1
  BY <1>1
<1>3. \A a \in 1..Len(s) : a \in 1..Len(t)
  BY <1>1
<1>4. CASE LastSays(s, n, v)
  <2>1. PICK a \in 1..Len(s) : /\ Concerns(s[a], n)
                               /\ Says(s[a], n) <=> v
                               /\ \A b \in 1..Len(s) : a < b => ~Concerns(s[b], n)
    BY <1>4 DEF LastSays
  <2>2. \A b \in 1..Len(t) : a < b => ~Concerns(t[b], n)
    BY <2>1, <1>1, <1>2
  <2>3. LastSays(t, n, v)
    BY <2>1, <2>2, <1>1, <1>3 DEF LastSays
  <2> QED
    BY <2>3 DEF Believes, t
<1>5. CASE ~LastSays(s, n, v)
  <2>1. r /\ (n \in P <=> v) /\ \A a \in 1..Len(s) : ~Concerns(s[a], n)
    BY <1>5 DEF Believes
  <2>2. \A a \in 1..Len(t) : ~Concerns(t[a], n)
    BY <2>1, <1>1, <1>2
  <2> QED
    BY <2>1, <2>2 DEF Believes, t
<1> QED
  BY <1>4, <1>5

\* A message about n settles the belief about n.
LEMMA BelievesTold ==
    ASSUME NEW s \in Seq(Messages), NEW m \in Messages, NEW r, NEW P, NEW n, NEW v,
           Concerns(m, n), Says(m, n) <=> v
    PROVE  Believes(Append(s, m), r, P, n, v)
<1> DEFINE t == Append(s, m)
<1>1. Len(t) = Len(s) + 1 /\ t[Len(s) + 1] = m /\ Len(s) \in Nat
  BY AppendProperties
<1> HIDE DEF t
<1>2. Len(s) + 1 \in 1..Len(t) /\ \A b \in 1..Len(t) : ~(Len(s) + 1 < b)
  BY <1>1
<1>3. LastSays(t, n, v)
  BY <1>1, <1>2 DEF LastSays
<1> QED
  BY <1>3 DEF Believes, t

\* The client reads the next message and does what it says: the belief stays.
LEMMA BelievesRead ==
    ASSUME NEW s \in Seq(Messages), s # <<>>, NEW r, NEW P, NEW Q, NEW n, NEW v,
           Believes(s, r, P, n, v),
           Concerns(Head(s), n) => (n \in Q <=> Says(Head(s), n)),
           ~Concerns(Head(s), n) => (n \in Q <=> n \in P)
    PROVE  Believes(Tail(s), TRUE, Q, n, v)
<1> DEFINE t == Tail(s)
<1>1. /\ Head(s) = s[1]
      /\ Len(t) = Len(s) - 1
      /\ \A a \in 1..Len(t) : t[a] = s[a + 1]
      /\ Len(s) \in Nat /\ Len(s) # 0
  BY HeadTailProperties
<1> HIDE DEF t
<1>2. \A a \in 1..Len(t) : a + 1 \in 1..Len(s) /\ a + 1 # 1 /\ a < a + 1 /\ 1 < a + 1
  BY <1>1
<1>3. \A a \in 1..Len(s) : a # 1 => a - 1 \in 1..Len(t) /\ t[a - 1] = s[a]
  <2> SUFFICES ASSUME NEW a \in 1..Len(s), a # 1
               PROVE  a - 1 \in 1..Len(t) /\ t[a - 1] = s[a]
    OBVIOUS
  <2>1. a - 1 \in 1..Len(t) /\ (a - 1) + 1 = a
    BY <1>1
  <2> QED
    BY <2>1, <1>1
<1>4. CASE LastSays(s, n, v)
  <2>1. PICK a \in 1..Len(s) : /\ Concerns(s[a], n)
                               /\ Says(s[a], n) <=> v
                               /\ \A b \in 1..Len(s) : a < b => ~Concerns(s[b], n)
    BY <1>4 DEF LastSays
  <2>2. CASE a = 1
    <3>1. \A b \in 1..Len(t) : ~Concerns(t[b], n)
      BY <2>1, <2>2, <1>1, <1>2
    <3>2. n \in Q <=> v
      BY <2>1, <2>2, <1>1
    <3> QED
      BY <3>1, <3>2 DEF Believes, t
  <2>3. CASE a # 1
    <3>1. a - 1 \in 1..Len(t) /\ t[a - 1] = s[a]
      BY <2>3, <1>3
    <3>2. \A b \in 1..Len(t) : a - 1 < b => ~Concerns(t[b], n)
      <4> SUFFICES ASSUME NEW b \in 1..Len(t), a - 1 < b
                   PROVE  ~Concerns(t[b], n)
        OBVIOUS
      <4>1. a < b + 1
        OBVIOUS
      <4> QED
        BY <4>1, <2>1, <1>1, <1>2
    <3>3. LastSays(t, n, v)
      BY <2>1, <3>1, <3>2 DEF LastSays
    <3> QED
      BY <3>3 DEF Believes, t
  <2> QED
    BY <2>2, <2>3
<1>5. CASE ~LastSays(s, n, v)
  <2>1. r /\ (n \in P <=> v) /\ \A a \in 1..Len(s) : ~Concerns(s[a], n)
    BY <1>5 DEF Believes
  <2>2. ~Concerns(Head(s), n) /\ \A a \in 1..Len(t) : ~Concerns(t[a], n)
    <3>1. 1 \in 1..Len(s)
      BY <1>1
    <3> QED
      BY <2>1, <3>1, <1>1, <1>2
  <2>3. n \in Q <=> v
    BY <2>1, <2>2
  <2> QED
    BY <2>2, <2>3 DEF Believes, t
<1> QED
  BY <1>4, <1>5

\* A queue that gets a message, a message that moves from a queue to the socket,
\* and one that is read off the socket.
LEMMA FeedAppend ==
    ASSUME NEW d \in Seq(Messages), NEW q \in Seq(Messages), NEW m \in Messages
    PROVE  d \o Append(q, m) = Append(d \o q, m)
<1>1. /\ Append(q, m) = q \o <<m>>
      /\ d \o q \in Seq(Messages)
      /\ <<m>> \in Seq(Messages)
  BY AppendIsConcat, ConcatProperties
<1>2. Append(d \o q, m) = (d \o q) \o <<m>>
  BY <1>1, AppendIsConcat
<1> QED
  BY <1>1, <1>2, ConcatAssociative

LEMMA FeedMoves ==
    ASSUME NEW d \in Seq(Messages), NEW q \in Seq(Messages), q # <<>>
    PROVE  Append(d, Head(q)) \o Tail(q) = d \o q
<1>1. /\ Head(q) \in Messages
      /\ Tail(q) \in Seq(Messages)
      /\ <<Head(q)>> \in Seq(Messages)
  BY HeadTailProperties
<1>2. Append(d, Head(q)) = d \o <<Head(q)>>
  BY <1>1, AppendIsConcat
<1>3. <<Head(q)>> \o Tail(q) = q
  OBVIOUS
<1> QED
  BY <1>1, <1>2, <1>3, ConcatAssociative

LEMMA FeedRead ==
    ASSUME NEW d \in Seq(Messages), NEW q \in Seq(Messages), d # <<>>
    PROVE  /\ d \o q \in Seq(Messages)
           /\ d \o q # <<>>
           /\ Head(d \o q) = Head(d)
           /\ Tail(d \o q) = Tail(d) \o q
OBVIOUS

-----------------------------------------------------------------------------
\* ShapeInv, for one connection at a time.

ShapeOf(k) ==
    /\ k > lastConn => handler[k] = "none"
    /\ open[k] => handler[k] \in {"register", "snapshot", "join", "serve", "route"}
    /\ client[k] \in {"dialing", "running"} => open[k]
    /\ handler[k] \in {"none", "register", "snapshot"} => down[k] = <<>> /\ client[k] # "running"
    /\ handler[k] \in {"none", "register"} => queue[k] = <<>>
    /\ client[k] = "dialing" /\ handler[k] \notin {"register", "snapshot"} =>
          down[k] # <<>> /\ down[k][1].kind = "snapshot"

\* The connections the server uses were added.
Added(j) == j \in Conns /\ handler[j] \notin {"none", "register"}

KnownAdded ==
    /\ \A k \in Conns : route[k] # 0 => Added(route[k])
    /\ \A n \in Nodes : clients[n] # 0 => Added(clients[n])

LEMMA ShapeParts ==
    ASSUME TypeOK
    PROVE  ShapeInv <=> KnownAdded /\ \A k \in Conns : ShapeOf(k)
BY DEF ShapeInv, KnownAdded, Added, ShapeOf, TypeOK

\* Sockets that close leave the shape of every connection.
LEMMA ShapeCloses ==
    ASSUME TypeOK, NEW K, SocketsClose(K), NEW k \in Conns, ShapeOf(k), handler'[k] = handler[k],
           queue' = queue, lastConn' = lastConn
    PROVE  ShapeOf(k)'
<1>1. /\ open'[k] <=> open[k] /\ k \notin K
      /\ client'[k] = IF k \in K THEN "ended" ELSE client[k]
      /\ down'[k] = IF k \in K THEN <<>> ELSE down[k]
  BY DEF SocketsClose, TypeOK
<1> QED
  BY <1>1 DEF ShapeOf

LEMMA AddedStep ==
    ASSUME PresenceInv, ShapeInv, [Next]_vars, NEW j \in Conns, Added(j)
    PROVE  Added(j)'
<1>0. /\ \A k \in Conns : k > lastConn => handler[k] = "none"
      /\ handler \in [Conns -> {"none", "register", "snapshot", "join", "serve", "route", "leave",
                                "closed"}]
      /\ handler[j] \notin {"none", "register"}
      /\ lastConn \in Nat
  BY PresenceAssumption DEF ShapeInv, PresenceInv, TypeOK, Added
<1>1. ASSUME NEW n \in Nodes, Dial(n)
      PROVE  Added(j)'
  <2>1. lastConn + 1 # j
    <3>1. lastConn + 1 > lastConn
      BY <1>0
    <3> QED
      BY <3>1, <1>0
  <2> QED
    BY <1>0, <1>1, <2>1 DEF Dial, Added
<1>2. ASSUME NEW k \in Conns, HandleWS(k)
      PROVE  Added(j)'
  BY <1>0, <1>2 DEF HandleWS, Add, WriteSnapshot, BroadcastJoin, ReadRelay, RouteRelay, Remove,
                    BroadcastLeave, Added
<1>3. ASSUME NEW k \in Conns, RegisterFails(k)
      PROVE  Added(j)'
  BY <1>0, <1>3 DEF RegisterFails, Added
<1>4. ASSUME \/ UNCHANGED vars
             \/ \E k \in Conns : \/ Writer(k) \/ ReadLoop(k) \/ RouteRelays(k) \/ Disconnect(k)
                                 \/ \E n \in Nodes : SendRelay(k, n)
      PROVE  Added(j)'
  BY <1>0, <1>4 DEF vars, Writer, ReadLoop, ReadSnapshot, ReadMessage, RouteRelays, Disconnect,
                    SendRelay, Added
<1> QED
  BY <1>1, <1>2, <1>3, <1>4 DEF Next

LEMMA KnownStep ==
    ASSUME PresenceInv, ShapeInv, [Next]_vars
    PROVE  KnownAdded'
<1>0. KnownAdded /\ \A j \in Conns : Added(j) => Added(j)'
  BY AddedStep, ShapeParts DEF PresenceInv
<1>00. route \in [Conns -> Conns \cup {0}] /\ clients \in [Nodes -> Conns \cup {0}] /\ 0 \notin Conns
  BY PresenceAssumption DEF PresenceInv, TypeOK, Conns
<1>1. ASSUME UNCHANGED <<route, clients>>
      PROVE  KnownAdded'
  <2>1. \A k \in Conns : route[k] # 0 => route[k] \in Conns
    BY <1>00
  <2>2. \A n \in Nodes : clients[n] # 0 => clients[n] \in Conns
    BY <1>00
  <2> QED
    BY <1>0, <1>1, <2>1, <2>2 DEF KnownAdded, Added
<1>2. ASSUME NEW k \in Conns, HandleWS(k)
      PROVE  KnownAdded'
  <2>0. owner[k] \in Nodes
    BY <1>2 DEF HandleWS, Add, WriteSnapshot, BroadcastJoin, ReadRelay, RouteRelay, Remove,
                BroadcastLeave, PresenceInv, OwnerInv
  <2>1. CASE Add(k)
    <3>1. clients' = [clients EXCEPT ![owner[k]] = k] /\ route' = route
      BY <2>1 DEF Add
    <3>2. handler'[k] = "snapshot"
      BY <2>1 DEF Add, PresenceInv, TypeOK
    <3>3. \A n \in Nodes : clients'[n] = clients[n] \/ clients'[n] = k
      BY <3>1, <1>00
    <3> QED
      BY <1>0, <1>00, <3>1, <3>2, <3>3 DEF KnownAdded, Added
  <2>2. CASE Remove(k)
    <3>1. /\ route' = route
          /\ \A n \in Nodes : clients'[n] = clients[n] \/ clients'[n] = 0
      BY <2>2, <1>00 DEF Remove
    <3> QED
      BY <1>0, <1>00, <3>1 DEF KnownAdded, Added
  <2>3. CASE ReadRelay(k)
    <3>1. Head(up[k]) \in Nodes
      BY <2>3 DEF ReadRelay, PresenceInv, TypeOK
    <3>2. /\ clients' = clients
          /\ \A j \in Conns : route'[j] = route[j] \/ route'[j] = clients[Head(up[k])]
      BY <2>3, <1>00 DEF ReadRelay
    <3> QED
      BY <1>0, <1>00, <3>1, <3>2 DEF KnownAdded, Added
  <2>4. CASE RouteRelay(k)
    <3>1. /\ clients' = clients
          /\ \A j \in Conns : route'[j] = route[j] \/ route'[j] = 0
      BY <2>4, <1>00 DEF RouteRelay
    <3> QED
      BY <1>0, <1>00, <3>1 DEF KnownAdded, Added
  <2>5. CASE WriteSnapshot(k) \/ BroadcastJoin(k) \/ BroadcastLeave(k)
    BY <2>5, <1>1 DEF WriteSnapshot, BroadcastJoin, BroadcastLeave
  <2> QED
    BY <1>2, <2>1, <2>2, <2>3, <2>4, <2>5 DEF HandleWS
<1>3. ASSUME \/ UNCHANGED vars
             \/ \E n \in Nodes : Dial(n)
             \/ \E k \in Conns : \/ RegisterFails(k) \/ Writer(k) \/ ReadLoop(k) \/ RouteRelays(k)
                                 \/ Disconnect(k)
                                 \/ \E n \in Nodes : SendRelay(k, n)
      PROVE  KnownAdded'
  BY <1>1, <1>3 DEF vars, Dial, RegisterFails, Writer, ReadLoop, ReadSnapshot, ReadMessage,
                    RouteRelays, Disconnect, SendRelay
<1> QED
  BY <1>2, <1>3 DEF Next

LEMMA ShapeStep ==
    ASSUME PresenceInv, ShapeInv, [Next]_vars
    PROVE  \A k \in Conns : ShapeOf(k)'
<1> SUFFICES ASSUME NEW k \in Conns
             PROVE  ShapeOf(k)'
  OBVIOUS
<1> USE DEF clientVars
<1>0. /\ TypeOK
      /\ KnownAdded
      /\ \A j \in Conns : ShapeOf(j)
      /\ ShapeOf(k)
  BY ShapeParts DEF PresenceInv
<1>1. /\ handler \in [Conns -> {"none", "register", "snapshot", "join", "serve", "route", "leave",
                                "closed"}]
      /\ client \in [Conns -> {"none", "dialing", "running", "ended"}]
      /\ down \in [Conns -> Seq(Messages)]
      /\ queue \in [Conns -> Seq(Messages)]
      /\ open \in [Conns -> BOOLEAN]
      /\ lastConn \in Nat /\ 0 \notin Conns /\ Conns \subseteq Nat
  BY <1>0, PresenceAssumption DEF TypeOK, Conns
<1>2. CASE UNCHANGED vars
  BY <1>0, <1>2 DEF vars, ShapeOf
<1>3. ASSUME NEW n \in Nodes, Dial(n)
      PROVE  ShapeOf(k)'
  <2>1. lastConn + 1 > lastConn /\ lastConn + 1 \in Conns
    BY <1>1, <1>3, PresenceAssumption DEF Dial, Conns
  <2>2. lastConn' = lastConn + 1 /\ (k > lastConn + 1 => k > lastConn /\ k # lastConn + 1)
    BY <1>1, <1>3 DEF Dial
  <2>3. CASE k = lastConn + 1
    <3>1. handler[k] = "none"
      BY <1>0, <2>1, <2>3 DEF ShapeOf
    <3>2. down[k] = <<>> /\ queue[k] = <<>>
      BY <1>0, <3>1 DEF ShapeOf
    <3>3. /\ handler'[k] = "register" /\ open'[k] /\ client'[k] = "dialing"
          /\ down'[k] = <<>> /\ queue'[k] = <<>>
      BY <1>1, <1>3, <2>3, <3>2 DEF Dial
    <3>4. ~(k > lastConn')
      BY <2>2, <2>3, <1>1
    <3> QED
      BY <3>3, <3>4 DEF ShapeOf
  <2>4. CASE k # lastConn + 1
    <3>1. /\ handler'[k] = handler[k] /\ open'[k] = open[k] /\ client'[k] = client[k]
          /\ down'[k] = down[k] /\ queue'[k] = queue[k]
      BY <1>1, <1>3, <2>4 DEF Dial
    <3> QED
      BY <1>0, <2>2, <3>1 DEF ShapeOf
  <2> QED
    BY <2>3, <2>4
<1>4. ASSUME NEW j \in Conns, RegisterFails(j)
      PROVE  ShapeOf(k)'
  <2>1. handler'[j] = "closed" /\ (k # j => handler'[k] = handler[k])
    BY <1>1, <1>4 DEF RegisterFails
  <2>2. lastConn' = lastConn /\ queue' = queue /\ SocketsClose({j})
    BY <1>4 DEF RegisterFails
  <2>3. CASE k # j
    BY <1>0, <2>1, <2>2, <2>3, ShapeCloses
  <2>4. CASE k = j
    <3>1. ~open'[k] /\ client'[k] = "ended"
      BY <2>2, <2>4 DEF SocketsClose
    <3>2. ~(k > lastConn')
      BY <1>0, <1>4, <2>2, <2>4 DEF ShapeOf, RegisterFails
    <3> QED
      BY <2>1, <2>4, <3>1, <3>2 DEF ShapeOf
  <2> QED
    BY <2>3, <2>4
<1>5. ASSUME NEW j \in Conns, Disconnect(j)
      PROVE  ShapeOf(k)'
  BY <1>0, <1>5, ShapeCloses DEF Disconnect
<1>6. ASSUME NEW j \in Conns, HandleWS(j)
      PROVE  ShapeOf(k)'
  <2>0. lastConn' = lastConn /\ ~(j > lastConn)
    BY <1>0, <1>6 DEF HandleWS, Add, WriteSnapshot, BroadcastJoin, ReadRelay, RouteRelay, Remove,
                      BroadcastLeave, ShapeOf
  <2>1. CASE Add(j)
    <3>1. handler[j] = "register" /\ handler'[j] = "snapshot" /\ (k # j => handler'[k] = handler[k])
      BY <1>1, <2>1 DEF Add
    <3>2. queue' = queue /\ SocketsClose({clients[owner[j]]})
      BY <2>1 DEF Add
    <3>3. CASE k # j
      BY <1>0, <2>0, <3>1, <3>2, <3>3, ShapeCloses
    <3>4. CASE k = j
      <4>1. /\ \/ client'[k] = "ended" /\ ~open'[k]
               \/ client'[k] = client[k] /\ open'[k] = open[k]
            /\ down'[k] = <<>> \/ down'[k] = down[k]
        BY <3>2, <1>1 DEF SocketsClose
      <4> QED
        BY <1>0, <2>0, <3>1, <3>4, <4>1 DEF ShapeOf
    <3> QED
      BY <3>3, <3>4
  <2>2. CASE WriteSnapshot(j)
    <3>1. /\ handler[j] = "snapshot" /\ handler'[j] = "join"
          /\ k # j => handler'[k] = handler[k] /\ down'[k] = down[k]
          /\ UNCHANGED <<open, client, queue>>
      BY <1>1, <2>2 DEF WriteSnapshot, Written
    <3>2. CASE k # j
      BY <1>0, <2>0, <3>1, <3>2 DEF ShapeOf
    <3>3. CASE k = j
      <4>1. CASE open[j]
        <5>1. down[j] = <<>>
          BY <1>0, <3>1 DEF ShapeOf
        <5>2. down'[j] = Append(<<>>, Message("snapshot", snapshot[j]))
          BY <1>1, <2>2, <4>1, <5>1 DEF WriteSnapshot, Written
        <5>3. down'[j] # <<>> /\ down'[j][1] = Message("snapshot", snapshot[j])
          BY <5>2
        <5>4. down'[j][1].kind = "snapshot"
          BY <5>3, ConcerningFacts
        <5> QED
          BY <1>0, <2>0, <3>1, <3>3, <5>3, <5>4 DEF ShapeOf
      <4>2. CASE ~open[j]
        BY <1>0, <2>0, <3>1, <3>3, <4>2 DEF ShapeOf
      <4> QED
        BY <4>1, <4>2
    <3> QED
      BY <3>2, <3>3
  <2>3. CASE BroadcastJoin(j) \/ BroadcastLeave(j)
    <3>1. /\ \/ handler[j] = "join" /\ handler'[j] = "serve"
             \/ handler[j] = "leave" /\ handler'[j] = "closed"
          /\ k # j => handler'[k] = handler[k]
          /\ UNCHANGED <<open, client, down>>
      BY <1>1, <2>3 DEF BroadcastJoin, BroadcastLeave
    <3>2. handler[k] \in {"none", "register"} => queue'[k] = queue[k]
      <4>1. \A n \in Nodes : clients[n] # 0 => Added(clients[n])
        BY <1>0 DEF KnownAdded
      <4>2. \A n \in Registered : clients[n] # 0 /\ n \in Nodes
        BY DEF Registered
      <4>3. handler[k] \in {"none", "register"} => \A n \in Registered : clients[n] # k
        BY <4>1, <4>2 DEF Added
      <4> QED
        BY <2>3, <4>3 DEF BroadcastJoin, BroadcastLeave, Broadcast
    <3>3. CASE k # j
      BY <1>0, <2>0, <3>1, <3>2, <3>3 DEF ShapeOf
    <3>4. CASE k = j
      BY <1>0, <2>0, <3>1, <3>4 DEF ShapeOf
    <3> QED
      BY <3>3, <3>4
  <2>4. CASE ReadRelay(j)
    <3>1. /\ handler[j] = "serve" /\ handler'[j] \in {"serve", "route"}
          /\ k # j => handler'[k] = handler[k]
          /\ UNCHANGED <<open, client, down, queue>>
      BY <1>1, <2>4 DEF ReadRelay
    <3> QED
      BY <1>0, <2>0, <3>1 DEF ShapeOf
  <2>5. CASE RouteRelay(j)
    <3>1. /\ handler[j] = "route" /\ handler'[j] = "serve"
          /\ k # j => handler'[k] = handler[k]
          /\ UNCHANGED <<open, client, down>>
      BY <1>1, <2>5 DEF RouteRelay
    <3>2. handler[k] \in {"none", "register"} => queue'[k] = queue[k]
      <4>1. handler[k] \in {"none", "register"} => route[j] # k
        BY <1>0, <1>1 DEF KnownAdded, Added
      <4> QED
        BY <1>1, <2>5, <4>1 DEF RouteRelay
    <3> QED
      BY <1>0, <2>0, <3>1, <3>2 DEF ShapeOf
  <2>6. CASE Remove(j)
    <3>1. /\ handler[j] = "serve" /\ ~open[j] /\ handler'[j] \in {"leave", "closed"}
          /\ k # j => handler'[k] = handler[k] /\ queue'[k] = queue[k]
          /\ UNCHANGED <<open, client, down>>
      BY <1>1, <2>6 DEF Remove
    <3> QED
      BY <1>0, <2>0, <3>1 DEF ShapeOf
  <2> QED
    BY <1>6, <2>1, <2>2, <2>3, <2>4, <2>5, <2>6 DEF HandleWS
<1>7. ASSUME NEW j \in Conns, Writer(j)
      PROVE  ShapeOf(k)'
  <2>1. /\ handler[j] \in {"serve", "route"}
        /\ k # j => queue'[k] = queue[k] /\ down'[k] = down[k]
        /\ UNCHANGED <<open, client, handler, lastConn>>
        /\ down'[j] = Append(down[j], Head(queue[j]))
    BY <1>1, <1>7 DEF Writer
  <2>2. down[j] # <<>> => down'[j] # <<>> /\ down'[j][1] = down[j][1]
    <3>1. down[j] \in Seq(Messages) /\ Head(queue[j]) \in Messages
      BY <1>1, <1>7 DEF Writer
    <3> QED
      BY <2>1, <3>1
  <2> QED
    BY <1>0, <2>1, <2>2 DEF ShapeOf
<1>8. ASSUME NEW j \in Conns, ReadLoop(j)
      PROVE  ShapeOf(k)'
  <2>1. /\ down[j] # <<>> /\ client'[j] = "running"
        /\ client[j] \in {"dialing", "running"}
        /\ k # j => client'[k] = client[k] /\ down'[k] = down[k]
        /\ UNCHANGED <<open, queue, handler, lastConn>>
    BY <1>1, <1>8 DEF ReadLoop, ReadSnapshot, ReadMessage
  <2>2. handler[j] \notin {"none", "register", "snapshot"} /\ open[j]
    BY <1>0, <2>1 DEF ShapeOf
  <2> QED
    BY <1>0, <2>1, <2>2 DEF ShapeOf
<1>9. ASSUME NEW j \in Conns, RouteRelays(j) \/ \E n \in Nodes : SendRelay(j, n)
      PROVE  ShapeOf(k)'
  BY <1>0, <1>9 DEF RouteRelays, SendRelay, ShapeOf
<1> QED
  BY <1>2, <1>3, <1>4, <1>5, <1>6, <1>7, <1>8, <1>9 DEF Next

-----------------------------------------------------------------------------
\* ViewInv, for one connection and one Node at a time.

FairToTell(k, n) == Served(k) /\ n # owner[k] /\ n \notin stale /\ n \notin dropped[k] /\ ~Owed(n)

ViewOf(k, n) == Believes(Feed(k), client[k] = "running", peers[k], n, n \in Registered)

LEMMA FeedTypes ==
    ASSUME TypeOK, NEW k \in Conns
    PROVE  /\ Before(k) \in Seq(Messages)
           /\ queue[k] \in Seq(Messages)
           /\ Feed(k) \in Seq(Messages)
<1>1. Message("snapshot", snapshot[k]) \in Messages
  BY MessageRecords DEF TypeOK
<1>2. Before(k) \in Seq(Messages)
  BY <1>1 DEF Before, TypeOK
<1>3. queue[k] \in Seq(Messages)
  BY DEF TypeOK
<1> QED
  BY <1>2, <1>3, ConcatProperties DEF Feed

\* Nobody but a broadcast pays what is owed.
LEMMA OwedStays ==
    ASSUME PresenceInv, ShapeInv, NEW n \in Nodes, Owed(n),
           \/ UNCHANGED vars
           \/ \E m \in Nodes : Dial(m)
           \/ \E k \in Conns : \/ RegisterFails(k) \/ Add(k) \/ WriteSnapshot(k) \/ ReadRelay(k)
                               \/ RouteRelay(k) \/ Remove(k) \/ Writer(k) \/ ReadLoop(k)
                               \/ RouteRelays(k) \/ Disconnect(k)
                               \/ \E m \in Nodes : SendRelay(k, m)
    PROVE  Owed(n)'
<1>1. PICK j \in Conns : owner[j] = n /\ handler[j] \in {"snapshot", "join", "leave"}
  BY DEF Owed
<1>2. handler \in [Conns -> {"none", "register", "snapshot", "join", "serve", "route", "leave",
                             "closed"}]
  BY DEF PresenceInv, TypeOK
<1>3. ASSUME NEW m \in Nodes, Dial(m)
      PROVE  Owed(n)'
  <2>1. lastConn + 1 # j
    <3>1. lastConn + 1 > lastConn
      BY PresenceAssumption DEF PresenceInv, TypeOK
    <3> QED
      BY <1>1, <3>1 DEF ShapeInv
  <2>2. handler'[j] = handler[j] /\ owner'[j] = owner[j]
    BY <1>2, <1>3, <2>1 DEF Dial, PresenceInv, TypeOK
  <2> QED
    BY <1>1, <2>2 DEF Owed
<1>4. ASSUME NEW k \in Conns,
             \/ RegisterFails(k) \/ Add(k) \/ WriteSnapshot(k) \/ ReadRelay(k) \/ RouteRelay(k)
             \/ Remove(k)
      PROVE  Owed(n)'
  <2>1. owner' = owner /\ handler'[j] \in {"snapshot", "join", "leave"}
    BY <1>1, <1>2, <1>4 DEF RegisterFails, Add, WriteSnapshot, ReadRelay, RouteRelay, Remove
  <2> QED
    BY <1>1, <2>1 DEF Owed
<1>5. ASSUME \/ UNCHANGED vars
             \/ \E k \in Conns : \/ Writer(k) \/ ReadLoop(k) \/ RouteRelays(k) \/ Disconnect(k)
                                 \/ \E m \in Nodes : SendRelay(k, m)
      PROVE  Owed(n)'
  <2>1. owner' = owner /\ handler' = handler
    BY <1>5 DEF vars, Writer, ReadLoop, ReadSnapshot, ReadMessage, RouteRelays, Disconnect,
                SendRelay
  <2> QED
    BY <2>1 DEF Owed
<1> QED
  BY <1>3, <1>4, <1>5

\* The broadcasts: whoever is fair to tell gets the message, and it is true.
LEMMA ViewBroadcast ==
    ASSUME PresenceInv, OpenIsRegistered, ShapeInv, ViewInv,
           NEW k \in Conns, NEW n \in Nodes, FairToTell(k, n)',
           NEW j \in Conns, BroadcastJoin(j) \/ BroadcastLeave(j)
    PROVE  ViewOf(k, n)'
<1> DEFINE x == owner[j]
           m == IF BroadcastJoin(j) THEN Message("join", {x}) ELSE Message("leave", {x})
<1>0. TypeOK /\ x \in Nodes
  BY DEF BroadcastJoin, BroadcastLeave, PresenceInv, OwnerInv
<1>1. /\ UNCHANGED <<owner, open, snapshot, clients, down, client, peers>>
      /\ handler[j] \in {"join", "leave"}
      /\ handler'[j] = IF handler[j] = "join" THEN "serve" ELSE "closed"
      /\ \A i \in Conns \ {j} : handler'[i] = handler[i]
  BY DEF BroadcastJoin, BroadcastLeave, clientVars, PresenceInv, TypeOK
<1>2. m \in Messages /\ Broadcast(x, m)
  BY <1>0, MessageRecords DEF BroadcastJoin, BroadcastLeave
<1>3. /\ ~Concerns(m, n) \/ n = x
      /\ Concerns(m, x)
      /\ Says(m, x) <=> m.kind = "join"
  BY ConcerningFacts
<1> HIDE DEF m
<1>4. Served(k) /\ n # owner[k]
  <2>1. k = j => handler[j] = "join"
    BY <1>1 DEF FairToTell, Served
  <2> QED
    BY <1>1, <2>1 DEF FairToTell, Served
<1>5. Before(k)' = Before(k)
  BY <1>1, <1>4 DEF Before, Served
<1>6. Registered' = Registered
  BY <1>1 DEF Registered
<1>7. /\ Feed(k) \in Seq(Messages)
      /\ queue'[k] = queue[k] => Feed(k)' = Feed(k)
      /\ queue'[k] = Append(queue[k], m) => Feed(k)' = Append(Feed(k), m)
  <2>1. Before(k) \in Seq(Messages) /\ queue[k] \in Seq(Messages) /\ Feed(k) \in Seq(Messages)
    BY <1>0, FeedTypes
  <2>2. Before(k) \o Append(queue[k], m) = Append(Before(k) \o queue[k], m)
    BY <1>2, <2>1, FeedAppend
  <2>3. Feed(k) = Before(k) \o queue[k] /\ Feed(k)' = Before(k) \o queue'[k]
    BY <1>5 DEF Feed
  <2> QED
    BY <2>1, <2>2, <2>3
<1>8. CASE n = x
  <2>1. k \in {clients[a] : a \in Registered \ {x}}
    <3>1. clients[owner[k]] = k
      BY <1>4 DEF OpenIsRegistered, Served
    <3>2. owner[k] \in Nodes /\ k # 0
      BY <1>4, PresenceAssumption DEF PresenceInv, OwnerInv, Served, Conns
    <3> QED
      BY <1>4, <1>8, <3>1, <3>2 DEF Registered
  <2>2. HasRoom(k)
    BY <1>2, <1>8, <2>1 DEF Broadcast, FairToTell
  <2>3. queue'[k] = Append(queue[k], m)
    BY <1>2, <2>1, <2>2 DEF Broadcast
  <2>4. Says(m, n) <=> n \in Registered
    <3>1. (m.kind = "join") = (x \in Registered)
      BY <1>2, <1>8 DEF Broadcast, FairToTell
    <3> QED
      BY <1>3, <1>8, <3>1
  <2>5. Believes(Append(Feed(k), m), client[k] = "running", peers[k], n, n \in Registered)
    BY <1>2, <1>3, <1>7, <1>8, <2>4, BelievesTold
  <2>6. Feed(k)' = Append(Feed(k), m)
    BY <1>7, <2>3
  <2> QED
    BY <1>1, <1>6, <2>5, <2>6 DEF ViewOf
<1>9. CASE n # x
  <2>1. n \notin stale /\ n \notin dropped[k]
    BY <1>2, <1>9 DEF Broadcast, FairToTell
  <2>2. ~Owed(n)
    <3> SUFFICES ASSUME Owed(n)
                 PROVE  FALSE
      OBVIOUS
    <3>1. PICK i \in Conns : owner[i] = n /\ handler[i] \in {"snapshot", "join", "leave"}
      BY DEF Owed
    <3>2. i # j
      BY <3>1, <1>9
    <3>3. Owed(n)'
      BY <1>1, <3>1, <3>2 DEF Owed
    <3> QED
      BY <3>3 DEF FairToTell
  <2>3. ViewOf(k, n)
    BY <1>4, <2>1, <2>2 DEF ViewInv, ViewOf
  <2>4. queue'[k] = queue[k] \/ queue'[k] = Append(queue[k], m)
    BY <1>2 DEF Broadcast
  <2>5. Believes(Append(Feed(k), m), client[k] = "running", peers[k], n, n \in Registered)
    BY <1>2, <1>3, <1>7, <1>9, <2>3, BelievesOther DEF ViewOf
  <2>6. CASE queue'[k] = queue[k]
    <3>1. Feed(k)' = Feed(k)
      BY <1>7, <2>6
    <3> QED
      BY <1>1, <1>6, <2>3, <3>1 DEF ViewOf
  <2>7. CASE queue'[k] = Append(queue[k], m)
    <3>1. Feed(k)' = Append(Feed(k), m)
      BY <1>7, <2>7
    <3> QED
      BY <1>1, <1>6, <2>5, <3>1 DEF ViewOf
  <2> QED
    BY <2>4, <2>6, <2>7
<1> QED
  BY <1>8, <1>9

\* The client reads its next message.
LEMMA ViewRead ==
    ASSUME PresenceInv, ShapeInv, NEW k \in Conns, NEW n \in Nodes, Served(k),
           ViewOf(k, n), ReadLoop(k)
    PROVE  ViewOf(k, n)'
<1>0. TypeOK /\ ShapeOf(k)
  BY ShapeParts DEF PresenceInv
<1>1. /\ down[k] # <<>> /\ client[k] \in {"dialing", "running"}
      /\ UNCHANGED <<handler, queue, snapshot, clients>>
      /\ client'[k] = "running"
      /\ down'[k] = Tail(down[k])
      /\ down[k] \in Seq(Messages)
      /\ queue[k] \in Seq(Messages)
  BY <1>0 DEF ReadLoop, ReadSnapshot, ReadMessage, TypeOK
<1>2. handler[k] # "snapshot" /\ handler[k] # "register"
  BY <1>0, <1>1 DEF ShapeOf
<1>3. Feed(k) = down[k] \o queue[k] /\ Feed(k)' = Tail(down[k]) \o queue[k]
  BY <1>1, <1>2 DEF Feed, Before
<1>4. /\ Feed(k) \in Seq(Messages) /\ Feed(k) # <<>>
      /\ Head(Feed(k)) = Head(down[k])
      /\ Feed(k)' = Tail(Feed(k))
  <2> DEFINE d == down[k]
             q == queue[k]
  <2>1. d \in Seq(Messages) /\ q \in Seq(Messages) /\ d # <<>>
    BY <1>1
  <2>2. Feed(k) = d \o q /\ Feed(k)' = Tail(d) \o q
    BY <1>3
  <2> HIDE DEF d, q
  <2>3. /\ d \o q \in Seq(Messages) /\ d \o q # <<>>
        /\ Head(d \o q) = Head(d)
        /\ Tail(d \o q) = Tail(d) \o q
    BY <2>1, FeedRead
  <2>4. /\ Feed(k) \in Seq(Messages) /\ Feed(k) # <<>>
        /\ Head(Feed(k)) = Head(d)
        /\ Feed(k)' = Tail(Feed(k))
    BY <2>2, <2>3
  <2> QED
    BY <2>4 DEF d
<1>5. /\ Concerns(Head(down[k]), n) => (n \in peers'[k] <=> Says(Head(down[k]), n))
      /\ ~Concerns(Head(down[k]), n) => (n \in peers'[k] <=> n \in peers[k])
  <2>1. CASE ReadSnapshot(k)
    <3>1. peers'[k] = Head(down[k]).nodes
      BY <2>1, <1>0 DEF ReadSnapshot, TypeOK
    <3>2. Head(down[k]).kind = "snapshot"
      <4>1. Head(down[k]) = down[k][1]
        BY <1>1
      <4> QED
        BY <2>1, <1>0, <1>2, <4>1 DEF ReadSnapshot, ShapeOf
    <3> QED
      BY <3>1, <3>2 DEF Concerns, Says
  <2>2. CASE ReadMessage(k)
    <3> DEFINE m == Head(down[k])
    <3>1. \/ m.kind = "join" /\ peers'[k] = peers[k] \cup m.nodes
          \/ m.kind = "leave" /\ peers'[k] = peers[k] \ m.nodes
          \/ m.kind = "relay" /\ peers'[k] = peers[k]
      BY <2>2, <1>0 DEF ReadMessage, TypeOK
    <3> HIDE DEF m
    <3>2. /\ Concerns(m, n) => (n \in peers'[k] <=> Says(m, n))
          /\ ~Concerns(m, n) => (n \in peers'[k] <=> n \in peers[k])
      BY <3>1 DEF Concerns, Says
    <3> QED
      BY <3>2 DEF m
  <2> QED
    BY <2>1, <2>2 DEF ReadLoop
<1>6. Believes(Tail(Feed(k)), TRUE, peers'[k], n, n \in Registered)
  <2> DEFINE s == Feed(k)
             r == client[k] = "running"
             v == n \in Registered
  <2>1. Believes(s, r, peers[k], n, v)
    BY DEF ViewOf
  <2>2. s \in Seq(Messages) /\ s # <<>> /\ Head(s) = Head(down[k])
    BY <1>4
  <2> HIDE DEF s, r, v
  <2>3. Believes(Tail(s), TRUE, peers'[k], n, v)
    BY <2>1, <2>2, <1>5, BelievesRead
  <2> QED
    BY <2>3 DEF s, v
<1>7. Registered' = Registered
  BY <1>1 DEF Registered
<1>8. (client[k] = "running")' = TRUE
  BY <1>1
<1> QED
  BY <1>4, <1>6, <1>7, <1>8 DEF ViewOf

LEMMA ViewStep ==
    ASSUME PresenceInv, OpenIsRegistered, ShapeInv, ViewInv, [Next]_vars,
           NEW k \in Conns, NEW n \in Nodes, FairToTell(k, n)'
    PROVE  ViewOf(k, n)'
<1> USE DEF clientVars
<1>0. /\ TypeOK
      /\ ShapeOf(k)
      /\ Served(k)' /\ n # owner'[k] /\ n \notin stale' /\ n \notin dropped'[k] /\ ~Owed(n)'
  BY ShapeParts DEF PresenceInv, FairToTell
\* Everything the view of k about n depends on stays.
<1>1. ASSUME Served(k), owner'[k] = owner[k], UNCHANGED <<stale, dropped>>, ~Owed(n),
             n \in Registered' <=> n \in Registered
      PROVE  /\ ViewOf(k, n)
             /\ Feed(k)' = Feed(k) /\ client'[k] = client[k] /\ peers'[k] = peers[k]
                   => ViewOf(k, n)'
  <2>1. ViewOf(k, n)
    BY <1>0, <1>1 DEF ViewInv, ViewOf
  <2>2. (n \in Registered') = (n \in Registered)
    BY <1>1
  <2> QED
    BY <2>1, <2>2 DEF ViewOf
<1>2. CASE UNCHANGED vars
  <2>1. ~Owed(n)
    BY <1>0, <1>2, OwedStays
  <2>2. Served(k) /\ Registered' = Registered /\ Feed(k)' = Feed(k)
    BY <1>0, <1>2 DEF vars, Served, Registered, Feed, Before
  <2> QED
    BY <1>1, <1>2, <2>1, <2>2 DEF vars
<1>3. ASSUME NEW x \in Nodes, Dial(x)
      PROVE  ViewOf(k, n)'
  <2>1. ~Owed(n)
    BY <1>0, <1>3, OwedStays
  <2>2. k # lastConn + 1
    BY <1>0, <1>3 DEF Dial, Served, TypeOK
  <2>3. /\ owner'[k] = owner[k] /\ open'[k] = open[k] /\ handler'[k] = handler[k]
        /\ client'[k] = client[k]
        /\ UNCHANGED <<clients, peers, snapshot, down, queue, stale, dropped>>
    BY <1>0, <1>3, <2>2 DEF Dial, TypeOK
  <2>4. Served(k) /\ Registered' = Registered /\ Feed(k)' = Feed(k)
    BY <1>0, <2>3 DEF Served, Registered, Feed, Before
  <2> QED
    BY <1>1, <2>1, <2>3, <2>4
<1>4. ASSUME NEW j \in Conns, RegisterFails(j) \/ Disconnect(j)
      PROVE  ViewOf(k, n)'
  <2>1. ~Owed(n)
    BY <1>0, <1>4, OwedStays
  <2>2. k # j /\ open[k]
    BY <1>0, <1>4 DEF RegisterFails, Disconnect, SocketsClose, Served
  <2>3. /\ handler'[k] = handler[k]
        /\ client'[k] = client[k] /\ peers'[k] = peers[k] /\ down'[k] = down[k]
        /\ UNCHANGED <<owner, clients, snapshot, queue, stale, dropped>>
    BY <1>0, <1>4, <2>2 DEF RegisterFails, Disconnect, SocketsClose, TypeOK
  <2>4. Served(k) /\ Registered' = Registered /\ Feed(k)' = Feed(k)
    BY <1>0, <2>2, <2>3 DEF Served, Registered, Feed, Before
  <2> QED
    BY <1>1, <2>1, <2>3, <2>4
<1>5. ASSUME NEW j \in Conns, Add(j)
      PROVE  ViewOf(k, n)'
  <2>1. ~Owed(n)
    BY <1>0, <1>5, OwedStays
  <2>2. /\ owner[j] \in Nodes /\ handler[j] = "register" /\ handler'[j] = "snapshot"
        /\ clients' = [clients EXCEPT ![owner[j]] = j]
        /\ snapshot' = [snapshot EXCEPT ![j] = Registered \ {owner[j]}]
        /\ SocketsClose({clients[owner[j]]})
        /\ UNCHANGED <<owner, queue, stale, dropped>>
    BY <1>0, <1>5 DEF Add, PresenceInv, OwnerInv, TypeOK
  <2>3. n # owner[j]
    <3> SUFFICES ASSUME n = owner[j]
                 PROVE  FALSE
      OBVIOUS
    <3>1. Owed(n)'
      BY <2>2 DEF Owed
    <3> QED
      BY <3>1, <1>0
  <2>4. n \in Registered' <=> n \in Registered
    BY <1>0, <2>2, <2>3 DEF Registered, TypeOK
  <2>5. CASE k = j
    <3>1. queue[k] = <<>>
      BY <1>0, <2>2, <2>5 DEF ShapeOf
    <3>2. snapshot'[k] = Registered \ {owner[k]}
      BY <1>0, <2>2, <2>5 DEF TypeOK
    <3> DEFINE m == Message("snapshot", Registered \ {owner[k]})
    <3>3. m \in Messages /\ Concerns(m, n) /\ (Says(m, n) <=> n \in Registered)
      <4>1. Registered \ {owner[k]} \in SUBSET Nodes
        BY DEF Registered
      <4> QED
        BY <4>1, <2>3, <2>5, MessageRecords, ConcerningFacts
    <3>4. Feed(k)' = <<m>> \o <<>>
      BY <2>2, <2>5, <3>1, <3>2 DEF Feed, Before
    <3> HIDE DEF m
    <3>5. Feed(k)' = Append(<<>>, m)
      BY <3>3, <3>4
    <3>6. Believes(Append(<<>>, m), (client[k] = "running")', peers'[k], n, n \in Registered')
      <4>1. <<>> \in Seq(Messages)
        OBVIOUS
      <4>2. Says(m, n) <=> n \in Registered'
        BY <2>4, <3>3
      <4> QED
        BY <3>3, <4>1, <4>2, BelievesTold
    <3> QED
      BY <3>5, <3>6 DEF ViewOf
  <2>6. CASE k # j
    <3>1. k # clients[owner[j]] /\ open[k]
      BY <1>0, <2>2 DEF SocketsClose, Served
    <3>2. /\ handler'[k] = handler[k]
          /\ client'[k] = client[k] /\ peers'[k] = peers[k] /\ down'[k] = down[k]
          /\ snapshot'[k] = snapshot[k]
      BY <1>0, <1>5, <2>2, <2>6, <3>1 DEF Add, SocketsClose, TypeOK
    <3>3. Served(k)
      BY <1>0, <3>1, <3>2 DEF Served
    <3>4. Feed(k)' = Feed(k)
      <4>1. queue'[k] = queue[k]
        BY <2>2
      <4>2. Before(k)' = Before(k)
        BY <3>2 DEF Before
      <4> QED
        BY <4>1, <4>2 DEF Feed
    <3> QED
      BY <1>1, <2>1, <2>2, <2>4, <3>2, <3>3, <3>4
  <2> QED
    BY <2>5, <2>6
<1>6. ASSUME NEW j \in Conns, WriteSnapshot(j)
      PROVE  ViewOf(k, n)'
  <2>1. ~Owed(n)
    BY <1>0, <1>6, OwedStays
  <2>2. /\ UNCHANGED <<owner, open, clients, client, peers, queue, stale, dropped>>
        /\ handler[j] = "snapshot" /\ handler'[j] = "join"
        /\ k # j => /\ handler'[k] = handler[k]
                    /\ down'[k] = down[k] /\ snapshot'[k] = snapshot[k]
    BY <1>0, <1>6 DEF WriteSnapshot, Written, TypeOK
  <2>3. Served(k)
    BY <1>0, <2>2 DEF Served
  <2>4. Before(k)' = Before(k)
    <3>1. CASE k # j
      BY <2>2, <3>1 DEF Before
    <3>2. CASE k = j
      <4>1. open[k] /\ down[k] = <<>>
        BY <1>0, <2>2, <2>3, <3>2 DEF ShapeOf, Served
      <4>2. down'[k] = Append(<<>>, Message("snapshot", snapshot[k]))
        BY <1>0, <1>6, <3>2, <4>1 DEF WriteSnapshot, Written, TypeOK
      <4>3. down'[k] = <<Message("snapshot", snapshot[k])>>
        BY <4>2
      <4> QED
        BY <2>2, <3>2, <4>3 DEF Before
    <3> QED
      BY <3>1, <3>2
  <2>5. Feed(k)' = Feed(k) /\ Registered' = Registered
    BY <2>2, <2>4 DEF Feed, Registered
  <2> QED
    BY <1>1, <2>1, <2>2, <2>3, <2>5
<1>7. ASSUME NEW j \in Conns, BroadcastJoin(j) \/ BroadcastLeave(j)
      PROVE  ViewOf(k, n)'
  BY <1>7, ViewBroadcast
<1>8. ASSUME NEW j \in Conns, ReadRelay(j)
      PROVE  ViewOf(k, n)'
  <2>1. ~Owed(n)
    BY <1>0, <1>8, OwedStays
  <2>2. /\ UNCHANGED <<owner, open, clients, client, peers, queue, stale, dropped, down, snapshot>>
        /\ handler[j] = "serve" /\ handler'[j] \in {"serve", "route"}
        /\ k # j => handler'[k] = handler[k]
    BY <1>0, <1>8 DEF ReadRelay, TypeOK
  <2>3. Served(k) /\ Feed(k)' = Feed(k) /\ Registered' = Registered
    BY <1>0, <2>2 DEF Served, Feed, Before, Registered
  <2> QED
    BY <1>1, <2>1, <2>2, <2>3
<1>9. ASSUME NEW j \in Conns, RouteRelay(j)
      PROVE  ViewOf(k, n)'
  <2>1. ~Owed(n)
    BY <1>0, <1>9, OwedStays
  <2> DEFINE m == Message("relay", {owner[j]})
  <2>2. /\ UNCHANGED <<owner, open, clients, client, peers, stale, dropped, down, snapshot>>
        /\ handler[j] = "route" /\ handler'[j] = "serve"
        /\ k # j => handler'[k] = handler[k]
        /\ queue'[k] = queue[k] \/ queue'[k] = Append(queue[k], m)
    BY <1>0, <1>9 DEF RouteRelay, TypeOK
  <2>3. m \in Messages /\ ~Concerns(m, n)
    <3>1. owner[j] \in Nodes
      BY <2>2 DEF PresenceInv, OwnerInv
    <3> QED
      BY <3>1, MessageRecords, ConcerningFacts
  <2> HIDE DEF m
  <2>4. Served(k) /\ Before(k)' = Before(k) /\ Registered' = Registered
    BY <1>0, <2>2 DEF Served, Before, Registered
  <2>5. ViewOf(k, n)
    BY <1>1, <2>1, <2>2, <2>4
  <2>6. /\ Before(k) \in Seq(Messages)
        /\ queue[k] \in Seq(Messages)
        /\ Feed(k) \in Seq(Messages)
    BY <1>0, FeedTypes
  <2>7. CASE queue'[k] = queue[k]
    <3>1. Feed(k)' = Feed(k)
      BY <2>4, <2>7 DEF Feed
    <3> QED
      BY <2>2, <2>4, <2>5, <3>1 DEF ViewOf
  <2>8. CASE queue'[k] = Append(queue[k], m)
    <3>1. Before(k) \o Append(queue[k], m) = Append(Before(k) \o queue[k], m)
      BY <2>3, <2>6, FeedAppend
    <3>2. Feed(k)' = Append(Feed(k), m)
      BY <2>4, <2>8, <3>1 DEF Feed
    <3>3. Believes(Append(Feed(k), m), client[k] = "running", peers[k], n, n \in Registered)
      BY <2>3, <2>5, <2>6, BelievesOther DEF ViewOf
    <3> QED
      BY <2>2, <2>4, <3>2, <3>3 DEF ViewOf
  <2> QED
    BY <2>2, <2>7, <2>8
<1>10. ASSUME NEW j \in Conns, Remove(j)
       PROVE  ViewOf(k, n)'
  <2>1. ~Owed(n)
    BY <1>0, <1>10, OwedStays
  <2>2. /\ UNCHANGED <<owner, open, client, peers, stale, dropped, down, snapshot>>
        /\ owner[j] \in Nodes
        /\ handler'[j] \in {"leave", "closed"}
        /\ k # j => handler'[k] = handler[k] /\ queue'[k] = queue[k]
    BY <1>0, <1>10 DEF Remove, TypeOK, PresenceInv, OwnerInv
  <2>3. k # j
    BY <1>0, <2>2 DEF Served
  <2>4. n \in Registered' <=> n \in Registered
    <3>1. CASE n # owner[j] \/ clients' = clients
      BY <1>0, <1>10, <2>2, <3>1 DEF Remove, Registered, TypeOK
    <3>2. CASE n = owner[j] /\ clients' # clients
      <4>1. handler'[j] = "leave" /\ owner'[j] = n
        BY <1>0, <1>10, <2>2, <3>2 DEF Remove, TypeOK
      <4>2. Owed(n)'
        BY <4>1 DEF Owed
      <4> QED
        BY <1>0, <4>2
    <3> QED
      BY <3>1, <3>2
  <2>5. Served(k) /\ Feed(k)' = Feed(k)
    BY <1>0, <2>2, <2>3 DEF Served, Feed, Before
  <2> QED
    BY <1>1, <2>1, <2>2, <2>4, <2>5
<1>11. ASSUME NEW j \in Conns, Writer(j)
       PROVE  ViewOf(k, n)'
  <2>1. ~Owed(n)
    BY <1>0, <1>11, OwedStays
  <2>2. /\ UNCHANGED <<owner, open, handler, clients, client, peers, stale, dropped, snapshot>>
        /\ handler[j] \in {"serve", "route"} /\ queue[j] # <<>>
        /\ queue'[j] = Tail(queue[j]) /\ down'[j] = Append(down[j], Head(queue[j]))
        /\ k # j => queue'[k] = queue[k] /\ down'[k] = down[k]
    BY <1>0, <1>11 DEF Writer, TypeOK
  <2>3. Feed(k)' = Feed(k)
    <3>1. CASE k # j
      BY <2>2, <3>1 DEF Feed, Before
    <3>2. CASE k = j
      <4>1. down[k] \in Seq(Messages) /\ queue[k] \in Seq(Messages)
        BY <1>0 DEF TypeOK
      <4>2. Append(down[k], Head(queue[k])) \o Tail(queue[k]) = down[k] \o queue[k]
        BY <2>2, <3>2, <4>1, FeedMoves
      <4> QED
        BY <2>2, <3>2, <4>2 DEF Feed, Before
    <3> QED
      BY <3>1, <3>2
  <2>4. Served(k) /\ Registered' = Registered
    BY <1>0, <2>2 DEF Served, Registered
  <2> QED
    BY <1>1, <2>1, <2>2, <2>3, <2>4
<1>12. ASSUME NEW j \in Conns, ReadLoop(j)
       PROVE  ViewOf(k, n)'
  <2>1. ~Owed(n)
    BY <1>0, <1>12, OwedStays
  <2>2. /\ UNCHANGED <<owner, open, handler, clients, queue, stale, dropped, snapshot>>
        /\ k # j => client'[k] = client[k] /\ peers'[k] = peers[k] /\ down'[k] = down[k]
    BY <1>0, <1>12 DEF ReadLoop, ReadSnapshot, ReadMessage, TypeOK
  <2>3. Served(k) /\ Registered' = Registered
    BY <1>0, <2>2 DEF Served, Registered
  <2>4. CASE k = j
    <3>1. ViewOf(k, n)
      BY <1>1, <2>1, <2>2, <2>3
    <3> QED
      BY <1>12, <2>3, <2>4, <3>1, ViewRead
  <2>5. CASE k # j
    <3>1. Feed(k)' = Feed(k)
      BY <2>2, <2>5 DEF Feed, Before
    <3> QED
      BY <1>1, <2>1, <2>2, <2>3, <2>5, <3>1
  <2> QED
    BY <2>4, <2>5
<1>13. ASSUME NEW j \in Conns, RouteRelays(j) \/ \E x \in Nodes : SendRelay(j, x)
       PROVE  ViewOf(k, n)'
  <2>1. ~Owed(n)
    BY <1>0, <1>13, OwedStays
  <2>2. UNCHANGED <<owner, open, handler, clients, queue, down, client, peers, stale, dropped,
                    snapshot>>
    BY <1>13 DEF RouteRelays, SendRelay
  <2>3. Served(k) /\ Registered' = Registered /\ Feed(k)' = Feed(k)
    BY <1>0, <2>2 DEF Served, Registered, Feed, Before
  <2> QED
    BY <1>1, <2>1, <2>2, <2>3
<1> QED
  BY <1>2, <1>3, <1>4, <1>5, <1>6, <1>7, <1>8, <1>9, <1>10, <1>11, <1>12, <1>13
     DEF Next, HandleWS

\* Initially nobody is connected.
LEMMA ViewInit ==
    ASSUME Init
    PROVE  ShapeInv /\ ViewInv
BY DEF Init, ShapeInv, ViewInv, Served

\* What a client believes of another Node when everything sent to it was read and no
\* broadcast is owed is the truth, for any Nodes, any number of connections and any
\* capacities, unless the last message about that Node was dropped for this client
\* or was overtaken before it was broadcast: add takes the snapshot and registers in
\* one critical section, so no change falls between the two.
THEOREM ViewsAreExplained == Spec => []ViewsExplained
<1>1. Init => PresenceInv /\ OpenIsRegistered /\ ShapeInv /\ ViewInv
  <2>1. Init => OpenIsRegistered
    BY DEF Init, OpenIsRegistered
  <2> QED
    BY <2>1, TypeInit, ViewInit
<1>2. PresenceInv /\ OpenIsRegistered /\ ShapeInv /\ ViewInv /\ [Next]_vars
         => (PresenceInv /\ OpenIsRegistered /\ ShapeInv /\ ViewInv)'
  <2> SUFFICES ASSUME PresenceInv, OpenIsRegistered, ShapeInv, ViewInv, [Next]_vars
               PROVE  (PresenceInv /\ OpenIsRegistered /\ ShapeInv /\ ViewInv)'
    OBVIOUS
  <2>1. PresenceInv' /\ OpenIsRegistered'
    BY TypeStep, RegisteredStep
  <2>2. ShapeInv'
    <3>1. KnownAdded' /\ \A k \in Conns : ShapeOf(k)'
      BY KnownStep, ShapeStep
    <3>2. TypeOK' => (ShapeInv' <=> KnownAdded' /\ \A k \in Conns : ShapeOf(k)')
      BY DEF ShapeInv, KnownAdded, Added, ShapeOf, TypeOK
    <3> QED
      BY <2>1, <3>1, <3>2 DEF PresenceInv
  <2>3. ViewInv'
    <3>1. \A k \in Conns, n \in Nodes : FairToTell(k, n)' => ViewOf(k, n)'
      BY ViewStep
    <3> QED
      BY <3>1 DEF ViewInv, FairToTell, ViewOf
  <2> QED
    BY <2>1, <2>2, <2>3
<1>3. PresenceInv /\ ShapeInv /\ ViewInv => ViewsExplained
  <2> SUFFICES ASSUME PresenceInv, ShapeInv, ViewInv, Resting,
                      NEW k \in Conns, NEW n \in Nodes,
                      client[k] = "running", open[k], Delivered(k),
                      n # owner[k], n \notin stale, n \notin dropped[k]
               PROVE  n \in peers[k] <=> n \in Registered
    BY DEF ViewsExplained
  <2>1. Served(k) /\ handler[k] # "snapshot"
    BY DEF ShapeInv, Served, Resting
  <2>2. ~Owed(n)
    BY DEF Owed, Resting
  <2>3. Believes(Feed(k), client[k] = "running", peers[k], n, n \in Registered)
    BY <2>1, <2>2 DEF ViewInv
  <2>4. Feed(k) = <<>> \o <<>>
    BY <2>1 DEF Feed, Before, Delivered
  <2>5. Len(Feed(k)) = 0
    BY <2>4
  <2>6. ~LastSays(Feed(k), n, n \in Registered)
    BY <2>5 DEF LastSays
  <2> QED
    BY <2>3, <2>6 DEF Believes
<1> QED
  BY <1>1, <1>2, <1>3, PTL DEF Spec
=============================================================================
