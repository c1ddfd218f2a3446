------------------------------- MODULE Presence -------------------------------
(***************************************************************************)
(* The signaling server (internal/signalserver) and the clients of the     *)
(* Nodes (internal/signaling): who is registered, what each client is told *)
(* about it, and the relays that share the clients' queues.                *)
(*                                                                         *)
(* A connection is a number: one HandleWS goroutine with its writer at the *)
(* server, one Client with its read loop at a Node. A Node has no code     *)
(* that reconnects; a later connection of the same Node is a restarted     *)
(* process, or a second one with the same identity. Every critical section *)
(* under Server.mu and every use of a socket is one action. Public keys    *)
(* and display names are left out, a relay's payload too. A Client whose   *)
(* socket closes ends at once: what it might still read concerns no one    *)
(* else. The server may still read what such a Client sent.                *)
(***************************************************************************)
EXTENDS Integers, Sequences, FiniteSets

CONSTANTS
    Nodes,        \* the identities
    NoNode,       \* the owner of a connection that was not made yet
    QueueCap,     \* capacity of client.send (32 in the code)
    RelayCap,     \* capacity of Client.relays (32 in the code)
    MaxConns,     \* bound: connections in all
    MaxRelays     \* bound: relays in all

ASSUME PresenceAssumption ==
    /\ NoNode \notin Nodes
    /\ QueueCap \in Nat
    /\ RelayCap \in Nat
    /\ MaxConns \in Nat
    /\ MaxRelays \in Nat

VARIABLES
    lastConn,   \* connections so far
    owner,      \* [Conns -> the Node that registers, client.info]
    open,       \* [Conns -> the socket is open]
    handler,    \* [Conns -> where HandleWS is]
    snapshot,   \* [Conns -> what add returned]
    route,      \* [Conns -> the client that routeRelay looked up, 0 for none]
    clients,    \* Server.clients: [Nodes -> a connection, 0 for none]
    queue,      \* [Conns -> client.send]
    down,       \* [Conns -> messages on the socket, to the Node]
    up,         \* [Conns -> relays on the socket, to the server]
    client,     \* [Conns -> where the Node's Client is]
    peers,      \* [Conns -> Client.peers]
    relays,     \* [Conns -> Client.relays]
    sent,       \* relays so far
    stale,      \* history: Nodes whose last broadcast was not true when it was made
    dropped     \* history: [Conns -> Nodes whose last presence message was dropped]

vars == <<lastConn, owner, open, handler, snapshot, route, clients, queue, down, up,
          client, peers, relays, sent, stale, dropped>>

clientVars == <<client, peers, relays, sent>>

Conns == 1..MaxConns

\* A message: PresenceSnapshot (the others), PresenceJoin and PresenceLeave (of
\* one Node), Relay (From one Node).
Messages == [kind : {"snapshot", "join", "leave", "relay"}, nodes : SUBSET Nodes]

Message(kind, nodes) == [kind |-> kind, nodes |-> nodes]

\* The Nodes the server has a client for.
Registered == {n \in Nodes : clients[n] # 0}

\* The sockets of the connections in K close, and their Clients end.
SocketsClose(K) ==
    /\ open' = [k \in Conns |-> open[k] /\ k \notin K]
    /\ client' = [k \in Conns |-> IF k \in K THEN "ended" ELSE client[k]]
    /\ peers' = [k \in Conns |-> IF k \in K THEN {} ELSE peers[k]]
    /\ down' = [k \in Conns |-> IF k \in K THEN <<>> ELSE down[k]]

-----------------------------------------------------------------------------
\* A Node dials and a HandleWS goroutine starts. The challenge and the Register
\* touch nothing that is shared.
Dial(n) ==
    /\ lastConn < MaxConns
    /\ lastConn' = lastConn + 1
    /\ owner' = [owner EXCEPT ![lastConn + 1] = n]
    /\ open' = [open EXCEPT ![lastConn + 1] = TRUE]
    /\ handler' = [handler EXCEPT ![lastConn + 1] = "register"]
    /\ client' = [client EXCEPT ![lastConn + 1] = "dialing"]
    /\ UNCHANGED <<snapshot, route, clients, queue, down, up, peers, relays, sent, stale, dropped>>

\* The exchange breaks off, or validRegister refuses it: HandleWS closes and returns.
RegisterFails(k) ==
    /\ handler[k] = "register"
    /\ handler' = [handler EXCEPT ![k] = "closed"]
    /\ SocketsClose({k})
    /\ UNCHANGED <<lastConn, owner, snapshot, route, clients, queue, up, relays, sent, stale,
                   dropped>>

\* add: close the connection it supersedes, take the snapshot, register.
Add(k) ==
    /\ handler[k] = "register"
    /\ SocketsClose({clients[owner[k]]})
    /\ snapshot' = [snapshot EXCEPT ![k] = Registered \ {owner[k]}]
    /\ clients' = [clients EXCEPT ![owner[k]] = k]
    /\ handler' = [handler EXCEPT ![k] = "snapshot"]
    /\ UNCHANGED <<lastConn, owner, route, queue, up, relays, sent, stale, dropped>>

\* Bytes are written to the socket of k; on a closed one they are lost.
Written(k, m) == IF open[k] THEN [down EXCEPT ![k] = Append(@, m)] ELSE down

WriteSnapshot(k) ==
    /\ handler[k] = "snapshot"
    /\ down' = Written(k, Message("snapshot", snapshot[k]))
    /\ handler' = [handler EXCEPT ![k] = "join"]
    /\ snapshot' = [snapshot EXCEPT ![k] = {}]
    /\ UNCHANGED <<lastConn, owner, open, route, clients, queue, up, stale, dropped,
                   clientVars>>

\* case c.send <- b
HasRoom(j) == Len(queue[j]) < QueueCap

\* broadcastExcept(n, m) over the clients of the other Nodes; a full channel
\* drops it. The history records whom it missed and whether it was true.
Broadcast(n, m) ==
    LET told == {clients[a] : a \in Registered \ {n}} IN
    /\ queue' = [j \in Conns |-> IF j \in told /\ HasRoom(j) THEN Append(queue[j], m) ELSE queue[j]]
    /\ dropped' = [j \in Conns |-> IF j \notin told THEN dropped[j]
                                   ELSE IF HasRoom(j) THEN dropped[j] \ {n} ELSE dropped[j] \cup {n}]
    /\ stale' = IF (m.kind = "join") = (n \in Registered) THEN stale \ {n} ELSE stale \cup {n}

\* The join broadcast; then the writer starts and the read loop runs.
BroadcastJoin(k) ==
    /\ handler[k] = "join"
    /\ Broadcast(owner[k], Message("join", {owner[k]}))
    /\ handler' = [handler EXCEPT ![k] = "serve"]
    /\ UNCHANGED <<lastConn, owner, open, snapshot, route, clients, down, up, clientVars>>

\* The writer goroutine; on a closed socket it has returned.
Writer(k) ==
    /\ handler[k] \in {"serve", "route"}
    /\ open[k]
    /\ queue[k] # <<>>
    /\ down' = [down EXCEPT ![k] = Append(@, Head(queue[k]))]
    /\ queue' = [queue EXCEPT ![k] = Tail(@)]
    /\ UNCHANGED <<lastConn, owner, open, handler, snapshot, route, clients, up, stale, dropped,
                   clientVars>>

\* routeRelay: look the target up under the lock ...
ReadRelay(k) ==
    /\ handler[k] = "serve"
    /\ up[k] # <<>>
    /\ up' = [up EXCEPT ![k] = Tail(@)]
    /\ route' = [route EXCEPT ![k] = clients[Head(up[k])]]
    /\ handler' = [handler EXCEPT ![k] = IF clients[Head(up[k])] = 0 THEN "serve" ELSE "route"]
    /\ UNCHANGED <<lastConn, owner, open, snapshot, clients, queue, down, stale, dropped,
                   clientVars>>

\* ... and send after the unlock, to whatever client that was.
RouteRelay(k) ==
    /\ handler[k] = "route"
    /\ queue' = IF HasRoom(route[k])
                THEN [queue EXCEPT ![route[k]] = Append(@, Message("relay", {owner[k]}))]
                ELSE queue
    /\ handler' = [handler EXCEPT ![k] = "serve"]
    /\ route' = [route EXCEPT ![k] = 0]
    /\ UNCHANGED <<lastConn, owner, open, snapshot, clients, down, up, stale, dropped, clientVars>>

\* A remove that does not look whose entry it deletes.
RemoveAny(k) ==
    /\ handler[k] = "serve"
    /\ ~open[k]
    /\ clients' = [clients EXCEPT ![owner[k]] = 0]
    /\ handler' = [handler EXCEPT ![k] = "leave"]
    /\ queue' = [queue EXCEPT ![k] = <<>>]
    /\ UNCHANGED <<lastConn, owner, open, snapshot, route, down, up, stale, dropped,
                   clientVars>>

\* A handler that forgets to tell the others.
RemoveSilently(k) ==
    /\ handler[k] = "serve"
    /\ ~open[k]
    /\ clients' = [clients EXCEPT ![owner[k]] = IF @ = k THEN 0 ELSE @]
    /\ handler' = [handler EXCEPT ![k] = "closed"]
    /\ queue' = [queue EXCEPT ![k] = <<>>]
    /\ UNCHANGED <<lastConn, owner, open, snapshot, route, down, up, stale, dropped,
                   clientVars>>

\* A read loop that goes on when a read fails.
ReadOn(k) ==
    /\ handler[k] = "serve"
    /\ ~open[k]
    /\ UNCHANGED vars

\* The read fails; the deferred remove deletes the entry if it is still its own,
\* and with the writer gone the queue is garbage.
Remove(k) ==
    /\ handler[k] = "serve"
    /\ ~open[k]
    /\ \/ /\ clients[owner[k]] = k
          /\ clients' = [clients EXCEPT ![owner[k]] = 0]
          /\ handler' = [handler EXCEPT ![k] = "leave"]
       \/ /\ clients[owner[k]] # k
          /\ handler' = [handler EXCEPT ![k] = "closed"]
          /\ UNCHANGED clients
    /\ queue' = [queue EXCEPT ![k] = <<>>]
    /\ UNCHANGED <<lastConn, owner, open, snapshot, route, down, up, stale, dropped,
                   clientVars>>

BroadcastLeave(k) ==
    /\ handler[k] = "leave"
    /\ Broadcast(owner[k], Message("leave", {owner[k]}))
    /\ handler' = [handler EXCEPT ![k] = "closed"]
    /\ UNCHANGED <<lastConn, owner, open, snapshot, route, clients, down, up, clientVars>>

-----------------------------------------------------------------------------
\* The Node's Client

\* Dial returns: the peers are those of the snapshot, and the read loop starts.
ReadSnapshot(k) ==
    /\ client[k] = "dialing"
    /\ down[k] # <<>>
    /\ peers' = [peers EXCEPT ![k] = Head(down[k]).nodes]
    /\ client' = [client EXCEPT ![k] = "running"]
    /\ down' = [down EXCEPT ![k] = Tail(@)]
    /\ UNCHANGED <<lastConn, owner, open, handler, snapshot, route, clients, queue, up, relays,
                   sent, stale, dropped>>

\* readLoop: a join, a leave, or a relay, for which it waits while the channel is
\* full.
ReadMessage(k) ==
    /\ client[k] = "running"
    /\ down[k] # <<>>
    /\ LET m == Head(down[k]) IN
          \/ /\ m.kind = "join"
             /\ peers' = [peers EXCEPT ![k] = @ \cup m.nodes]
             /\ UNCHANGED relays
          \/ /\ m.kind = "leave"
             /\ peers' = [peers EXCEPT ![k] = @ \ m.nodes]
             /\ UNCHANGED relays
          \/ /\ m.kind = "relay"
             /\ Len(relays[k]) < RelayCap
             /\ relays' = [relays EXCEPT ![k] = Append(@, m)]
             /\ UNCHANGED peers
    /\ down' = [down EXCEPT ![k] = Tail(@)]
    /\ UNCHANGED <<lastConn, owner, open, handler, snapshot, route, clients, queue, up, client,
                   sent, stale, dropped>>

\* Node.routeRelays takes the next one.
RouteRelays(k) ==
    /\ relays[k] # <<>>
    /\ relays' = [relays EXCEPT ![k] = Tail(@)]
    /\ UNCHANGED <<lastConn, owner, open, handler, snapshot, route, clients, queue, down, up,
                   client, peers, sent, stale, dropped>>

\* SendRelay
SendRelay(k, n) ==
    /\ client[k] = "running"
    /\ open[k]
    /\ n # owner[k]
    /\ sent < MaxRelays
    /\ sent' = sent + 1
    /\ up' = [up EXCEPT ![k] = Append(@, n)]
    /\ UNCHANGED <<lastConn, owner, open, handler, snapshot, route, clients, queue, down, client,
                   peers, relays, stale, dropped>>

\* The Node closes its Client, crashes, or loses the connection: a read fails, Dial
\* returns an error or readLoop returns.
Disconnect(k) ==
    /\ open[k]
    /\ SocketsClose({k})
    /\ UNCHANGED <<lastConn, owner, handler, snapshot, route, clients, queue, up, relays, sent,
                   stale, dropped>>

-----------------------------------------------------------------------------
Init ==
    /\ lastConn = 0
    /\ owner = [k \in Conns |-> NoNode]
    /\ open = [k \in Conns |-> FALSE]
    /\ handler = [k \in Conns |-> "none"]
    /\ snapshot = [k \in Conns |-> {}]
    /\ route = [k \in Conns |-> 0]
    /\ clients = [n \in Nodes |-> 0]
    /\ queue = [k \in Conns |-> <<>>]
    /\ down = [k \in Conns |-> <<>>]
    /\ up = [k \in Conns |-> <<>>]
    /\ client = [k \in Conns |-> "none"]
    /\ peers = [k \in Conns |-> {}]
    /\ relays = [k \in Conns |-> <<>>]
    /\ sent = 0
    /\ stale = {}
    /\ dropped = [k \in Conns |-> {}]

HandleWS(k) ==
    \/ Add(k)
    \/ WriteSnapshot(k)
    \/ BroadcastJoin(k)
    \/ ReadRelay(k)
    \/ RouteRelay(k)
    \/ Remove(k)
    \/ BroadcastLeave(k)

ReadLoop(k) == ReadSnapshot(k) \/ ReadMessage(k)

Next ==
    \/ \E n \in Nodes : Dial(n)
    \/ \E k \in Conns :
          \/ RegisterFails(k)
          \/ HandleWS(k)
          \/ Writer(k)
          \/ ReadLoop(k)
          \/ RouteRelays(k)
          \/ \E n \in Nodes : SendRelay(k, n)
          \/ Disconnect(k)

Spec == Init /\ [][Next]_vars

\* The goroutines run; nobody has to dial, send or disconnect.
Fairness ==
    \A k \in Conns :
        /\ WF_vars(HandleWS(k))
        /\ WF_vars(Writer(k))
        /\ WF_vars(ReadLoop(k))
        /\ WF_vars(RouteRelays(k))

FairSpec == Spec /\ Fairness

-----------------------------------------------------------------------------
\* Type invariant. The channels keep their capacities.
TypeOK ==
    /\ lastConn \in 0..MaxConns
    /\ owner \in [Conns -> Nodes \cup {NoNode}]
    /\ open \in [Conns -> BOOLEAN]
    /\ handler \in [Conns -> {"none", "register", "snapshot", "join", "serve", "route", "leave",
                              "closed"}]
    /\ snapshot \in [Conns -> SUBSET Nodes]
    /\ route \in [Conns -> Conns \cup {0}]
    /\ clients \in [Nodes -> Conns \cup {0}]
    /\ queue \in [Conns -> Seq(Messages)]
    /\ down \in [Conns -> Seq(Messages)]
    /\ up \in [Conns -> Seq(Nodes)]
    /\ client \in [Conns -> {"none", "dialing", "running", "ended"}]
    /\ peers \in [Conns -> SUBSET Nodes]
    /\ relays \in [Conns -> Seq(Messages)]
    /\ sent \in 0..MaxRelays
    /\ stale \subseteq Nodes
    /\ dropped \in [Conns -> SUBSET Nodes]
    /\ \A k \in Conns : Len(queue[k]) <= QueueCap /\ Len(relays[k]) <= RelayCap

\* An open connection that finished its registration is the one relays and
\* presence go to: whatever older connections of the same Node still have to clean
\* up, they leave the newest one alone.
OpenIsRegistered ==
    \A k \in Conns :
        open[k] /\ handler[k] \in {"snapshot", "join", "serve", "route"} => clients[owner[k]] = k

\* No handler owes the others a broadcast.
Resting == \A k \in Conns : handler[k] \notin {"snapshot", "join", "route", "leave"}

Delivered(k) == queue[k] = <<>> /\ down[k] = <<>>

\* Client.Peers, "a snapshot of currently-online Nodes", can be wrong about a Node
\* for two reasons only: the last message about it was dropped for this client, or
\* the last broadcast about it was overtaken by a reconnection (the registry
\* is changed and the change is broadcast in two steps). In particular a client
\* that registers between the two is told the truth.
ViewsExplained ==
    Resting =>
        \A k \in Conns, n \in Nodes :
            /\ client[k] = "running" /\ open[k] /\ Delivered(k)
            /\ n # owner[k] /\ n \notin stale /\ n \notin dropped[k]
            => (n \in peers[k] <=> n \in Registered)

\* Liveness: once nobody connects, disconnects or sends any more, every connection
\* that is gone is unregistered, the others were told, and every client has read
\* what it was told.
Converges ==
    <>[](/\ Resting
         /\ \A n \in Registered : open[clients[n]]
         /\ \A k \in Conns : client[k] = "running" /\ open[k] => Delivered(k))
=============================================================================
