----------------------------- MODULE ViewerSeat -----------------------------
(***************************************************************************)
(* The Viewer side of a Node's partyCoordinator (internal/app/party.go):   *)
(* which Watch Party the Node views, the Viewer engine it feeds and the    *)
(* swarm session (with its gossip goroutine) it keeps for it.              *)
(*                                                                         *)
(* JoinParty and LeaveParty run on the goroutines of UI requests,          *)
(* OnPartyState and OnPartyEnded on the read loop of each Host's control   *)
(* channel, close at shutdown. Each critical section under pc.mu is one    *)
(* action, and what a call does after its unlock is another. A Viewer      *)
(* engine and a swarm session are named by the JoinParty call that makes   *)
(* them. What Hosts send, and when, is left open.                          *)
(***************************************************************************)
EXTENDS Integers

CONSTANTS
    Hosts,      \* the Nodes that may host
    NoHost,     \* pc.viewerHost = ""
    Calls,      \* concurrent UI requests
    MaxJoins    \* bound: JoinParty calls in all

ASSUME HostAssumption == NoHost \notin Hosts

ASSUME BoundAssumption == MaxJoins \in Nat

VARIABLES
    viewer,      \* pc.viewer: the join that made it, 0 for nil
    viewerHost,  \* pc.viewerHost
    swarm,       \* pc.swarm: the join that made it, 0 for nil
    hostOf,      \* [joins -> the Host joined]
    heard,       \* [joins -> the Hosts whose state its engine was fed]
    started,     \* sessions whose gossipLoop was started
    closes,      \* [joins -> calls of its session's close]
    joins,       \* JoinParty calls so far
    call,        \* [Calls -> a UI request in progress]
    reader,      \* [Hosts -> what its read loop is handling]
    shut,        \* pc.close: "no", "closing" (session in hand) or "done"
    inHand,      \* the session pc.close is about to close
    dropped      \* history: sessions LeaveParty forgot without closing

vars == <<viewer, viewerHost, swarm, hostOf, heard, started, closes, joins, call, reader,
          shut, inHand, dropped>>

Joins == 1..MaxJoins

-----------------------------------------------------------------------------
\* Types of the state

CallStates ==
    [pc : {"idle", "rpc", "begun", "closeOld", "start", "initial", "feed", "closeLeft"},
     n : Joins \cup {0},        \* the JoinParty call
     held : Joins \cup {0}]     \* the session to close, or the engine to feed

IdleCall == [pc |-> "idle", n |-> 0, held |-> 0]

ReaderStates == [pc : {"idle", "feed", "close"}, held : Joins \cup {0}]

IdleReader == [pc |-> "idle", held |-> 0]

-----------------------------------------------------------------------------
\* Closing a session: close(ss.stop), which panics the second time.
Close(n) ==
    closes' = IF n = 0 THEN closes ELSE [closes EXCEPT ![n] = @ + 1]

-----------------------------------------------------------------------------
\* JoinParty

\* The request goes out to the Host.
JoinParty(c, h) ==
    /\ call[c].pc = "idle"
    /\ joins < MaxJoins
    /\ joins' = joins + 1
    /\ hostOf' = [hostOf EXCEPT ![joins + 1] = h]
    /\ call' = [call EXCEPT ![c] = [pc |-> "rpc", n |-> joins + 1, held |-> 0]]
    /\ UNCHANGED <<viewer, viewerHost, swarm, heard, started, closes, reader, shut, inHand,
                   dropped>>

\* The Host refuses, or the request is given up.
JoinFails(c) ==
    /\ call[c].pc = "rpc"
    /\ call' = [call EXCEPT ![c] = IdleCall]
    /\ UNCHANGED <<viewer, viewerHost, swarm, hostOf, heard, started, closes, joins, reader,
                   shut, inHand, dropped>>

\* PartyWelcome: beginViewer seats a fresh engine.
BeginViewer(c) ==
    /\ call[c].pc = "rpc"
    /\ viewer' = call[c].n
    /\ viewerHost' = hostOf[call[c].n]
    /\ call' = [call EXCEPT ![c] = [@ EXCEPT !.pc = "begun"]]
    /\ UNCHANGED <<swarm, hostOf, heard, started, closes, joins, reader, shut, inHand,
                   dropped>>

\* A faulty variant: the old session is overwritten.
InstallSwarmForgets(c) ==
    /\ call[c].pc = "begun"
    /\ swarm' = call[c].n
    /\ call' = [call EXCEPT ![c] = [@ EXCEPT !.pc = "closeOld"]]
    /\ UNCHANGED <<viewer, viewerHost, hostOf, heard, started, closes, joins, reader, shut,
                   inHand, dropped>>

\* The new swarm session replaces the old one, taken in hand.
InstallSwarm(c) ==
    /\ call[c].pc = "begun"
    /\ swarm' = call[c].n
    /\ call' = [call EXCEPT ![c] = [@ EXCEPT !.pc = "closeOld", !.held = swarm]]
    /\ UNCHANGED <<viewer, viewerHost, hostOf, heard, started, closes, joins, reader, shut,
                   inHand, dropped>>

CloseOld(c) ==
    /\ call[c].pc = "closeOld"
    /\ Close(call[c].held)
    /\ call' = [call EXCEPT ![c] = [@ EXCEPT !.pc = "start", !.held = 0]]
    /\ UNCHANGED <<viewer, viewerHost, swarm, hostOf, heard, started, joins, reader, shut,
                   inHand, dropped>>

\* setPeers from the welcome's Audience, then the gossip goroutine starts.
StartSwarm(c) ==
    /\ call[c].pc = "start"
    /\ started' = started \cup {call[c].n}
    /\ call' = [call EXCEPT ![c] = [@ EXCEPT !.pc = "initial"]]
    /\ UNCHANGED <<viewer, viewerHost, swarm, hostOf, heard, closes, joins, reader, shut,
                   inHand, dropped>>

\* A faulty variant of EngineFor: whoever sent it.
EngineForAnyone(h) == IF viewer # 0 THEN viewer ELSE 0

\* The engine OnPartyState feeds: the present one if the state is from its Host.
EngineFor(h) == IF viewer # 0 /\ h = viewerHost THEN viewer ELSE 0

\* v.OnState.
Feed(n, h) ==
    heard' = IF n = 0 THEN heard ELSE [heard EXCEPT ![n] = @ \cup {h}]

\* The welcome's initial state: OnPartyState reads the engine under the lock...
ReadInitial(c) ==
    /\ call[c].pc = "initial"
    /\ call' = [call EXCEPT ![c] = [@ EXCEPT !.pc = "feed",
                                             !.held = EngineFor(hostOf[call[c].n])]]
    /\ UNCHANGED <<viewer, viewerHost, swarm, hostOf, heard, started, closes, joins, reader,
                   shut, inHand, dropped>>

\* ...and feeds it after the unlock. JoinParty returns.
FeedInitial(c) ==
    /\ call[c].pc = "feed"
    /\ Feed(call[c].held, hostOf[call[c].n])
    /\ call' = [call EXCEPT ![c] = IdleCall]
    /\ UNCHANGED <<viewer, viewerHost, swarm, hostOf, started, closes, joins, reader, shut,
                   inHand, dropped>>

-----------------------------------------------------------------------------
\* LeaveParty

\* The seat is cleared. Without a viewer the call returns, the session cleared
\* with the seat but never closed; otherwise it is closed after LeaveParty was
\* sent to the Host.
LeaveParty(c) ==
    /\ call[c].pc = "idle"
    /\ viewer' = 0
    /\ viewerHost' = NoHost
    /\ swarm' = 0
    /\ \/ /\ viewer = 0
          /\ dropped' = dropped \cup ({swarm} \ {0})
          /\ UNCHANGED call
       \/ /\ viewer # 0
          /\ call' = [call EXCEPT ![c] = [pc |-> "closeLeft", n |-> 0, held |-> swarm]]
          /\ UNCHANGED dropped
    /\ UNCHANGED <<hostOf, heard, started, closes, joins, reader, shut, inHand>>

CloseLeft(c) ==
    /\ call[c].pc = "closeLeft"
    /\ Close(call[c].held)
    /\ call' = [call EXCEPT ![c] = IdleCall]
    /\ UNCHANGED <<viewer, viewerHost, swarm, hostOf, heard, started, joins, reader, shut,
                   inHand, dropped>>

-----------------------------------------------------------------------------
\* The read loop of a Host's control channel

OnPartyState(h) ==
    /\ reader[h].pc = "idle"
    /\ EngineFor(h) # 0
    /\ reader' = [reader EXCEPT ![h] = [pc |-> "feed", held |-> EngineFor(h)]]
    /\ UNCHANGED <<viewer, viewerHost, swarm, hostOf, heard, started, closes, joins, call,
                   shut, inHand, dropped>>

FeedState(h) ==
    /\ reader[h].pc = "feed"
    /\ Feed(reader[h].held, h)
    /\ reader' = [reader EXCEPT ![h] = IdleReader]
    /\ UNCHANGED <<viewer, viewerHost, swarm, hostOf, started, closes, joins, call, shut,
                   inHand, dropped>>

\* A faulty variant: the session stays in the seat.
OnPartyEndedKeepsSwarm(h) ==
    /\ reader[h].pc = "idle"
    /\ h = viewerHost
    /\ viewer' = 0
    /\ viewerHost' = NoHost
    /\ reader' = [reader EXCEPT ![h] = [pc |-> "close", held |-> swarm]]
    /\ UNCHANGED <<swarm, hostOf, heard, started, closes, joins, call, shut, inHand, dropped>>

\* PartyEnded from the Host being viewed clears the seat; from any other Node it
\* changes nothing.
OnPartyEnded(h) ==
    /\ reader[h].pc = "idle"
    /\ h = viewerHost
    /\ viewer' = 0
    /\ viewerHost' = NoHost
    /\ swarm' = 0
    /\ reader' = [reader EXCEPT ![h] = [pc |-> "close", held |-> swarm]]
    /\ UNCHANGED <<hostOf, heard, started, closes, joins, call, shut, inHand, dropped>>

CloseEnded(h) ==
    /\ reader[h].pc = "close"
    /\ Close(reader[h].held)
    /\ reader' = [reader EXCEPT ![h] = IdleReader]
    /\ UNCHANGED <<viewer, viewerHost, swarm, hostOf, heard, started, joins, call, shut,
                   inHand, dropped>>

-----------------------------------------------------------------------------
\* Shutdown: pc.close takes the session, then closes it.

ShutDown ==
    /\ shut = "no"
    /\ shut' = "closing"
    /\ inHand' = swarm
    /\ swarm' = 0
    /\ UNCHANGED <<viewer, viewerHost, hostOf, heard, started, closes, joins, call, reader,
                   dropped>>

CloseAtShutDown ==
    /\ shut = "closing"
    /\ shut' = "done"
    /\ Close(inHand)
    /\ inHand' = 0
    /\ UNCHANGED <<viewer, viewerHost, swarm, hostOf, heard, started, joins, call, reader,
                   dropped>>

-----------------------------------------------------------------------------
Init ==
    /\ viewer = 0
    /\ viewerHost = NoHost
    /\ swarm = 0
    /\ hostOf = [n \in Joins |-> NoHost]
    /\ heard = [n \in Joins |-> {}]
    /\ started = {}
    /\ closes = [n \in Joins |-> 0]
    /\ joins = 0
    /\ call = [c \in Calls |-> IdleCall]
    /\ reader = [h \in Hosts |-> IdleReader]
    /\ shut = "no"
    /\ inHand = 0
    /\ dropped = {}

CallStep(c) ==
    \/ \E h \in Hosts : JoinParty(c, h)
    \/ JoinFails(c)
    \/ BeginViewer(c)
    \/ InstallSwarm(c)
    \/ CloseOld(c)
    \/ StartSwarm(c)
    \/ ReadInitial(c)
    \/ FeedInitial(c)
    \/ LeaveParty(c)
    \/ CloseLeft(c)

ReaderStep(h) ==
    \/ OnPartyState(h)
    \/ FeedState(h)
    \/ OnPartyEnded(h)
    \/ CloseEnded(h)

Next ==
    \/ \E c \in Calls : CallStep(c)
    \/ \E h \in Hosts : ReaderStep(h)
    \/ ShutDown
    \/ CloseAtShutDown

Spec == Init /\ [][Next]_vars

-----------------------------------------------------------------------------
\* Type invariant: the seat, the calls and the read loops name joins that were
\* made, or nothing.
TypeOK ==
    /\ viewer \in Joins \cup {0}
    /\ viewerHost \in Hosts \cup {NoHost}
    /\ swarm \in Joins \cup {0}
    /\ hostOf \in [Joins -> Hosts \cup {NoHost}]
    /\ heard \in [Joins -> SUBSET Hosts]
    /\ started \subseteq Joins
    /\ closes \in [Joins -> Nat]
    /\ joins \in Joins \cup {0}
    /\ call \in [Calls -> CallStates]
    /\ reader \in [Hosts -> ReaderStates]
    /\ shut \in {"no", "closing", "done"}
    /\ inHand \in Joins \cup {0}
    /\ dropped \subseteq Joins

\* No session is closed twice: four paths close sessions (a re-join, LeaveParty,
\* PartyEnded, shutdown) after they released pc.mu, and a second
\* close(ss.stop) panics the Node.
ClosedOnce == \A n \in Joins : closes[n] <= 1

\* The session is in some hand: the seat's, or that of a call, a read loop or the
\* shutdown that is about to close it.
Held(n) ==
    \/ swarm = n
    \/ inHand = n
    \/ \E c \in Calls : call[c].pc \in {"closeOld", "closeLeft"} /\ call[c].held = n
    \/ \E h \in Hosts : reader[h].pc = "close" /\ reader[h].held = n

\* A gossip goroutine that runs belongs to the seat or is about to be stopped,
\* however joins, leaves, PartyEnded and shutdown interleave, except after the
\* one path that loses it: LeaveParty with a session and no viewer.
LoopsHeld == \A n \in started : closes[n] = 0 => Held(n) \/ n \in dropped

\* A Viewer engine is only ever fed the state of the Host it was made for, even
\* when the state was read for an engine that is replaced before it is fed.
EngineHearsItsHost == \A n \in Joins : heard[n] \subseteq {hostOf[n]}
=============================================================================
