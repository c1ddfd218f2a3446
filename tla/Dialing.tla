------------------------------ MODULE Dialing -------------------------------
(***************************************************************************)
(* How an edge between two Nodes comes up (app/node.go, peer/session.go,   *)
(* peer/binding.go, peer/relay.go): the table of sessions, Dial and the    *)
(* mesh's ensurePeer with its dial nudges, the offer and the answer that   *)
(* travel as signed relays over the signaling server, and the handshake.   *)
(*                                                                         *)
(* routeRelays is one goroutine per Node: while it gathers candidates for  *)
(* an answer it handles no other relay. Dial inserts its session under     *)
(* n.mu and negotiates after that, so an offer of the other Node can find  *)
(* the session first. A session stays in the table for as long as the      *)
(* process runs, whatever became of its connection.                        *)
(*                                                                         *)
(* The mesh follows the glare rule: the lower NodeID dials. The API's      *)
(* calls (Browse, JoinParty, ...) do not: whoever calls dials.             *)
(***************************************************************************)
EXTENDS Naturals, Sequences, FiniteSets

CONSTANTS
    Nodes,       \* NodeIDs, as numbers: only their order matters
    Wants,       \* <<n, m>>: n's swarm session keeps asking for m
    MaxHand,     \* bound: API calls that dial
    MaxFaults    \* bound: faults of the network, the server or a process

ASSUME DialingAssumption ==
    /\ Nodes \subseteq Nat /\ IsFiniteSet(Nodes)
    /\ Wants \subseteq {e \in Nodes \X Nodes : e[1] # e[2]}
    /\ {MaxHand, MaxFaults} \subseteq Nat

Edges == {e \in Nodes \X Nodes : e[1] # e[2]}

VARIABLES
    sess,      \* n.sessions: for an edge <<n, m>>, n's session with m
    wired,     \* SetCatalog and SetMedia have run
    looked,    \* Dial calls under way that saw no session
    inbox,     \* client.Relays() of each Node
    router,    \* the edge whose answer routeRelays is gathering
    epoch,     \* how often each process was started
    hand, faults,
    byHand,    \* auxiliary: edges whose session an API call made
    offers,    \* auxiliary: offers each session has sent
    trouble    \* auxiliary: edges a fault has hit, see Hit
faultVars == <<faults, trouble>>
vars == <<sess, wired, looked, inbox, router, epoch, hand, faultVars, byHand, offers>>

-----------------------------------------------------------------------------
\* The parts of the state

\* sdp: how far the negotiation is; start: Start(true) is still to run; met:
\* the epoch of the Node whose description is set, signer: who signed it.
Sessions ==
    [sdp : {"none", "fresh", "gathering", "offered", "answering", "stable"}, start : BOOLEAN,
     met : Nat, signer : Nodes \cup {0}, ready : BOOLEAN, dead : BOOLEAN, handler : BOOLEAN]

NoSession == [sdp |-> "none", start |-> FALSE, met |-> 0, signer |-> 0, ready |-> FALSE,
              dead |-> FALSE, handler |-> FALSE]

\* from: the sender the server names; by: who signed it.
Relays == [from : Nodes, kind : {"offer", "answer", "dial"}, by : Nodes, epoch : Nat]

Relay(n, kind) == [from |-> n, kind |-> kind, by |-> n, epoch |-> epoch[n]]

\* SendRelay.
Send(n, m, kind) == inbox' = [inbox EXCEPT ![m] = Append(@, Relay(n, kind))]

Has(e) == sess[e].sdp # "none"

Back(e) == <<e[2], e[1]>>

\* Both ends hold each other's current description.
Linked(e) ==
    /\ sess[e].sdp = "stable" /\ sess[Back(e)].sdp = "stable"
    /\ sess[e].met = epoch[e[2]] /\ sess[Back(e)].met = epoch[e[1]]
    /\ ~sess[e].dead /\ ~sess[Back(e)].dead

Up(e) == Linked(e) /\ sess[e].ready /\ sess[Back(e)].ready

Init ==
    /\ sess = [e \in Edges |-> NoSession]
    /\ wired = {}
    /\ looked = {}
    /\ inbox = [n \in Nodes |-> <<>>]
    /\ router = [n \in Nodes |-> <<>>]
    /\ epoch = [n \in Nodes |-> 1]
    /\ hand = 0
    /\ faults = 0
    /\ byHand = {}
    /\ offers = [e \in Edges |-> 0]
    /\ trouble = {}

\* SetCatalog's loop over the sessions there are.
Rewired(n, e) == e[1] = n /\ Has(e)

\* SetCatalog and SetMedia, in NewNode's wake: routeRelays may be ahead of them.
SetCatalog(n) ==
    /\ n \notin wired
    /\ wired' = wired \cup {n}
    /\ sess' = [e \in Edges |-> IF Rewired(n, e) THEN [sess[e] EXCEPT !.handler = TRUE] ELSE sess[e]]
    /\ UNCHANGED <<looked, inbox, router, epoch, hand, faultVars, byHand, offers>>

-----------------------------------------------------------------------------
\* Dialing

\* Faulty variant of ShouldDial: whoever needs the edge dials.
ShouldDialAlways(n, m) == TRUE

\* Faulty variant of ShouldDial: compares the Node with itself.
ShouldDialSelf(n, m) == n < n

\* shouldDial: the glare rule.
ShouldDial(n, m) == n < m

\* ensurePeer, for peerSession of the gossip and of pulls: dials, or asks the
\* other Node to. It is called again and again; one nudge at a time is enough.
EnsurePeer(e) ==
    /\ e \in Wants /\ ~Has(e)
    /\ IF ShouldDial(e[1], e[2])
         THEN looked' = looked \cup {<<e, "mesh">>} /\ UNCHANGED inbox
         ELSE /\ \A i \in DOMAIN inbox[e[2]] : inbox[e[2]][i] # Relay(e[1], "dial")
              /\ Send(e[1], e[2], "dial")
              /\ UNCHANGED looked
    /\ UNCHANGED <<sess, wired, router, epoch, hand, faultVars, byHand, offers>>

\* session(), for an API call: no session, so it will Dial.
Session(e) ==
    /\ hand < MaxHand /\ ~Has(e)
    /\ hand' = hand + 1
    /\ looked' = looked \cup {<<e, "hand">>}
    /\ UNCHANGED <<sess, wired, inbox, router, epoch, faultVars, byHand, offers>>

\* sessionFor, under n.mu: the session in the table, or a new one.
SessionFor(e) ==
    IF Has(e) THEN sess[e]
    ELSE [NoSession EXCEPT !.sdp = "fresh", !.handler = e[1] \in wired]

\* Faulty variant of Drives: an existing session is offered again.
DrivesAlways(e) == TRUE

\* Dial drives the offer only for a session it created.
Drives(e) == ~Has(e)

\* Dial: sessionFor; Start comes after it.
Dial(e, c) ==
    /\ <<e, c>> \in looked
    /\ looked' = looked \ {<<e, c>>}
    /\ sess' = [sess EXCEPT ![e] = [SessionFor(e) EXCEPT !.start = Drives(e) \/ sess[e].start]]
    /\ byHand' = IF c = "hand" /\ ~Has(e) THEN byHand \cup {e} ELSE byHand
    /\ UNCHANGED <<wired, inbox, router, epoch, hand, faultVars, offers>>

\* SetLocalDescription of an offer fails while an answer is being made.
LocalOffer(sdp) == IF sdp = "answering" THEN sdp ELSE "gathering"

\* Start(true) sets the local offer and gathers, or returns the error: the
\* session then goes on as the answerer.
Start(e) ==
    /\ sess[e].start
    /\ sess' = [sess EXCEPT ![e].start = FALSE, ![e].sdp = LocalOffer(@)]
    /\ UNCHANGED <<wired, looked, inbox, router, epoch, hand, faultVars, byHand, offers>>

\* Gathered: the offer is signed and sent.
SendOffer(e) ==
    /\ sess[e].sdp = "gathering"
    /\ sess' = [sess EXCEPT ![e].sdp = "offered"]
    /\ Send(e[1], e[2], "offer")
    /\ offers' = [offers EXCEPT ![e] = @ + 1]
    /\ UNCHANGED <<wired, looked, router, epoch, hand, faultVars, byHand>>

-----------------------------------------------------------------------------
\* routeRelays

\* The next relay of Node n is of this kind, and the goroutine is free.
NextIs(n, kind) == router[n] = <<>> /\ inbox[n] # <<>> /\ Head(inbox[n]).kind = kind

\* A dial nudge: acted on by the lower NodeID.
RouteDial(n) ==
    /\ NextIs(n, "dial")
    /\ inbox' = [inbox EXCEPT ![n] = Tail(@)]
    /\ LET m == Head(inbox[n]).from IN
       looked' = IF ShouldDial(n, m) THEN looked \cup {<<<<n, m>>, "mesh">>} ELSE looked
    /\ UNCHANGED <<sess, wired, router, epoch, hand, faultVars, byHand, offers>>

\* Faulty variant of Verified: the relay's sender is believed.
VerifiedNever(s) == TRUE

\* HandleSignal and VerifySignal: the signer is the session's remote.
Verified(s) == s.by = s.from

\* An offer of a restarted process, on a session whose DTLS transport was started
\* with the certificate of the one before it: it is answered and never connects.
OtherProcess(r, s) == r.sdp = "stable" /\ r.met # s.epoch

\* An offer. SetRemoteDescription takes it unless an offer of this Node's own
\* is out; the answer's candidates are then gathered, without a timeout.
RouteOffer(n) ==
    LET s == Head(inbox[n])
        e == <<n, s.from>>
        takes == Verified(s) /\ SessionFor(e).sdp \in {"fresh", "stable"}
    IN
    /\ NextIs(n, "offer")
    /\ inbox' = [inbox EXCEPT ![n] = Tail(@)]
    /\ sess' = [sess EXCEPT ![e] =
                 IF takes THEN [SessionFor(e) EXCEPT !.sdp = "answering", !.met = s.epoch, !.signer = s.by,
                                                     !.dead = @ \/ OtherProcess(SessionFor(e), s)]
                 ELSE SessionFor(e)]
    /\ router' = IF takes THEN [router EXCEPT ![n] = e] ELSE router
    /\ UNCHANGED <<wired, looked, epoch, hand, faultVars, byHand, offers>>

\* Gathered: the answer is sent, and routeRelays goes on.
SendAnswer(n) ==
    /\ router[n] # <<>>
    /\ sess' = [sess EXCEPT ![router[n]].sdp = "stable"]
    /\ Send(n, router[n][2], "answer")
    /\ router' = [router EXCEPT ![n] = <<>>]
    /\ UNCHANGED <<wired, looked, epoch, hand, faultVars, byHand, offers>>

\* An answer: only a session whose offer is out takes it.
RouteAnswer(n) ==
    LET s == Head(inbox[n])
        e == <<n, s.from>>
    IN
    /\ NextIs(n, "answer")
    /\ inbox' = [inbox EXCEPT ![n] = Tail(@)]
    /\ sess' = [sess EXCEPT ![e] =
                 IF Verified(s) /\ SessionFor(e).sdp = "offered"
                   THEN [sess[e] EXCEPT !.sdp = "stable", !.met = s.epoch, !.signer = s.by]
                   ELSE SessionFor(e)]
    /\ UNCHANGED <<wired, looked, router, epoch, hand, faultVars, byHand, offers>>

\* The channel is open and the other Node's Handshake is in.
Handshake(e) ==
    /\ Linked(e) /\ ~sess[e].ready
    /\ sess' = [sess EXCEPT ![e].ready = TRUE]
    /\ UNCHANGED <<wired, looked, inbox, router, epoch, hand, faultVars, byHand, offers>>

-----------------------------------------------------------------------------
\* Faults

Hit(edges) == trouble' = trouble \cup edges \cup {Back(e) : e \in edges}

\* Start's context ends before the candidates are gathered: the offer never goes.
GatherTimeout(e) ==
    /\ sess[e].sdp = "gathering"
    /\ faults < MaxFaults
    /\ faults' = faults + 1
    /\ sess' = [sess EXCEPT ![e].sdp = "offered"]
    /\ Hit({e})
    /\ UNCHANGED <<wired, looked, inbox, router, epoch, hand, byHand, offers>>

\* The server drops a relay. A lost nudge is repeated.
Lose(n) ==
    /\ inbox[n] # <<>>
    /\ faults < MaxFaults
    /\ faults' = faults + 1
    /\ inbox' = [inbox EXCEPT ![n] = Tail(@)]
    /\ LET s == Head(inbox[n]) IN IF s.kind = "dial" THEN UNCHANGED trouble ELSE Hit({<<n, s.from>>})
    /\ UNCHANGED <<sess, wired, looked, router, epoch, hand, byHand, offers>>

\* The server names the wrong sender.
Stray(e, b, kind) ==
    /\ b # e[2]
    /\ faults < MaxFaults
    /\ faults' = faults + 1
    /\ inbox' = [inbox EXCEPT ![e[1]] = Append(@, [Relay(b, kind) EXCEPT !.from = e[2]])]
    /\ Hit({e})
    /\ UNCHANGED <<sess, wired, looked, router, epoch, hand, byHand, offers>>

\* The connection of one end fails, before it was up (no pair of candidates works,
\* the other end's answer is late) or after: OnConnectionStateChange leaves the
\* table alone.
Break(e) ==
    /\ sess[e].sdp \in {"answering", "stable"} /\ ~sess[e].dead
    /\ faults < MaxFaults
    /\ faults' = faults + 1
    /\ sess' = [sess EXCEPT ![e].dead = TRUE]
    /\ Hit({e})
    /\ UNCHANGED <<wired, looked, inbox, router, epoch, hand, byHand, offers>>

\* The edges of the Nodes that hold a session with n, or a signal of its.
Orphaned(n) ==
    {e \in Edges : /\ e[2] = n
                   /\ Has(e) \/ \E i \in DOMAIN inbox[e[1]] :
                                  inbox[e[1]][i].from = n /\ inbox[e[1]][i].kind # "dial"}

\* The process ends (Close, or a crash) and starts again (NewNode): its table
\* and its relays are gone; other Nodes keep what belongs to the old process.
Crash(n) ==
    /\ faults < MaxFaults
    /\ faults' = faults + 1
    /\ epoch' = [epoch EXCEPT ![n] = @ + 1]
    /\ sess' = [e \in Edges |-> IF e[1] = n THEN NoSession ELSE sess[e]]
    /\ wired' = wired \ {n}
    /\ looked' = {d \in looked : d[1][1] # n}
    /\ inbox' = [inbox EXCEPT ![n] = <<>>]
    /\ router' = [router EXCEPT ![n] = <<>>]
    /\ byHand' = {e \in byHand : e[1] # n}
    /\ offers' = [e \in Edges |-> IF e[1] = n THEN 0 ELSE offers[e]]
    /\ Hit(Orphaned(n))
    /\ UNCHANGED hand

-----------------------------------------------------------------------------
Routing(n) == RouteDial(n) \/ RouteOffer(n) \/ SendAnswer(n) \/ RouteAnswer(n)

Negotiating(e) == Start(e) \/ SendOffer(e) \/ Handshake(e)

Calling(e) == \E c \in {"mesh", "hand"} : Dial(e, c)

Fault ==
    \/ \E n \in Nodes : Lose(n) \/ Crash(n)
    \/ \E e \in Edges :
         \/ GatherTimeout(e) \/ Break(e)
         \/ \E b \in Nodes, kind \in {"offer", "answer"} : Stray(e, b, kind)

Next ==
    \/ \E n \in Nodes : SetCatalog(n) \/ Routing(n)
    \/ \E e \in Edges : EnsurePeer(e) \/ Session(e) \/ Calling(e) \/ Negotiating(e)
    \/ Fault

Spec == Init /\ [][Next]_vars

\* Goroutines run, candidates are gathered, and the gossip loop asks again for
\* a peer it has no session with; nobody has to call the API. The loop does so as
\* long as it is not stuck in the Ping of another edge whose connection is dead.
Fairness ==
    /\ \A n \in Nodes : WF_vars(SetCatalog(n)) /\ WF_vars(Routing(n))
    /\ \A e \in Edges : WF_vars(EnsurePeer(e)) /\ WF_vars(Calling(e)) /\ WF_vars(Negotiating(e))

FairSpec == Spec /\ Fairness

-----------------------------------------------------------------------------
\* Properties

\* Type invariant: the session tables, the relays on their way, the dialing calls and
\* the counters hold what their Go types and the protocol give them.
TypeOK ==
    /\ sess \in [Edges -> Sessions]
    /\ wired \in SUBSET Nodes
    /\ looked \in SUBSET (Edges \X {"mesh", "hand"})
    /\ inbox \in [Nodes -> Seq(Relays)]
    /\ router \in [Nodes -> Edges \cup {<<>>}]
    /\ \A n \in Nodes : router[n] # <<>> => router[n][1] = n /\ sess[router[n]].sdp = "answering"
    /\ epoch \in [Nodes -> Nat \ {0}]
    /\ hand \in 0..MaxHand /\ faults \in 0..MaxFaults
    /\ byHand \in SUBSET Edges
    /\ offers \in [Edges -> Nat]
    /\ trouble \in SUBSET Edges

\* Dial: "concurrent Dials never re-negotiate": however many Dials and nudges
\* race, a session sends one offer.
OneOffer == \A e \in Edges : offers[e] <= 1

\* The glare rule: two ends offer to each other only if an API call made the
\* session of the higher NodeID; the mesh alone never does it, also against a
\* session that an API call made at the lower end.
GlareOnlyByHand ==
    \A e \in Edges : (offers[e] > 0 /\ offers[Back(e)] > 0 /\ e[1] > e[2]) => e \in byHand

\* HandleSignal: what is set on a session was signed by the Node the session is
\* with, whatever sender the signaling server named.
SignedByRemote == \A e \in Edges : sess[e].signer \in {0, e[2]}

\* An edge the mesh wants comes up - unless both ends offered (an API call
\* against the glare rule) or a fault hit it: a signal was lost or handed over
\* under a wrong name, gathering timed out, the connection failed, or the other
\* process restarted under a session that is still in the table. Nothing
\* replaces a session, so none of these is repaired.
EdgeComesUp ==
    \A e \in Wants : []<>(Up(e) \/ e \in trouble \/ (offers[e] > 0 /\ offers[Back(e)] > 0))
=============================================================================
