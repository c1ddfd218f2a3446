----------------------------- MODULE PartySync -----------------------------
(***************************************************************************)
(* Watch-party playback sync: the Host engine (internal/party/host.go),    *)
(* the Viewer engine (internal/party/viewer.go), and the goroutines of     *)
(* internal/app/party.go and internal/peer that connect them: the          *)
(* heartbeat loop, the JoinParty handler of each session, and each         *)
(* Viewer's control-channel read loop racing its own JoinParty call.       *)
(*                                                                         *)
(* One party is modelled, from StartParty on. Every critical section       *)
(* under Host.mu or Viewer.mu is one action; what the code does between    *)
(* two critical sections is a program counter. A control channel is        *)
(* ordered and reliable in each direction. The wire conversion of a State  *)
(* (toWireState, fromWireState) keeps the three fields modelled here; rate *)
(* is constant 1.0 in host.go, and party_id is never read by the Viewer.   *)
(***************************************************************************)
EXTENDS Integers, Sequences

CONSTANTS
    Viewers,       \* nodes that may join the party
    Positions,     \* media positions the Host player can be moved to, or report
    SeekDebounce,  \* Config.SeekDebounce, in clock units
    MaxOWD,        \* Config.MaxOWDMS, in clock units
    RTTs,          \* round trips a Ping may measure
    MaxNow,        \* bound: the clock stops here
    MaxSeq,        \* bound: playback changes the Host user makes
    MaxJoins,      \* bound: JoinParty calls per Viewer
    MaxDrops,      \* bound: transient disconnects per Viewer
    MaxBacklog     \* bound: messages in a control channel

ASSUME ClockAssumption ==
    /\ SeekDebounce \in Nat
    /\ MaxOWD \in Nat
    /\ MaxNow \in Nat
    /\ RTTs \subseteq Nat

ASSUME PositionAssumption == Positions \subseteq Int

ASSUME BoundAssumption ==
    /\ MaxSeq \in Nat
    /\ MaxJoins \in Nat
    /\ MaxDrops \in Nat
    /\ MaxBacklog \in Nat

VARIABLES
    now,        \* the clock every goroutine reads
    host,       \* the Host engine's fields
    hb,         \* the heartbeat goroutine
    handler,    \* [Viewers -> JoinParty handler of the Host's session with a Viewer]
    toHost,     \* [Viewers -> control messages on their way to the Host]
    toViewer,   \* [Viewers -> control messages on their way to a Viewer]
    joiner,     \* [Viewers -> the Viewer's own JoinParty call]
    engine,     \* [Viewers -> the Viewer engine (partyCoordinator.viewer)]
    joins,      \* [Viewers -> JoinParty calls made so far]
    drops       \* [Viewers -> transient disconnects so far]

vars == <<now, host, hb, handler, toHost, toViewer, joiner, engine, joins, drops>>

-----------------------------------------------------------------------------
\* Types of the state

States == [playing : BOOLEAN, pos : Int, seq : Nat]

\* The zero State; also "no state yet" in a program counter's local variable.
NoState == [playing |-> FALSE, pos |-> 0, seq |-> 0]

\* slip is a history field, not one of host.go's: how far the reports since the
\* last numbered change have moved the position back, counted from the moment
\* after which they moved it back most.
HostEngines ==
    [playing : BOOLEAN, pos : Int, sampledAt : Nat, seq : Nat,
     scrubbing : BOOLEAN, pendingSeek : Int, lastSeekInput : Nat,
     audience : SUBSET Viewers, slip : Nat]

HeartbeatStates ==
    [pc : {"wait", "snapshot", "members", "send"}, at : Nat, st : States,
     todo : SUBSET Viewers]

ViewerEngines ==
    [live : BOOLEAN, haveState : BOOLEAN, last : States, recvAt : Nat, owd : Nat]

\* partyCoordinator.viewer = nil
NoEngine == [live |-> FALSE, haveState |-> FALSE, last |-> NoState,
             recvAt |-> 0, owd |-> 0]

Messages == [kind : {"state", "welcome"}, st : States]

-----------------------------------------------------------------------------
\* The Host engine

\* NewHost: paused at 0, sampled now, nobody in the Audience.
NewHost(t) ==
    [playing |-> FALSE, pos |-> 0, sampledAt |-> t, seq |-> 0,
     scrubbing |-> FALSE, pendingSeek |-> 0, lastSeekInput |-> 0,
     audience |-> {}, slip |-> 0]

\* The Host position interpolated to time t.
Interpolated(h, t) == IF h.playing THEN h.pos + (t - h.sampledAt) ELSE h.pos

\* Snapshot: during a scrub, paused at the latest scrub target; the seq is the
\* current one in both cases.
Snapshot(h, t) ==
    IF h.scrubbing
    THEN [playing |-> FALSE, pos |-> h.pendingSeek, seq |-> h.seq]
    ELSE [playing |-> h.playing, pos |-> Interpolated(h, t), seq |-> h.seq]

\* A new playback state: anchored at t, no scrub in progress, numbered.
\* pendingSeek and lastSeekInput are read only while scrubbing; once the scrub
\* is over the model forgets them.
Anchor(h, play, p, t) ==
    [playing |-> play, pos |-> p, sampledAt |-> t, seq |-> h.seq + 1,
     scrubbing |-> FALSE, pendingSeek |-> 0, lastSeekInput |-> 0,
     audience |-> h.audience, slip |-> 0]

\* The critical section of Tick: commit a seek that has settled.
Settled(h, t) == h.scrubbing /\ t - h.lastSeekInput >= SeekDebounce

\* Faulty variant of CommitSeek: the committed seek keeps the old number.
CommitSeekUnnumbered(h, t) ==
    IF Settled(h, t)
    THEN [Anchor(h, h.playing, h.pendingSeek, t) EXCEPT !.seq = h.seq]
    ELSE h

CommitSeek(h, t) ==
    IF Settled(h, t) THEN Anchor(h, h.playing, h.pendingSeek, t) ELSE h

\* Player events arriving over the Host's loopback WebSocket (serveHostWS).
OnPlay(p) ==
    /\ host.seq < MaxSeq
    /\ host' = Anchor(host, TRUE, p, now)
    /\ UNCHANGED <<now, hb, handler, toHost, toViewer, joiner, engine, joins, drops>>

OnPause(p) ==
    /\ host.seq < MaxSeq
    /\ host' = Anchor(host, FALSE, p, now)
    /\ UNCHANGED <<now, hb, handler, toHost, toViewer, joiner, engine, joins, drops>>

\* A seek only arms the debounce; the heartbeat's Tick commits it. The bounds
\* leave it the time and the number to settle.
OnSeek(p) ==
    /\ host.seq < MaxSeq
    /\ now + SeekDebounce <= MaxNow
    /\ host' = [host EXCEPT !.scrubbing = TRUE, !.pendingSeek = p,
                            !.lastSeekInput = now]
    /\ UNCHANGED <<now, hb, handler, toHost, toViewer, joiner, engine, joins, drops>>

\* The history field after a report that trails the interpolated position by
\* lag: the worst loss over any run of reports that ends with this one.
Slipped(slip, lag) == IF slip + lag < 0 THEN 0 ELSE slip + lag

\* A periodic report re-anchors the position and keeps the seq, wherever the
\* player is: one that has stalled, at the live edge of its own transcode,
\* reports a position behind the interpolated one.
OnReport(p) ==
    /\ ~host.scrubbing
    /\ host' = [host EXCEPT !.pos = p, !.sampledAt = now,
                            !.slip = Slipped(@, Interpolated(host, now) - p)]
    /\ UNCHANGED <<now, hb, handler, toHost, toViewer, joiner, engine, joins, drops>>

-----------------------------------------------------------------------------
\* The heartbeat goroutine

\* The ticker fires: Tick's critical section, with the time read once.
HeartbeatTick ==
    /\ hb.pc = "wait"
    /\ hb' = [hb EXCEPT !.pc = "snapshot", !.at = now]
    /\ host' = CommitSeek(host, now)
    /\ UNCHANGED <<now, handler, toHost, toViewer, joiner, engine, joins, drops>>

\* Tick has unlocked; Snapshot locks again.
HeartbeatSnapshot ==
    /\ hb.pc = "snapshot"
    /\ hb' = [hb EXCEPT !.pc = "members", !.st = Snapshot(host, hb.at)]
    /\ UNCHANGED <<now, host, handler, toHost, toViewer, joiner, engine, joins, drops>>

\* Members locks a third time.
HeartbeatMembers ==
    /\ hb.pc = "members"
    /\ hb' = [hb EXCEPT !.pc = IF host.audience = {} THEN "wait" ELSE "send",
                        !.st = IF host.audience = {} THEN NoState ELSE @,
                        !.at = 0,
                        !.todo = host.audience]
    /\ UNCHANGED <<now, host, handler, toHost, toViewer, joiner, engine, joins, drops>>

\* One sendTo of the loop over the Audience, in map order.
HeartbeatSend(v) ==
    /\ hb.pc = "send"
    /\ v \in hb.todo
    /\ Len(toViewer[v]) < MaxBacklog
    /\ toViewer' = [toViewer EXCEPT ![v] = Append(@, [kind |-> "state", st |-> hb.st])]
    /\ hb' = IF hb.todo = {v}
             THEN [hb EXCEPT !.pc = "wait", !.st = NoState, !.todo = {}]
             ELSE [hb EXCEPT !.todo = @ \ {v}]
    /\ UNCHANGED <<now, host, handler, toHost, joiner, engine, joins, drops>>

-----------------------------------------------------------------------------
\* The Host's side of a session: one read loop per Viewer runs its handlers

\* OnJoinParty up to Join.
HandleJoin(v) ==
    /\ handler[v].pc = "read"
    /\ toHost[v] # <<>>
    /\ Head(toHost[v]) = "join"
    /\ toHost' = [toHost EXCEPT ![v] = Tail(@)]
    /\ host' = [host EXCEPT !.audience = @ \cup {v}]
    /\ handler' = [handler EXCEPT ![v].pc = "snapshot"]
    /\ UNCHANGED <<now, hb, toViewer, joiner, engine, joins, drops>>

\* OnJoinParty's Snapshot for the welcome.
HandlerSnapshot(v) ==
    /\ handler[v].pc = "snapshot"
    /\ handler' = [handler EXCEPT ![v] = [pc |-> "send", st |-> Snapshot(host, now)]]
    /\ UNCHANGED <<now, host, hb, toHost, toViewer, joiner, engine, joins, drops>>

\* handleJoinParty sends the PartyWelcome.
SendWelcome(v) ==
    /\ handler[v].pc = "send"
    /\ Len(toViewer[v]) < MaxBacklog
    /\ toViewer' = [toViewer EXCEPT ![v] =
                        Append(@, [kind |-> "welcome", st |-> handler[v].st])]
    /\ handler' = [handler EXCEPT ![v] = [pc |-> "read", st |-> NoState]]
    /\ UNCHANGED <<now, host, hb, toHost, joiner, engine, joins, drops>>

\* OnLeaveParty, from a LeaveParty message.
HandleLeave(v) ==
    /\ handler[v].pc = "read"
    /\ toHost[v] # <<>>
    /\ Head(toHost[v]) = "leave"
    /\ toHost' = [toHost EXCEPT ![v] = Tail(@)]
    /\ host' = [host EXCEPT !.audience = @ \ {v}]
    /\ UNCHANGED <<now, hb, handler, toViewer, joiner, engine, joins, drops>>

\* OnLeaveParty, from the connection-state callback: a Disconnected state that
\* ICE later repairs drops the Viewer from the Audience, and nobody tells it.
OnConnectionStateChange(v) ==
    /\ v \in host.audience
    /\ drops[v] < MaxDrops
    /\ drops' = [drops EXCEPT ![v] = @ + 1]
    /\ host' = [host EXCEPT !.audience = @ \ {v}]
    /\ UNCHANGED <<now, hb, handler, toHost, toViewer, joiner, engine, joins>>

-----------------------------------------------------------------------------
\* The Viewer

\* Faulty variants of OnState: a staleness test that lets an equal number through,
\* and one that is off by one the other way.
OnStateEqualPasses(e, s, t) ==
    IF e.haveState /\ s.seq < e.last.seq
    THEN e
    ELSE [e EXCEPT !.haveState = TRUE, !.last = s, !.recvAt = t]

OnStateSkipsNext(e, s, t) ==
    IF e.haveState /\ s.seq <= e.last.seq + 1
    THEN e
    ELSE [e EXCEPT !.haveState = TRUE, !.last = s, !.recvAt = t]

\* Viewer.OnState: a state numbered no higher than the last one is dropped.
OnState(e, s, t) ==
    IF e.haveState /\ s.seq <= e.last.seq
    THEN e
    ELSE [e EXCEPT !.haveState = TRUE, !.last = s, !.recvAt = t]

\* partyCoordinator.OnPartyState: without an engine the state is dropped.
OnPartyState(e, s, t) == IF e.live THEN OnState(e, s, t) ELSE e

\* Faulty variant of OneWayDelay: the cap is forgotten.
OneWayDelayUncapped(rtt) == rtt \div 2

\* Viewer.OnRTT: half the round trip, capped.
OneWayDelay(rtt) == IF rtt \div 2 > MaxOWD THEN MaxOWD ELSE rtt \div 2

\* Viewer.expectedHostPosLocked.
ExpectedHostPos(e, t) ==
    IF e.last.playing THEN e.last.pos + e.owd + (t - e.recvAt) ELSE e.last.pos

\* The JoinParty call sends its request and waits for the welcome.
JoinParty(v) ==
    /\ joiner[v].pc = "idle"
    /\ joins[v] < MaxJoins
    /\ joins' = [joins EXCEPT ![v] = @ + 1]
    /\ toHost' = [toHost EXCEPT ![v] = Append(@, "join")]
    /\ joiner' = [joiner EXCEPT ![v].pc = "waiting"]
    /\ UNCHANGED <<now, host, hb, handler, toViewer, engine, drops>>

\* The read loop delivers the welcome to the waiting call.
DeliverWelcome(v) ==
    /\ toViewer[v] # <<>>
    /\ Head(toViewer[v]).kind = "welcome"
    /\ joiner' = [joiner EXCEPT ![v] = [pc |-> "welcomed", st |-> Head(toViewer[v]).st]]
    /\ toViewer' = [toViewer EXCEPT ![v] = Tail(@)]
    /\ UNCHANGED <<now, host, hb, handler, toHost, engine, joins, drops>>

\* The call wakes: beginViewer installs a fresh engine.
BeginViewer(v) ==
    /\ joiner[v].pc = "welcomed"
    /\ engine' = [engine EXCEPT ![v] = [NoEngine EXCEPT !.live = TRUE]]
    /\ joiner' = [joiner EXCEPT ![v].pc = "begun"]
    /\ UNCHANGED <<now, host, hb, handler, toHost, toViewer, joins, drops>>

\* The call ends with OnPartyState on the welcome's initial state, which the
\* read loop may have overtaken with newer states since beginViewer.
ApplyInitial(v) ==
    /\ joiner[v].pc = "begun"
    /\ engine' = [engine EXCEPT ![v] = OnPartyState(@, joiner[v].st, now)]
    /\ joiner' = [joiner EXCEPT ![v] = [pc |-> "idle", st |-> NoState]]
    /\ UNCHANGED <<now, host, hb, handler, toHost, toViewer, joins, drops>>

\* The read loop handles a heartbeat.
DeliverState(v) ==
    /\ toViewer[v] # <<>>
    /\ Head(toViewer[v]).kind = "state"
    /\ engine' = [engine EXCEPT ![v] = OnPartyState(@, Head(toViewer[v]).st, now)]
    /\ toViewer' = [toViewer EXCEPT ![v] = Tail(@)]
    /\ UNCHANGED <<now, host, hb, handler, toHost, joiner, joins, drops>>

\* refreshViewerRTT.
OnRTT(v, rtt) ==
    /\ engine[v].live
    /\ engine' = [engine EXCEPT ![v].owd = OneWayDelay(rtt)]
    /\ UNCHANGED <<now, host, hb, handler, toHost, toViewer, joiner, joins, drops>>

\* LeaveParty drops the engine and tells the Host, in one step here: that a re-join
\* can overtake the message, which is sent after the unlock, is in HostRoom.
LeaveParty(v) ==
    /\ engine[v].live
    /\ engine' = [engine EXCEPT ![v] = NoEngine]
    /\ toHost' = [toHost EXCEPT ![v] = Append(@, "leave")]
    /\ UNCHANGED <<now, host, hb, handler, toViewer, joiner, joins, drops>>

-----------------------------------------------------------------------------
ClockAdvances ==
    /\ now < MaxNow
    /\ now' = now + 1
    /\ UNCHANGED <<host, hb, handler, toHost, toViewer, joiner, engine, joins, drops>>

Init ==
    /\ now = 0
    /\ host = NewHost(0)
    /\ hb = [pc |-> "wait", at |-> 0, st |-> NoState, todo |-> {}]
    /\ handler = [v \in Viewers |-> [pc |-> "read", st |-> NoState]]
    /\ toHost = [v \in Viewers |-> <<>>]
    /\ toViewer = [v \in Viewers |-> <<>>]
    /\ joiner = [v \in Viewers |-> [pc |-> "idle", st |-> NoState]]
    /\ engine = [v \in Viewers |-> NoEngine]
    /\ joins = [v \in Viewers |-> 0]
    /\ drops = [v \in Viewers |-> 0]

HostUser ==
    \E p \in Positions : OnPlay(p) \/ OnPause(p) \/ OnSeek(p) \/ OnReport(p)

Heartbeat ==
    \/ HeartbeatTick
    \/ HeartbeatSnapshot
    \/ HeartbeatMembers
    \/ \E v \in Viewers : HeartbeatSend(v)

HostSession(v) ==
    \/ HandleJoin(v)
    \/ HandlerSnapshot(v)
    \/ SendWelcome(v)
    \/ HandleLeave(v)

ReadLoop(v) == DeliverWelcome(v) \/ DeliverState(v)

JoinCall(v) == BeginViewer(v) \/ ApplyInitial(v)

ViewerUser(v) ==
    \/ JoinParty(v)
    \/ LeaveParty(v)
    \/ \E rtt \in RTTs : OnRTT(v, rtt)
    \/ OnConnectionStateChange(v)

Next ==
    \/ ClockAdvances
    \/ HostUser
    \/ Heartbeat
    \/ \E v \in Viewers :
          HostSession(v) \/ ReadLoop(v) \/ JoinCall(v) \/ ViewerUser(v)

Spec == Init /\ [][Next]_vars

\* Goroutines that are runnable run, tickers fire, time passes. Nothing is
\* assumed of the users, of RTT samples or of disconnects.
Fairness ==
    /\ WF_vars(ClockAdvances)
    /\ WF_vars(Heartbeat)
    /\ \A v \in Viewers :
          /\ WF_vars(HostSession(v))
          /\ WF_vars(ReadLoop(v))
          /\ WF_vars(JoinCall(v))

FairSpec == Spec /\ Fairness

-----------------------------------------------------------------------------
\* Type invariant: every field of the two engines, the goroutines' local
\* variables and the channels stays in the set the Go types and the protocol
\* give it.
TypeOK ==
    /\ now \in Nat
    /\ host \in HostEngines
    /\ hb \in HeartbeatStates
    /\ handler \in [Viewers -> [pc : {"read", "snapshot", "send"}, st : States]]
    /\ toHost \in [Viewers -> Seq({"join", "leave"})]
    /\ toViewer \in [Viewers -> Seq(Messages)]
    /\ joiner \in [Viewers -> [pc : {"idle", "waiting", "welcomed", "begun"},
                               st : States]]
    /\ engine \in [Viewers -> ViewerEngines]
    /\ joins \in [Viewers -> Nat]
    /\ drops \in [Viewers -> Nat]

\* A Viewer whose last state carries the Host's current seq agrees with the
\* Host on play/pause whenever the Host user is not scrubbing: the "hold"
\* snapshots that Host.Snapshot emits under an unchanged seq, from the
\* heartbeat or from a welcome, can never outlive the scrub, because OnPlay,
\* OnPause and Tick all renumber when they end one.
Agreement ==
    \A v \in Viewers :
        (engine[v].haveState /\ engine[v].last.seq = host.seq /\ ~host.scrubbing)
            => engine[v].last.playing = host.playing

\* How far a Viewer on the current seq runs ahead of the Host: what
\* expectedHostPosLocked extrapolates from recvAt, against what Host.Snapshot
\* would interpolate, is too far ahead by more than a margin.
Outruns(v, margin) ==
    /\ engine[v].haveState /\ engine[v].last.seq = host.seq /\ ~host.scrubbing
    /\ ExpectedHostPos(engine[v], now) > Interpolated(host, now) + margin

\* A Viewer that follows the current seq never believes the Host to be further
\* ahead than the cap on the one-way-delay estimate and what a stalled Host has
\* lost since: whatever the delivery delay was, only OnReport, which moves the
\* anchor back without a seq, can leave a Viewer past MaxOWDMS, and by no more
\* than it moved the anchor. (The heartbeats that carry the stall have the seq
\* the Viewer already has, and viewer.go:31 drops them.)
NoOutrun == \A v \in Viewers : ~Outruns(v, MaxOWD + host.slip)

\* A live Viewer engine never goes back: its state is replaced only by one
\* with a higher seq, although the welcome's initial state and the heartbeats
\* are applied by two goroutines in either order.
SeqNeverGoesBack ==
    [][\A v \in Viewers :
          (engine[v].haveState /\ engine'[v].haveState /\ engine'[v].last # engine[v].last)
              => engine'[v].last.seq > engine[v].last.seq]_vars

\* Liveness: a Viewer that stays in the Audience with a live engine ends up on
\* the Host's latest playback change, however the change, its join and the
\* heartbeat loop interleaved.
MembersCatchUp ==
    \A v \in Viewers :
        <>[](v \in host.audience /\ engine[v].live)
            => <>[](/\ engine[v].haveState
                    /\ engine[v].last.seq = host.seq
                    /\ engine[v].last.playing = host.playing)

\* What the comment in Host.Snapshot says ("Hold viewers during a scrub:
\* report paused at the latest scrub target"): once a Viewer has been handed a
\* heartbeat that was taken during the scrub still going on, it is paused.
ScrubHoldsViewers ==
    [][\A v \in Viewers :
          (/\ toViewer[v] # <<>>
           /\ toViewer'[v] = Tail(toViewer[v])
           /\ Head(toViewer[v]).kind = "state"
           /\ Head(toViewer[v]).st = Snapshot(host, now)
           /\ host.scrubbing
           /\ engine[v].live)
              => ~engine'[v].last.playing]_vars

-----------------------------------------------------------------------------
\* The promise this protocol implements: the state a Viewer follows is its
\* engine's last one.
Followed(e) ==
    IF e.haveState THEN [seq |-> e.last.seq, playing |-> e.last.playing]
                   ELSE [seq |-> -1, playing |-> FALSE]

Promise == INSTANCE PartyStatePromise WITH
               published <- host.seq,
               playing   <- host.playing,
               held      <- host.scrubbing,
               following <- [v \in Viewers |-> Followed(engine[v])]

\* The sync protocol implements PartyStatePromise: each step of the Host, the
\* heartbeat, the handlers and the Viewers publishes, holds, follows, resets or
\* changes nothing a user of the protocol can see.
PromiseKept == Promise!Spec
=============================================================================
