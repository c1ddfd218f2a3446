-------------------------- MODULE PartySyncProofs --------------------------
(***************************************************************************)
(* Proofs about PartySync, for every set of Viewers and every value of the *)
(* bounds: type correctness, agreement on play/pause, the bound on how far *)
(* a Viewer can believe the Host to be ahead, and that the protocol        *)
(* implements PartyStatePromise.                                           *)
(***************************************************************************)
EXTENDS PartySync, SequenceTheorems, TLAPS

-----------------------------------------------------------------------------
\* The inductive invariant

\* What is true at time t of every copy of a Host snapshot, wherever it is: it
\* is not from the future, and if it carries the current seq while the Host is
\* not being scrubbed then it has the Host's play flag and is ahead of it by no
\* more than reports have moved the Host back.
Known(h, t, s) ==
    /\ s.seq <= h.seq
    /\ s.seq = h.seq /\ ~h.scrubbing =>
          /\ s.playing = h.playing
          /\ s.pos <= Interpolated(h, t) + h.slip

\* The same of a Viewer engine, whose copy keeps moving after it was applied.
Extrapolated(e, t) ==
    IF e.last.playing THEN e.last.pos + (t - e.recvAt) ELSE e.last.pos

EngineKnown(h, t, e) ==
    e.haveState =>
        /\ e.last.seq <= h.seq
        /\ e.last.seq = h.seq /\ ~h.scrubbing =>
              /\ e.last.playing = h.playing
              /\ Extrapolated(e, t) <= Interpolated(h, t) + h.slip

\* The copies: in the heartbeat goroutine, in a JoinParty handler, in a control
\* channel, in a JoinParty call, in an engine.
HeartbeatKnown(h, t) == hb.pc \in {"members", "send"} => Known(h, t, hb.st)
HandlerKnown(h, t) ==
    \A v \in Viewers : handler[v].pc = "send" => Known(h, t, handler[v].st)
ChannelKnown(h, t) ==
    \A v \in Viewers : \A i \in 1..Len(toViewer[v]) : Known(h, t, toViewer[v][i].st)
JoinerKnown(h, t) ==
    \A v \in Viewers :
        joiner[v].pc \in {"welcomed", "begun"} => Known(h, t, joiner[v].st)
EnginesKnown(h, t) == \A v \in Viewers : EngineKnown(h, t, engine[v])

\* Times read earlier are not later than now, and the delay estimate is capped.
ClocksOrdered ==
    /\ hb.at <= now
    /\ host.sampledAt <= now
    /\ \A v \in Viewers : engine[v].recvAt <= now /\ engine[v].owd <= MaxOWD

SyncInv ==
    /\ TypeOK
    /\ ClocksOrdered
    /\ HeartbeatKnown(host, now)
    /\ HandlerKnown(host, now)
    /\ ChannelKnown(host, now)
    /\ JoinerKnown(host, now)
    /\ EnginesKnown(host, now)

-----------------------------------------------------------------------------
\* Type correctness

\* A snapshot of a Host engine is a State, at any time.
LEMMA SnapshotType ==
    ASSUME NEW h \in HostEngines, NEW t \in Nat
    PROVE  Snapshot(h, t) \in States
BY DEF Snapshot, Interpolated, HostEngines, States

\* Renumbering a Host engine keeps it one.
LEMMA AnchorType ==
    ASSUME NEW h \in HostEngines, NEW play \in BOOLEAN, NEW p \in Int, NEW t \in Nat
    PROVE  Anchor(h, play, p, t) \in HostEngines
BY DEF Anchor, HostEngines

\* Applying a State to a Viewer engine keeps it one.
LEMMA OnPartyStateType ==
    ASSUME NEW e \in ViewerEngines, NEW s \in States, NEW t \in Nat
    PROVE  OnPartyState(e, s, t) \in ViewerEngines
BY DEF OnPartyState, OnState, ViewerEngines

LEMMA NoStateType == NoState \in States
BY DEF NoState, States

LEMMA NoEngineType ==
    /\ NoEngine \in ViewerEngines
    /\ [NoEngine EXCEPT !.live = TRUE] \in ViewerEngines
BY NoStateType DEF NoEngine, ViewerEngines

\* The two engines a Viewer can start from have no state and no delay estimate.
LEMMA FreshEngine ==
    \A e \in {NoEngine, [NoEngine EXCEPT !.live = TRUE]} :
        ~e.haveState /\ e.recvAt = 0 /\ e.owd = 0
BY DEF NoEngine

\* The goroutines of PartySync keep every variable in its type.
LEMMA TypeInit == Init => TypeOK
BY NoStateType, NoEngineType
DEF Init, TypeOK, NewHost, HostEngines, HeartbeatStates

LEMMA TypeStep == TypeOK /\ [Next]_vars => TypeOK'
<1> SUFFICES ASSUME TypeOK, [Next]_vars PROVE TypeOK'
  OBVIOUS
<1> USE ClockAssumption, PositionAssumption
<1>1. CASE ClockAdvances
  BY <1>1 DEF ClockAdvances, TypeOK
<1>2. ASSUME NEW p \in Positions, OnPlay(p) PROVE TypeOK'
  BY <1>2, AnchorType DEF OnPlay, TypeOK
<1>3. ASSUME NEW p \in Positions, OnPause(p) PROVE TypeOK'
  BY <1>3, AnchorType DEF OnPause, TypeOK
<1>4. ASSUME NEW p \in Positions, OnSeek(p) PROVE TypeOK'
  BY <1>4 DEF OnSeek, TypeOK, HostEngines
<1>5. ASSUME NEW p \in Positions, OnReport(p) PROVE TypeOK'
  <2>1. Slipped(host.slip, Interpolated(host, now) - p) \in Nat
    <3>1. host.slip \in Nat /\ host.pos \in Int /\ host.sampledAt \in Nat /\ now \in Nat
      BY DEF TypeOK, HostEngines
    <3>2. p \in Int
      OBVIOUS
    <3>3. Interpolated(host, now) \in Int
      BY <3>1 DEF Interpolated
    <3> QED BY <3>1, <3>2, <3>3 DEF Slipped
  <2>2. host' \in HostEngines
    BY <1>5, <2>1 DEF OnReport, TypeOK, HostEngines
  <2> QED BY <1>5, <2>2 DEF OnReport, TypeOK
<1>6. CASE HeartbeatTick
  <2>1. host' \in HostEngines
    BY <1>6, AnchorType DEF HeartbeatTick, CommitSeek, TypeOK, HostEngines
  <2>2. hb' \in HeartbeatStates
    BY <1>6 DEF HeartbeatTick, TypeOK, HeartbeatStates
  <2> QED BY <1>6, <2>1, <2>2 DEF HeartbeatTick, TypeOK
<1>7. CASE HeartbeatSnapshot
  <2>1. Snapshot(host, hb.at) \in States
    BY SnapshotType DEF TypeOK, HeartbeatStates
  <2>2. hb' \in HeartbeatStates
    BY <1>7, <2>1 DEF HeartbeatSnapshot, TypeOK, HeartbeatStates
  <2> QED BY <1>7, <2>2 DEF HeartbeatSnapshot, TypeOK
<1>8. CASE HeartbeatMembers
  <2>1. hb' \in HeartbeatStates
    BY <1>8, NoStateType DEF HeartbeatMembers, TypeOK, HeartbeatStates, HostEngines
  <2> QED BY <1>8, <2>1 DEF HeartbeatMembers, TypeOK
<1>9. ASSUME NEW v \in Viewers, HeartbeatSend(v) PROVE TypeOK'
  <2>1. hb' \in HeartbeatStates
    BY <1>9, NoStateType DEF HeartbeatSend, TypeOK, HeartbeatStates
  <2>2. [kind |-> "state", st |-> hb.st] \in Messages
    BY DEF TypeOK, HeartbeatStates, Messages
  <2>3. toViewer' \in [Viewers -> Seq(Messages)]
    BY <1>9, <2>2 DEF HeartbeatSend, TypeOK
  <2> QED BY <1>9, <2>1, <2>3 DEF HeartbeatSend, TypeOK
<1>10. ASSUME NEW v \in Viewers, HandleJoin(v) PROVE TypeOK'
  <2>1. host' \in HostEngines
    BY <1>10 DEF HandleJoin, TypeOK, HostEngines
  <2>2. toHost[v] \in Seq({"join", "leave"}) /\ toHost[v] # <<>>
    BY <1>10 DEF HandleJoin, TypeOK
  <2>3. Tail(toHost[v]) \in Seq({"join", "leave"})
    BY <2>2, HeadTailProperties
  <2> QED BY <1>10, <2>1, <2>3 DEF HandleJoin, TypeOK
<1>11. ASSUME NEW v \in Viewers, HandlerSnapshot(v) PROVE TypeOK'
  BY <1>11, SnapshotType DEF HandlerSnapshot, TypeOK
<1>12. ASSUME NEW v \in Viewers, SendWelcome(v) PROVE TypeOK'
  <2>1. [kind |-> "welcome", st |-> handler[v].st] \in Messages
    BY DEF TypeOK, Messages
  <2> QED BY <1>12, <2>1, NoStateType DEF SendWelcome, TypeOK
<1>13. ASSUME NEW v \in Viewers, HandleLeave(v) PROVE TypeOK'
  <2>1. host' \in HostEngines
    BY <1>13 DEF HandleLeave, TypeOK, HostEngines
  <2>2. toHost[v] \in Seq({"join", "leave"}) /\ toHost[v] # <<>>
    BY <1>13 DEF HandleLeave, TypeOK
  <2>3. Tail(toHost[v]) \in Seq({"join", "leave"})
    BY <2>2, HeadTailProperties
  <2> QED BY <1>13, <2>1, <2>3 DEF HandleLeave, TypeOK
<1>14. ASSUME NEW v \in Viewers, OnConnectionStateChange(v) PROVE TypeOK'
  <2>1. host' \in HostEngines
    BY <1>14 DEF OnConnectionStateChange, TypeOK, HostEngines
  <2> QED BY <1>14, <2>1 DEF OnConnectionStateChange, TypeOK
<1>15. ASSUME NEW v \in Viewers, JoinParty(v) PROVE TypeOK'
  <2>1. Append(toHost[v], "join") \in Seq({"join", "leave"})
    BY AppendProperties DEF TypeOK
  <2>2. toHost' \in [Viewers -> Seq({"join", "leave"})]
    BY <1>15, <2>1 DEF JoinParty, TypeOK
  <2>3. joins' \in [Viewers -> Nat]
    BY <1>15 DEF JoinParty, TypeOK
  <2>4. joiner' \in [Viewers -> [pc : {"idle", "waiting", "welcomed", "begun"},
                                  st : States]]
    BY <1>15 DEF JoinParty, TypeOK
  <2> QED BY <1>15, <2>2, <2>3, <2>4 DEF JoinParty, TypeOK
<1>16. ASSUME NEW v \in Viewers, DeliverWelcome(v) PROVE TypeOK'
  <2>1. Head(toViewer[v]) \in Messages /\ Tail(toViewer[v]) \in Seq(Messages)
    BY <1>16, HeadTailProperties DEF DeliverWelcome, TypeOK
  <2>2. Head(toViewer[v]).st \in States
    BY <2>1 DEF Messages
  <2> QED BY <1>16, <2>1, <2>2 DEF DeliverWelcome, TypeOK
<1>17. ASSUME NEW v \in Viewers, BeginViewer(v) PROVE TypeOK'
  BY <1>17, NoEngineType DEF BeginViewer, TypeOK
<1>18. ASSUME NEW v \in Viewers, ApplyInitial(v) PROVE TypeOK'
  BY <1>18, OnPartyStateType, NoStateType DEF ApplyInitial, TypeOK
<1>19. ASSUME NEW v \in Viewers, DeliverState(v) PROVE TypeOK'
  <2>1. Head(toViewer[v]) \in Messages /\ Tail(toViewer[v]) \in Seq(Messages)
    BY <1>19, HeadTailProperties DEF DeliverState, TypeOK
  <2>2. Head(toViewer[v]).st \in States
    BY <2>1 DEF Messages
  <2> QED BY <1>19, <2>1, <2>2, OnPartyStateType DEF DeliverState, TypeOK
<1>20. ASSUME NEW v \in Viewers, NEW rtt \in RTTs, OnRTT(v, rtt) PROVE TypeOK'
  <2>1. OneWayDelay(rtt) \in Nat
    BY DEF OneWayDelay
  <2> QED BY <1>20, <2>1 DEF OnRTT, TypeOK, ViewerEngines
<1>21. ASSUME NEW v \in Viewers, LeaveParty(v) PROVE TypeOK'
  <2>1. Append(toHost[v], "leave") \in Seq({"join", "leave"})
    BY AppendProperties DEF TypeOK
  <2> QED BY <1>21, <2>1, NoEngineType DEF LeaveParty, TypeOK
<1>22. CASE UNCHANGED vars
  BY <1>22 DEF vars, TypeOK
<1> QED
  BY <1>1, <1>2, <1>3, <1>4, <1>5, <1>6, <1>7, <1>8, <1>9, <1>10, <1>11, <1>12,
     <1>13, <1>14, <1>15, <1>16, <1>17, <1>18, <1>19, <1>20, <1>21, <1>22
  DEF Next, HostUser, Heartbeat, HostSession, ReadLoop, JoinCall, ViewerUser

\* Every reachable state of the Host engine, the Viewer engines, the goroutines
\* between them and the control channels is well typed.
THEOREM TypeCorrect == Spec => []TypeOK
BY TypeInit, TypeStep, PTL DEF Spec
-----------------------------------------------------------------------------
\* How the Host moves

\* One step of the Host, or of the clock: a new number, or the same number with
\* the same play flag, scrubbing at most begun, and a position that has moved
\* back by no more than slip says.
Evolves(h, t, h2, t2) ==
    \/ h2.seq > h.seq
    \/ /\ h2.seq = h.seq
       /\ ~h2.scrubbing => /\ ~h.scrubbing
                           /\ h2.playing = h.playing
                           /\ Interpolated(h, t) + h.slip <= Interpolated(h2, t2) + h2.slip

\* A copy stays known while the Host evolves.
LEMMA KnownEvolves ==
    ASSUME NEW h \in HostEngines, NEW h2 \in HostEngines, NEW t \in Nat, NEW t2 \in Nat,
           NEW s \in States, Known(h, t, s), Evolves(h, t, h2, t2)
    PROVE  Known(h2, t2, s)
<1>1. Interpolated(h, t) \in Int /\ Interpolated(h2, t2) \in Int
  BY DEF Interpolated, HostEngines
<1>2. /\ h.seq \in Nat /\ h2.seq \in Nat /\ s.seq \in Nat /\ s.pos \in Int
      /\ h.slip \in Nat /\ h2.slip \in Nat
  BY DEF HostEngines, States
<1> QED BY <1>1, <1>2 DEF Known, Evolves

\* A fresh snapshot, taken with a time read earlier, is known.
LEMMA SnapshotKnown ==
    ASSUME NEW h \in HostEngines, NEW at \in Nat, NEW t \in Nat, at <= t
    PROVE  Known(h, t, Snapshot(h, at))
<1>1. CASE h.scrubbing
  <2>1. Snapshot(h, at).seq = h.seq
    BY <1>1 DEF Snapshot
  <2> QED BY <1>1, <2>1 DEF Known, HostEngines
<1>2. CASE ~h.scrubbing
  <2>1. Snapshot(h, at) = [playing |-> h.playing, pos |-> Interpolated(h, at), seq |-> h.seq]
    BY <1>2 DEF Snapshot
  <2>2. Interpolated(h, at) <= Interpolated(h, t)
    BY DEF Interpolated, HostEngines
  <2>3. /\ Interpolated(h, at) \in Int /\ Interpolated(h, t) \in Int
        /\ h.slip \in Nat /\ h.seq \in Nat
    BY DEF Interpolated, HostEngines
  <2>4. Interpolated(h, at) <= Interpolated(h, t) + h.slip
    BY <2>2, <2>3
  <2> QED BY <2>1, <2>3, <2>4 DEF Known
<1> QED BY <1>1, <1>2

\* Applying a known copy to a known engine leaves it known.
LEMMA OnPartyStateKnown ==
    ASSUME NEW h \in HostEngines, NEW t \in Nat, NEW e \in ViewerEngines, NEW s \in States,
           EngineKnown(h, t, e), Known(h, t, s)
    PROVE  EngineKnown(h, t, OnPartyState(e, s, t))
<1>1. CASE OnPartyState(e, s, t) = e
  BY <1>1
<1>2. CASE OnPartyState(e, s, t) = [e EXCEPT !.haveState = TRUE, !.last = s, !.recvAt = t]
  <2> DEFINE f == [e EXCEPT !.haveState = TRUE, !.last = s, !.recvAt = t]
  <2>1. f.last = s /\ f.recvAt = t
    BY DEF ViewerEngines
  <2>2. Extrapolated(f, t) = s.pos
    BY <2>1 DEF Extrapolated, States
  <2>3. EngineKnown(h, t, f)
    BY <2>1, <2>2 DEF EngineKnown, Known
  <2> QED BY <1>2, <2>3
<1> QED BY <1>1, <1>2 DEF OnPartyState, OnState

\* Every step of the party moves the Host that way, and never the clock back.
LEMMA HostEvolves ==
    ASSUME TypeOK, TypeOK', host.sampledAt <= now, [Next]_vars
    PROVE  Evolves(host, now, host', now') /\ now <= now'
<1> USE ClockAssumption, PositionAssumption DEF TypeOK
<1>0. Interpolated(host, now) \in Int /\ host.slip \in Nat
  BY DEF Interpolated, HostEngines
<1>1. CASE ClockAdvances
  BY <1>1 DEF ClockAdvances, Evolves, Interpolated, HostEngines
<1>2. ASSUME NEW p \in Positions, OnPlay(p) \/ OnPause(p)
      PROVE  Evolves(host, now, host', now') /\ now' = now
  BY <1>2 DEF OnPlay, OnPause, Anchor, Evolves, HostEngines
<1>3. ASSUME NEW p \in Positions, OnSeek(p)
      PROVE  Evolves(host, now, host', now') /\ now' = now
  BY <1>3 DEF OnSeek, Evolves, HostEngines
<1>4. ASSUME NEW p \in Positions, OnReport(p)
      PROVE  Evolves(host, now, host', now') /\ now' = now
  <2>1. host'.seq = host.seq /\ host'.playing = host.playing /\ ~host.scrubbing /\ now' = now
    BY <1>4 DEF OnReport, HostEngines
  <2>2. /\ host'.pos = p /\ host'.sampledAt = now
        /\ host'.slip = Slipped(host.slip, Interpolated(host, now) - p)
    BY <1>4 DEF OnReport, HostEngines
  <2>3. Interpolated(host, now) \in Int /\ host.slip \in Nat /\ p \in Int
    BY DEF Interpolated, HostEngines
  <2>4. Interpolated(host', now') = p
    BY <2>1, <2>2, <2>3 DEF Interpolated
  <2>5. host'.slip >= host.slip + (Interpolated(host, now) - p) /\ host'.slip \in Int
    BY <2>2, <2>3 DEF Slipped
  <2> QED BY <2>1, <2>3, <2>4, <2>5 DEF Evolves
<1>5. CASE HeartbeatTick
  BY <1>5 DEF HeartbeatTick, CommitSeek, Anchor, Evolves, Interpolated, HostEngines
<1>6. ASSUME NEW v \in Viewers, HandleJoin(v) \/ HandleLeave(v) \/ OnConnectionStateChange(v)
      PROVE  Evolves(host, now, host', now') /\ now' = now
  <2>1. /\ \/ host' = [host EXCEPT !.audience = @ \cup {v}]
           \/ host' = [host EXCEPT !.audience = @ \ {v}]
        /\ now' = now
    BY <1>6 DEF HandleJoin, HandleLeave, OnConnectionStateChange
  <2>2. /\ host'.seq = host.seq /\ host'.playing = host.playing
        /\ host'.scrubbing = host.scrubbing /\ host'.pos = host.pos
        /\ host'.sampledAt = host.sampledAt /\ host'.slip = host.slip /\ now' = now
    BY <2>1 DEF HostEngines
  <2>3. Interpolated(host', now') = Interpolated(host, now)
    BY <2>2 DEF Interpolated
  <2> QED BY <1>0, <2>2, <2>3 DEF Evolves
<1>7. CASE UNCHANGED <<host, now>>
  BY <1>7 DEF Evolves, Interpolated, HostEngines
<1>8. \/ UNCHANGED <<host, now>>
      \/ ClockAdvances
      \/ \E p \in Positions : OnPlay(p) \/ OnPause(p) \/ OnSeek(p)
      \/ \E p \in Positions : OnReport(p)
      \/ HeartbeatTick
      \/ \E v \in Viewers : HandleJoin(v) \/ HandleLeave(v) \/ OnConnectionStateChange(v)
  BY DEF Next, vars, HostUser, Heartbeat, HostSession, ReadLoop, JoinCall, ViewerUser,
         HeartbeatSnapshot, HeartbeatMembers, HeartbeatSend, HandlerSnapshot, SendWelcome,
         DeliverWelcome, DeliverState, BeginViewer, ApplyInitial, JoinParty, LeaveParty, OnRTT
<1> QED BY <1>1, <1>2, <1>3, <1>4, <1>5, <1>6, <1>7, <1>8
\* Which actions move which variable.
LEMMA Movers ==
    ASSUME [Next]_vars
    PROVE  /\ now' = now \/ ClockAdvances
           /\ \/ host' = host
              \/ \E p \in Positions : OnPlay(p) \/ OnPause(p) \/ OnSeek(p)
              \/ \E p \in Positions : OnReport(p)
              \/ HeartbeatTick
              \/ \E v \in Viewers : \/ HandleJoin(v) \/ HandleLeave(v)
                                    \/ OnConnectionStateChange(v)
           /\ \/ hb' = hb
              \/ HeartbeatTick \/ HeartbeatSnapshot \/ HeartbeatMembers
              \/ \E v \in Viewers : HeartbeatSend(v)
           /\ \/ handler' = handler
              \/ \E v \in Viewers : HandleJoin(v) \/ HandlerSnapshot(v) \/ SendWelcome(v)
           /\ \/ toViewer' = toViewer
              \/ \E v \in Viewers : \/ HeartbeatSend(v) \/ SendWelcome(v)
                                    \/ DeliverWelcome(v) \/ DeliverState(v)
           /\ \/ joiner' = joiner
              \/ \E v \in Viewers : \/ JoinParty(v) \/ DeliverWelcome(v)
                                    \/ BeginViewer(v) \/ ApplyInitial(v)
           /\ \/ engine' = engine
              \/ \E v \in Viewers : \/ BeginViewer(v) \/ ApplyInitial(v) \/ DeliverState(v)
                                    \/ LeaveParty(v)
                                    \/ \E rtt \in RTTs : OnRTT(v, rtt)
BY DEF Next, vars, HostUser, Heartbeat, HostSession, ReadLoop, JoinCall, ViewerUser,
       ClockAdvances, OnPlay, OnPause, OnSeek, OnReport, HeartbeatTick,
       HeartbeatSnapshot, HeartbeatMembers, HeartbeatSend, HandleJoin, HandleLeave,
       HandlerSnapshot, SendWelcome, DeliverWelcome, DeliverState, BeginViewer,
       ApplyInitial, JoinParty, LeaveParty, OnRTT, OnConnectionStateChange

\* The Host's anchor time and a Viewer engine's two numbers come from the clock
\* and from a capped round trip.
LEMMA SampledAtMoves ==
    ASSUME TypeOK, [Next]_vars
    PROVE  host'.sampledAt \in {host.sampledAt, now}
<1> USE DEF TypeOK
<1>1. ASSUME NEW p \in Positions, OnPlay(p) \/ OnPause(p)
      PROVE  host'.sampledAt \in {host.sampledAt, now}
  BY <1>1 DEF OnPlay, OnPause, Anchor
<1>2. ASSUME NEW p \in Positions, OnSeek(p) PROVE host'.sampledAt \in {host.sampledAt, now}
  BY <1>2 DEF OnSeek, HostEngines
<1>3. ASSUME NEW p \in Positions, OnReport(p)
      PROVE  host'.sampledAt \in {host.sampledAt, now}
  BY <1>3 DEF OnReport, HostEngines
<1>4. CASE HeartbeatTick
  BY <1>4 DEF HeartbeatTick, CommitSeek, Anchor
<1>5. ASSUME NEW v \in Viewers, HandleJoin(v) \/ HandleLeave(v) \/ OnConnectionStateChange(v)
      PROVE  host'.sampledAt \in {host.sampledAt, now}
  BY <1>5 DEF HandleJoin, HandleLeave, OnConnectionStateChange, HostEngines
<1>6. CASE host' = host
  BY <1>6
<1> QED BY <1>1, <1>2, <1>3, <1>4, <1>5, <1>6, Movers

LEMMA EngineMoves ==
    ASSUME TypeOK, [Next]_vars, NEW v \in Viewers, engine[v].owd <= MaxOWD
    PROVE  /\ engine'[v].recvAt \in {engine[v].recvAt, now, 0}
           /\ engine'[v].owd <= MaxOWD
<1> USE ClockAssumption DEF TypeOK
<1> DEFINE Goal == /\ engine'[v].recvAt \in {engine[v].recvAt, now, 0}
                   /\ engine'[v].owd <= MaxOWD
<1>1. CASE engine' = engine
  BY <1>1
<1>2. ASSUME NEW w \in Viewers, BeginViewer(w) \/ LeaveParty(w) PROVE Goal
  <2>1. engine'[v] = engine[v] \/ engine'[v] = NoEngine \/ engine'[v] = [NoEngine EXCEPT !.live = TRUE]
    BY <1>2 DEF BeginViewer, LeaveParty
  <2>2. ASSUME NEW e \in {NoEngine, [NoEngine EXCEPT !.live = TRUE]}, engine'[v] = e
        PROVE  Goal
    <3>1. e.recvAt = 0 /\ e.owd = 0
      BY FreshEngine
    <3> QED BY <2>2, <3>1
  <2> QED BY <1>1, <2>1, <2>2
<1>3. ASSUME NEW w \in Viewers, ApplyInitial(w) \/ DeliverState(w) PROVE Goal
  <2>1. engine'[v] = engine[v] \/ \E s : engine'[v] = OnPartyState(engine[v], s, now)
    BY <1>3 DEF ApplyInitial, DeliverState
  <2>2. ASSUME NEW s, engine'[v] = OnPartyState(engine[v], s, now) PROVE Goal
    <3>1. CASE engine'[v] = engine[v]
      BY <3>1
    <3>2. CASE engine'[v] = [engine[v] EXCEPT !.haveState = TRUE, !.last = s, !.recvAt = now]
      BY <3>2 DEF ViewerEngines
    <3> QED BY <2>2, <3>1, <3>2 DEF OnPartyState, OnState
  <2> QED BY <2>1, <2>2
<1>4. ASSUME NEW w \in Viewers, NEW rtt \in RTTs, OnRTT(w, rtt) PROVE Goal
  <2>1. OneWayDelay(rtt) <= MaxOWD
    BY DEF OneWayDelay
  <2> QED BY <1>4, <2>1 DEF OnRTT, ViewerEngines
<1> QED BY <1>1, <1>2, <1>3, <1>4, Movers

\* While the Host evolves and the clock runs, a known engine stays known.
LEMMA EngineEvolves ==
    ASSUME NEW e \in ViewerEngines, SyncInv, TypeOK', [Next]_vars, EngineKnown(host, now, e)
    PROVE  EngineKnown(host', now', e)
<1>1. Evolves(host, now, host', now') /\ now <= now'
  BY HostEvolves DEF SyncInv, ClocksOrdered
<1>2. host \in HostEngines /\ host' \in HostEngines /\ now \in Nat /\ now' \in Nat
  BY DEF TypeOK, SyncInv
<1>3. /\ Interpolated(host, now) \in Int /\ Interpolated(host', now') \in Int
      /\ host.seq \in Nat /\ host'.seq \in Nat /\ host.pos \in Int /\ host.sampledAt \in Nat
      /\ host.slip \in Nat /\ host'.slip \in Nat
  BY <1>2 DEF Interpolated, HostEngines
<1>4. e.last.seq \in Nat /\ e.last.pos \in Int /\ e.recvAt \in Nat
  BY DEF ViewerEngines, States
<1>5. Extrapolated(e, now) \in Int /\ Extrapolated(e, now') \in Int
  BY <1>2, <1>4 DEF Extrapolated
<1>6. CASE ClockAdvances
  <2>1. host' = host /\ now' = now + 1
    BY <1>6 DEF ClockAdvances
  <2>2. /\ e.last.playing => Extrapolated(e, now') = Extrapolated(e, now) + 1
        /\ ~e.last.playing => Extrapolated(e, now') = Extrapolated(e, now)
    BY <1>2, <1>4, <2>1 DEF Extrapolated
  <2>3. /\ host.playing => Interpolated(host', now') = Interpolated(host, now) + 1
        /\ ~host.playing => Interpolated(host', now') = Interpolated(host, now)
    BY <1>2, <1>3, <2>1 DEF Interpolated
  <2> QED
    BY <1>3, <1>5, <2>1, <2>2, <2>3 DEF EngineKnown
<1>7. CASE now' = now
  BY <1>1, <1>3, <1>4, <1>5, <1>7 DEF Evolves, EngineKnown
<1> QED BY <1>6, <1>7, Movers DEF SyncInv, TypeOK

-----------------------------------------------------------------------------
\* The inductive invariant is inductive

LEMMA SyncInit == Init => SyncInv
<1> SUFFICES ASSUME Init PROVE SyncInv
  OBVIOUS
<1>1. ClocksOrdered
  BY ClockAssumption DEF Init, ClocksOrdered, NewHost, NoEngine
<1>2. HeartbeatKnown(host, now) /\ HandlerKnown(host, now) /\ JoinerKnown(host, now)
  BY DEF Init, HeartbeatKnown, HandlerKnown, JoinerKnown
<1>3. ChannelKnown(host, now)
  BY DEF Init, ChannelKnown
<1>4. EnginesKnown(host, now)
  BY DEF Init, EnginesKnown, EngineKnown, NoEngine
<1> QED BY TypeInit, <1>1, <1>2, <1>3, <1>4 DEF SyncInv

LEMMA SyncStep == SyncInv /\ [Next]_vars => SyncInv'
<1> SUFFICES ASSUME SyncInv, [Next]_vars PROVE SyncInv'
  OBVIOUS
<1> USE DEF TypeOK
<1>1. TypeOK'
  BY TypeStep DEF SyncInv
<1>2. Evolves(host, now, host', now') /\ now <= now'
  BY <1>1, HostEvolves DEF SyncInv, ClocksOrdered
<1>3. \A s \in States : Known(host, now, s) => Known(host', now', s)
  BY <1>1, <1>2, KnownEvolves DEF SyncInv
<1>4. \A e \in ViewerEngines : EngineKnown(host, now, e) => EngineKnown(host', now', e)
  BY <1>1, EngineEvolves
\* The copies that exist already, seen from the Host's new state.
<1>5. HeartbeatKnown(host', now')
  BY <1>3 DEF HeartbeatKnown, HeartbeatStates, SyncInv
<1>6. HandlerKnown(host', now')
  BY <1>3 DEF HandlerKnown, SyncInv
<1>7. ChannelKnown(host', now')
  <2> SUFFICES ASSUME NEW v \in Viewers, NEW i \in 1..Len(toViewer[v])
               PROVE  Known(host', now', toViewer[v][i].st)
    BY DEF ChannelKnown
  <2>1. toViewer[v][i] \in Messages
    BY DEF SyncInv
  <2> QED BY <1>3, <2>1 DEF ChannelKnown, Messages, SyncInv
<1>8. JoinerKnown(host', now')
  BY <1>3 DEF JoinerKnown, SyncInv
<1>9. EnginesKnown(host', now')
  BY <1>4 DEF EnginesKnown, SyncInv
\* The copies the step makes.
<1>10. HeartbeatKnown(host, now)'
  <2>1. CASE hb' = hb
    BY <1>5, <2>1 DEF HeartbeatKnown
  <2>2. CASE HeartbeatTick
    BY <2>2 DEF HeartbeatTick, HeartbeatKnown, HeartbeatStates, SyncInv
  <2>3. CASE HeartbeatSnapshot
    <3>1. Known(host, now, Snapshot(host, hb.at))
      BY SnapshotKnown DEF SyncInv, ClocksOrdered, HeartbeatStates
    <3>2. hb'.st = Snapshot(host, hb.at) /\ host' = host /\ now' = now
      BY <2>3 DEF HeartbeatSnapshot, HeartbeatStates, SyncInv
    <3> QED BY <3>1, <3>2 DEF HeartbeatKnown
  <2>4. CASE HeartbeatMembers
    <3>1. hb.pc = "members" /\ (hb'.pc = "wait" \/ hb'.st = hb.st)
      BY <2>4 DEF HeartbeatMembers, HeartbeatStates, SyncInv
    <3> QED BY <1>5, <3>1 DEF HeartbeatKnown
  <2>5. ASSUME NEW v \in Viewers, HeartbeatSend(v) PROVE HeartbeatKnown(host, now)'
    <3>1. hb.pc = "send" /\ (hb'.pc = "wait" \/ hb'.st = hb.st)
      BY <2>5 DEF HeartbeatSend, HeartbeatStates, SyncInv
    <3> QED BY <1>5, <3>1 DEF HeartbeatKnown
  <2> QED BY <2>1, <2>2, <2>3, <2>4, <2>5, Movers
<1>11. HandlerKnown(host, now)'
  <2>1. CASE handler' = handler
    BY <1>6, <2>1 DEF HandlerKnown
  <2>2. ASSUME NEW v \in Viewers, HandleJoin(v) \/ SendWelcome(v)
        PROVE  HandlerKnown(host, now)'
    <3>1. CASE HandleJoin(v)
      BY <1>6, <3>1 DEF HandleJoin, HandlerKnown, SyncInv
    <3>2. CASE SendWelcome(v)
      BY <1>6, <3>2 DEF SendWelcome, HandlerKnown, SyncInv
    <3> QED BY <2>2, <3>1, <3>2
  <2>3. ASSUME NEW v \in Viewers, HandlerSnapshot(v) PROVE HandlerKnown(host, now)'
    <3>1. Known(host, now, Snapshot(host, now))
      BY SnapshotKnown DEF SyncInv
    <3> QED BY <1>6, <2>3, <3>1 DEF HandlerSnapshot, HandlerKnown, SyncInv
  <2> QED BY <2>1, <2>2, <2>3, Movers
<1>12. ChannelKnown(host, now)'
  <2>1. CASE toViewer' = toViewer
    BY <1>7, <2>1 DEF ChannelKnown
  <2>2. ASSUME NEW v \in Viewers, HeartbeatSend(v) \/ SendWelcome(v)
        PROVE  ChannelKnown(host, now)'
    <3>1. PICK m \in Messages : /\ toViewer' = [toViewer EXCEPT ![v] = Append(@, m)]
                               /\ Known(host', now', m.st)
      <4>1. CASE HeartbeatSend(v)
        <5> DEFINE m == [kind |-> "state", st |-> hb.st]
        <5>1. m \in Messages
          BY DEF HeartbeatStates, Messages, SyncInv
        <5>2. Known(host', now', m.st)
          BY <1>5, <4>1 DEF HeartbeatSend, HeartbeatKnown
        <5> QED BY <4>1, <5>1, <5>2 DEF HeartbeatSend
      <4>2. CASE SendWelcome(v)
        <5> DEFINE m == [kind |-> "welcome", st |-> handler[v].st]
        <5>1. m \in Messages
          BY DEF Messages, SyncInv
        <5>2. Known(host', now', m.st)
          BY <1>6, <4>2 DEF SendWelcome, HandlerKnown
        <5> QED BY <4>2, <5>1, <5>2 DEF SendWelcome
      <4> QED BY <2>2, <4>1, <4>2
    <3>2. toViewer[v] \in Seq(Messages)
      BY DEF SyncInv
    <3>3. \A i \in 1..Len(Append(toViewer[v], m)) :
              Known(host', now', Append(toViewer[v], m)[i].st)
      BY <1>7, <3>1, <3>2, AppendProperties DEF ChannelKnown
    <3> QED BY <1>7, <3>1, <3>3 DEF ChannelKnown, SyncInv
  <2>3. ASSUME NEW v \in Viewers, DeliverWelcome(v) \/ DeliverState(v)
        PROVE  ChannelKnown(host, now)'
    <3>1. /\ toViewer[v] \in Seq(Messages) /\ toViewer[v] # <<>>
          /\ toViewer' = [toViewer EXCEPT ![v] = Tail(@)]
      BY <2>3 DEF DeliverWelcome, DeliverState, SyncInv
    <3>2. \A i \in 1..Len(Tail(toViewer[v])) : Known(host', now', Tail(toViewer[v])[i].st)
      BY <1>7, <3>1, HeadTailProperties DEF ChannelKnown
    <3> QED BY <1>7, <3>1, <3>2 DEF ChannelKnown, SyncInv
  <2> QED BY <2>1, <2>2, <2>3, Movers
<1>13. \A v \in Viewers : toViewer[v] # <<>> => /\ Known(host', now', Head(toViewer[v]).st)
                                               /\ Head(toViewer[v]).st \in States
  <2> SUFFICES ASSUME NEW v \in Viewers, toViewer[v] # <<>>
               PROVE  Known(host', now', toViewer[v][1].st) /\ toViewer[v][1].st \in States
    BY DEF SyncInv
  <2>1. toViewer[v] \in Seq(Messages) /\ 1 \in 1..Len(toViewer[v])
    BY DEF SyncInv
  <2>2. toViewer[v][1] \in Messages
    BY <2>1
  <2>3. toViewer[v][1].st \in States
    BY <2>2 DEF Messages
  <2> QED BY <1>7, <2>1, <2>3 DEF ChannelKnown
<1>14. JoinerKnown(host, now)'
  <2>1. CASE joiner' = joiner
    BY <1>8, <2>1 DEF JoinerKnown
  <2>2. ASSUME NEW v \in Viewers, JoinParty(v) \/ BeginViewer(v) \/ ApplyInitial(v)
        PROVE  JoinerKnown(host, now)'
    <3>1. CASE JoinParty(v)
      BY <1>8, <3>1 DEF JoinParty, JoinerKnown, SyncInv
    <3>2. CASE BeginViewer(v)
      BY <1>8, <3>2 DEF BeginViewer, JoinerKnown, SyncInv
    <3>3. CASE ApplyInitial(v)
      BY <1>8, <3>3 DEF ApplyInitial, JoinerKnown, SyncInv
    <3> QED BY <2>2, <3>1, <3>2, <3>3
  <2>3. ASSUME NEW v \in Viewers, DeliverWelcome(v) PROVE JoinerKnown(host, now)'
    BY <1>8, <1>13, <2>3 DEF DeliverWelcome, JoinerKnown, SyncInv
  <2> QED BY <2>1, <2>2, <2>3, Movers
<1>15. EnginesKnown(host, now)'
  <2>1. CASE engine' = engine
    BY <1>9, <2>1 DEF EnginesKnown
  <2>2. ASSUME NEW v \in Viewers, BeginViewer(v) \/ LeaveParty(v)
        PROVE  EnginesKnown(host, now)'
    <3>1. ~engine'[v].haveState /\ \A w \in Viewers \ {v} : engine'[w] = engine[w]
      <4>1. engine'[v] = NoEngine \/ engine'[v] = [NoEngine EXCEPT !.live = TRUE]
        BY <2>2 DEF BeginViewer, LeaveParty, SyncInv
      <4>2. \A w \in Viewers \ {v} : engine'[w] = engine[w]
        BY <2>2 DEF BeginViewer, LeaveParty, SyncInv
      <4> QED BY <4>1, <4>2, FreshEngine
    <3> QED BY <1>9, <3>1 DEF EnginesKnown, EngineKnown
  <2>3. ASSUME NEW v \in Viewers, ApplyInitial(v) \/ DeliverState(v)
        PROVE  EnginesKnown(host, now)'
    <3>1. PICK s \in States : /\ engine' = [engine EXCEPT ![v] = OnPartyState(@, s, now)]
                             /\ Known(host', now', s)
      <4>1. CASE ApplyInitial(v)
        BY <1>8, <4>1 DEF ApplyInitial, JoinerKnown, SyncInv
      <4>2. CASE DeliverState(v)
        BY <1>13, <4>2 DEF DeliverState, SyncInv
      <4> QED BY <2>3, <4>1, <4>2
    <3>2. now' = now
      BY <2>3 DEF ApplyInitial, DeliverState
    <3>3. EngineKnown(host', now', OnPartyState(engine[v], s, now))
      BY <1>1, <1>9, <3>1, <3>2, OnPartyStateKnown DEF EnginesKnown, SyncInv
    <3> QED BY <1>9, <3>1, <3>3 DEF EnginesKnown, SyncInv
  <2>4. ASSUME NEW v \in Viewers, NEW rtt \in RTTs, OnRTT(v, rtt)
        PROVE  EnginesKnown(host, now)'
    <3>1. /\ engine'[v].haveState = engine[v].haveState /\ engine'[v].last = engine[v].last
          /\ engine'[v].recvAt = engine[v].recvAt
      BY <2>4 DEF OnRTT, ViewerEngines, SyncInv
    <3>2. EngineKnown(host', now', engine'[v])
      BY <1>9, <3>1 DEF EnginesKnown, EngineKnown, Extrapolated
    <3> QED BY <1>9, <2>4, <3>2 DEF OnRTT, EnginesKnown, SyncInv
  <2> QED BY <2>1, <2>2, <2>3, <2>4, Movers
<1>16. ClocksOrdered'
  <2>1. hb'.at <= now'
    <3>1. hb.at \in Nat /\ hb.at <= now /\ now \in Nat /\ now' \in Nat
      BY <1>1 DEF ClocksOrdered, HeartbeatStates, SyncInv
    <3>2. hb'.at \in {hb.at, now, 0}
      BY Movers DEF HeartbeatTick, HeartbeatSnapshot, HeartbeatMembers, HeartbeatSend,
                    HeartbeatStates, SyncInv
    <3> QED BY <1>2, <3>1, <3>2
  <2>2. host'.sampledAt <= now'
    <3>1. host.sampledAt \in Nat /\ host.sampledAt <= now /\ now \in Nat /\ now' \in Nat
      BY <1>1 DEF ClocksOrdered, HostEngines, SyncInv
    <3>2. host'.sampledAt \in {host.sampledAt, now}
      BY SampledAtMoves DEF SyncInv
    <3> QED BY <1>2, <3>1, <3>2
  <2>3. ASSUME NEW v \in Viewers PROVE engine'[v].recvAt <= now' /\ engine'[v].owd <= MaxOWD
    <3>1. /\ engine[v] \in ViewerEngines /\ engine[v].recvAt <= now /\ engine[v].owd <= MaxOWD
          /\ now \in Nat /\ now' \in Nat
      BY <1>1 DEF ClocksOrdered, SyncInv
    <3>2. engine'[v].recvAt \in {engine[v].recvAt, now, 0}
      BY <3>1, EngineMoves DEF SyncInv
    <3>3. engine'[v].owd <= MaxOWD
      BY <3>1, EngineMoves DEF SyncInv
    <3> QED BY <1>2, <3>1, <3>2, <3>3 DEF ViewerEngines
  <2> QED BY <2>1, <2>2, <2>3 DEF ClocksOrdered
<1> QED BY <1>1, <1>10, <1>11, <1>12, <1>14, <1>15, <1>16 DEF SyncInv
LEMMA SyncInvariant == Spec => []SyncInv
BY SyncInit, SyncStep, PTL DEF Spec

-----------------------------------------------------------------------------
\* What the users of the protocol rely on

\* A Viewer on the current seq and the Host agree on play/pause outside a
\* scrub, for every set of Viewers and every interleaving of heartbeats,
\* welcomes, seeks and joins: no "hold" snapshot outlives its scrub.
THEOREM AgreementHolds == Spec => []Agreement
<1>1. SyncInv => Agreement
  BY DEF SyncInv, EnginesKnown, EngineKnown, Agreement
<1> QED BY <1>1, SyncInvariant, PTL

\* A Viewer on the current seq never believes the Host to be further ahead than
\* the cap on the one-way-delay estimate plus what the Host's own reports, which
\* carry no new seq, have moved it back since: whatever the network delay was and
\* however the Host stalled.
THEOREM NoOutrunHolds == Spec => []NoOutrun
<1>1. SyncInv => NoOutrun
  <2> SUFFICES ASSUME SyncInv, NEW v \in Viewers, Outruns(v, MaxOWD + host.slip)
               PROVE  FALSE
    BY DEF NoOutrun
  <2>1. Extrapolated(engine[v], now) <= Interpolated(host, now) + host.slip
    BY DEF SyncInv, EnginesKnown, EngineKnown, Outruns
  <2>2. /\ engine[v] \in ViewerEngines /\ host \in HostEngines /\ now \in Nat
        /\ engine[v].owd <= MaxOWD
    BY DEF SyncInv, TypeOK, ClocksOrdered
  <2>3. Interpolated(host, now) \in Int /\ host.slip \in Nat
    BY <2>2 DEF Interpolated, HostEngines
  <2>4. ExpectedHostPos(engine[v], now) <= Extrapolated(engine[v], now) + MaxOWD
    BY <2>2, ClockAssumption DEF ExpectedHostPos, Extrapolated, ViewerEngines, States
  <2>5. ExpectedHostPos(engine[v], now) \in Int /\ Extrapolated(engine[v], now) \in Int
    BY <2>2 DEF ExpectedHostPos, Extrapolated, ViewerEngines, States
  <2>6. ExpectedHostPos(engine[v], now) > Interpolated(host, now) + (MaxOWD + host.slip)
    BY DEF Outruns
  <2> QED BY <2>1, <2>3, <2>4, <2>5, <2>6, ClockAssumption
<1> QED BY <1>1, SyncInvariant, PTL

\* A live Viewer engine only ever moves to a higher seq, in whatever order the
\* JoinParty call and the read loop apply states to it.
THEOREM SeqMonotone == Spec => SeqNeverGoesBack
<1> DEFINE Forward == \A v \in Viewers :
                 (engine[v].haveState /\ engine'[v].haveState /\ engine'[v].last # engine[v].last)
                     => engine'[v].last.seq > engine[v].last.seq
<1>1. TypeOK /\ [Next]_vars => [Forward]_vars
  <2> SUFFICES ASSUME TypeOK, [Next]_vars, NEW v \in Viewers, engine[v].haveState,
                      engine'[v].haveState, engine'[v].last # engine[v].last
               PROVE  engine'[v].last.seq > engine[v].last.seq
    OBVIOUS
  <2>1. CASE engine' = engine
    BY <2>1
  <2>2. ASSUME NEW w \in Viewers, BeginViewer(w) \/ LeaveParty(w) PROVE FALSE
    <3>1. engine'[v] \in {engine[v], NoEngine, [NoEngine EXCEPT !.live = TRUE]}
      BY <2>2 DEF BeginViewer, LeaveParty, TypeOK
    <3> QED BY <3>1, FreshEngine
  <2>3. ASSUME NEW w \in Viewers, ApplyInitial(w) \/ DeliverState(w)
        PROVE  engine'[v].last.seq > engine[v].last.seq
    <3>1. PICK s \in States : engine' = [engine EXCEPT ![w] = OnPartyState(@, s, now)]
      <4>1. CASE ApplyInitial(w)
        BY <4>1 DEF ApplyInitial, TypeOK
      <4>2. CASE DeliverState(w)
        <5>1. Head(toViewer[w]) \in Messages
          BY <4>2, HeadTailProperties DEF DeliverState, TypeOK
        <5> QED BY <4>2, <5>1 DEF DeliverState, Messages
      <4> QED BY <2>3, <4>1, <4>2
    <3>2. engine[v] \in ViewerEngines /\ v = w
      BY <3>1 DEF TypeOK
    <3>3. engine'[v] = OnState(engine[v], s, now)
      BY <3>1, <3>2 DEF OnPartyState, TypeOK
    <3> QED BY <3>2, <3>3 DEF OnState, ViewerEngines, States
  <2>4. ASSUME NEW w \in Viewers, NEW rtt \in RTTs, OnRTT(w, rtt) PROVE FALSE
    BY <2>4 DEF OnRTT, ViewerEngines, TypeOK
  <2> QED BY <2>1, <2>2, <2>3, <2>4, Movers
<1> QED BY <1>1, TypeCorrect, PTL DEF Spec, SeqNeverGoesBack
-----------------------------------------------------------------------------
\* Refinement of the promise

\* Each kind of step, as the promise sees it. HostStep: the engines are still
\* and the Host renumbers, starts a scrub, or keeps its number, play flag and
\* scrub.
LEMMA HostStepRefines ==
    ASSUME TypeOK, TypeOK', engine' = engine,
           \/ /\ host'.seq = host.seq + 1
              /\ host'.scrubbing = FALSE
           \/ /\ host'.scrubbing = TRUE
              /\ host'.seq = host.seq /\ host'.playing = host.playing
           \/ /\ host'.scrubbing = host.scrubbing
              /\ host'.seq = host.seq /\ host'.playing = host.playing
    PROVE  [Promise!Next]_(Promise!promiseVars)
<1>1. host'.playing \in BOOLEAN
  BY DEF TypeOK, HostEngines
<1>2. [v \in Viewers |-> Followed(engine[v])]' = [v \in Viewers |-> Followed(engine[v])]
  BY DEF Followed
<1> QED BY <1>1, <1>2
        DEF Promise!Next, Promise!Publish, Promise!Hold, Promise!promiseVars

\* EngineReset: one Viewer's engine becomes fresh.
LEMMA EngineResetRefines ==
    ASSUME TypeOK, NEW v \in Viewers, NEW e, ~e.haveState,
           engine' = [engine EXCEPT ![v] = e], host' = host
    PROVE  [Promise!Next]_(Promise!promiseVars)
<1>1. [w \in Viewers |-> Followed(engine[w])]'
        = [[w \in Viewers |-> Followed(engine[w])] EXCEPT ![v] = Promise!Nothing]
  BY DEF Followed, Promise!Nothing, TypeOK
<1> QED BY <1>1 DEF Promise!Next, Promise!Reset

\* EngineFollow: a known state is applied to one Viewer's engine.
LEMMA EngineFollowRefines ==
    ASSUME TypeOK, NEW v \in Viewers, NEW s \in States, Known(host, now, s),
           engine' = [engine EXCEPT ![v] = OnPartyState(@, s, now)], host' = host
    PROVE  [Promise!Next]_(Promise!promiseVars)
<1> DEFINE f == [w \in Viewers |-> Followed(engine[w])]
           q == [seq |-> s.seq, playing |-> s.playing]
<1>0. engine[v] \in ViewerEngines /\ host \in HostEngines
  BY DEF TypeOK
<1>1. CASE OnPartyState(engine[v], s, now) = engine[v]
  <2>1. engine' = engine
    BY <1>1 DEF TypeOK
  <2> QED BY <2>1 DEF Promise!promiseVars, Followed
<1>2. CASE /\ OnPartyState(engine[v], s, now)
                 = [engine[v] EXCEPT !.haveState = TRUE, !.last = s, !.recvAt = now]
           /\ engine[v].haveState => s.seq > engine[v].last.seq
  <2>1. engine'[v].haveState /\ engine'[v].last = s
    BY <1>0, <1>2 DEF TypeOK, ViewerEngines
  <2>2. Followed(engine'[v]) = q
    BY <2>1 DEF Followed
  <2>3. \A w \in Viewers : w # v => engine'[w] = engine[w]
    BY DEF TypeOK
  <2>4. f' = [f EXCEPT ![v] = q]
    <3>1. f' = [w \in Viewers |-> Followed(engine'[w])]
      BY DEF Followed
    <3>2. \A w \in Viewers : Followed(engine'[w]) = IF w = v THEN q ELSE Followed(engine[w])
      BY <2>2, <2>3
    <3> HIDE DEF q
    <3> QED BY <3>1, <3>2
  <2>5. q.seq > f[v].seq
    BY <1>0, <1>2 DEF Followed, States
  <2>6. q \in [seq : 0..host.seq, playing : BOOLEAN]
    BY <1>0 DEF Known, States, HostEngines
  <2>7. q.seq = host.seq /\ ~host.scrubbing => q.playing = host.playing
    BY DEF Known
  <2>8. Promise!Follow(v)
    BY <2>4, <2>5, <2>6, <2>7 DEF Promise!Follow
  <2> QED BY <2>8 DEF Promise!Next
<1>3. \/ OnPartyState(engine[v], s, now) = engine[v]
      \/ /\ OnPartyState(engine[v], s, now)
               = [engine[v] EXCEPT !.haveState = TRUE, !.last = s, !.recvAt = now]
         /\ engine[v].haveState => s.seq > engine[v].last.seq
  BY <1>0 DEF OnPartyState, OnState, ViewerEngines, States
<1> QED BY <1>1, <1>2, <1>3
LEMMA PromiseStep ==
    SyncInv /\ SyncInv' /\ [Next]_vars => [Promise!Next]_(Promise!promiseVars)
<1> SUFFICES ASSUME SyncInv, SyncInv', [Next]_vars
             PROVE  [Promise!Next]_(Promise!promiseVars)
  OBVIOUS
<1> USE DEF SyncInv
<1>1. ASSUME NEW p \in Positions, OnPlay(p) \/ OnPause(p)
      PROVE  [Promise!Next]_(Promise!promiseVars)
  <2>1. host'.seq = host.seq + 1 /\ host'.scrubbing = FALSE /\ engine' = engine
    BY <1>1 DEF OnPlay, OnPause, Anchor
  <2> QED BY <2>1, HostStepRefines
<1>2. ASSUME NEW p \in Positions, OnSeek(p) PROVE [Promise!Next]_(Promise!promiseVars)
  <2>1. /\ host'.seq = host.seq /\ host'.playing = host.playing
        /\ host'.scrubbing = TRUE /\ engine' = engine
    BY <1>2 DEF OnSeek, TypeOK, HostEngines
  <2> QED BY <2>1, HostStepRefines
<1>3. ASSUME NEW p \in Positions, OnReport(p) PROVE [Promise!Next]_(Promise!promiseVars)
  <2>1. /\ host'.seq = host.seq /\ host'.playing = host.playing
        /\ host'.scrubbing = host.scrubbing /\ engine' = engine
    BY <1>3 DEF OnReport, TypeOK, HostEngines
  <2> QED BY <2>1, HostStepRefines
<1>4. CASE HeartbeatTick
  <2>1. engine' = engine /\ host' = CommitSeek(host, now)
    BY <1>4 DEF HeartbeatTick
  <2>2. CASE Settled(host, now)
    <3>1. host'.seq = host.seq + 1 /\ host'.scrubbing = FALSE
      BY <2>1, <2>2 DEF CommitSeek, Anchor
    <3> QED BY <2>1, <3>1, HostStepRefines
  <2>3. CASE ~Settled(host, now)
    BY <2>1, <2>3, HostStepRefines DEF CommitSeek
  <2> QED BY <2>2, <2>3
<1>5. ASSUME NEW v \in Viewers, HandleJoin(v) \/ HandleLeave(v) \/ OnConnectionStateChange(v)
      PROVE  [Promise!Next]_(Promise!promiseVars)
  <2>1. /\ \/ host' = [host EXCEPT !.audience = @ \cup {v}]
           \/ host' = [host EXCEPT !.audience = @ \ {v}]
        /\ engine' = engine
    BY <1>5 DEF HandleJoin, HandleLeave, OnConnectionStateChange
  <2>2. /\ host'.seq = host.seq /\ host'.playing = host.playing
        /\ host'.scrubbing = host.scrubbing
    BY <2>1 DEF TypeOK, HostEngines
  <2> QED BY <2>1, <2>2, HostStepRefines
<1>6. CASE host' = host /\ engine' = engine
  BY <1>6, HostStepRefines
<1>7. ASSUME NEW v \in Viewers, BeginViewer(v) \/ LeaveParty(v)
      PROVE  [Promise!Next]_(Promise!promiseVars)
  <2>1. PICK e \in {NoEngine, [NoEngine EXCEPT !.live = TRUE]} :
            engine' = [engine EXCEPT ![v] = e] /\ host' = host
    BY <1>7 DEF BeginViewer, LeaveParty
  <2>2. ~e.haveState
    BY FreshEngine
  <2> QED BY <2>1, <2>2, EngineResetRefines
<1>8. ASSUME NEW v \in Viewers, ApplyInitial(v) PROVE [Promise!Next]_(Promise!promiseVars)
  <2>1. joiner[v].st \in States /\ Known(host, now, joiner[v].st)
    BY <1>8 DEF ApplyInitial, JoinerKnown, TypeOK
  <2> QED BY <1>8, <2>1, EngineFollowRefines DEF ApplyInitial
<1>9. ASSUME NEW v \in Viewers, DeliverState(v) PROVE [Promise!Next]_(Promise!promiseVars)
  <2>1. toViewer[v] \in Seq(Messages) /\ toViewer[v] # <<>> /\ 1 \in 1..Len(toViewer[v])
    BY <1>9 DEF DeliverState, TypeOK
  <2>2. Head(toViewer[v]) = toViewer[v][1] /\ toViewer[v][1] \in Messages
    BY <2>1
  <2>3. Head(toViewer[v]).st \in States /\ Known(host, now, Head(toViewer[v]).st)
    BY <2>1, <2>2 DEF ChannelKnown, Messages
  <2> QED BY <1>9, <2>3, EngineFollowRefines DEF DeliverState
<1>10. ASSUME NEW v \in Viewers, NEW rtt \in RTTs, OnRTT(v, rtt)
       PROVE  [Promise!Next]_(Promise!promiseVars)
  <2>1. host' = host /\ \A w \in Viewers : /\ engine'[w].haveState = engine[w].haveState
                                          /\ engine'[w].last = engine[w].last
    BY <1>10 DEF OnRTT, TypeOK, ViewerEngines
  <2>2. \A w \in Viewers : Followed(engine'[w]) = Followed(engine[w])
    BY <2>1 DEF Followed
  <2>3. [w \in Viewers |-> Followed(engine[w])]' = [w \in Viewers |-> Followed(engine[w])]
    <3>1. [w \in Viewers |-> Followed(engine[w])]' = [w \in Viewers |-> Followed(engine'[w])]
      BY DEF Followed
    <3> QED BY <2>2, <3>1
  <2> QED BY <2>1, <2>3 DEF Promise!promiseVars
<1>11. \/ host' = host /\ engine' = engine
       \/ \E p \in Positions : OnPlay(p) \/ OnPause(p) \/ OnSeek(p)
       \/ \E p \in Positions : OnReport(p)
       \/ HeartbeatTick
       \/ \E v \in Viewers : HandleJoin(v) \/ HandleLeave(v) \/ OnConnectionStateChange(v)
       \/ \E v \in Viewers : \/ BeginViewer(v) \/ ApplyInitial(v) \/ DeliverState(v)
                             \/ LeaveParty(v)
                             \/ \E rtt \in RTTs : OnRTT(v, rtt)
  BY Movers
<1> QED BY <1>1, <1>2, <1>3, <1>4, <1>5, <1>6, <1>7, <1>8, <1>9, <1>10, <1>11

\* The whole protocol, heartbeats, handlers, channels and join races included,
\* implements PartyStatePromise.
THEOREM PromiseImplemented == Spec => PromiseKept
<1>1. Init => Promise!Init
  BY DEF Init, NewHost, NoEngine, Followed, Promise!Init, Promise!Nothing
<1> QED BY <1>1, PromiseStep, SyncInvariant, PTL DEF Spec, PromiseKept, Promise!Spec
=============================================================================
