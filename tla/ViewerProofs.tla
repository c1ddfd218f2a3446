---------------------------- MODULE ViewerProofs ----------------------------
(***************************************************************************)
(* Proofs about the Viewer's side of a Watch Party.                        *)
(*                                                                         *)
(* ViewerSeat, for every set of Hosts and of concurrent requests: no swarm *)
(* session is closed twice, LeaveParty without a viewer is the only way to *)
(* lose a gossip goroutine, and a Viewer engine is fed by its own Host     *)
(* only.                                                                   *)
(*                                                                         *)
(* SwarmSession, for every set of peers, of fetches and of requests and    *)
(* for every window: type correctness, the upload cap, that no unverified  *)
(* peer bytes are ever kept, that an epoch names one have-set, and that    *)
(* what is cached is advertised and fits in one window.                    *)
(***************************************************************************)
EXTENDS ViewerSeat, SwarmSession, FiniteSetTheorems, TLAPS

-----------------------------------------------------------------------------
\* ViewerSeat: the inductive invariant

\* A session is in one hand at most, and it is open while it is in one.
CallHolds(c, n) == call[c].pc \in {"closeOld", "closeLeft"} /\ call[c].held = n
ReaderHolds(h, n) == reader[h].pc = "close" /\ reader[h].held = n

OneHand ==
    \A n \in Joins :
        /\ swarm = n => /\ inHand # n
                        /\ \A c \in Calls : ~CallHolds(c, n)
                        /\ \A h \in Hosts : ~ReaderHolds(h, n)
        /\ inHand = n => /\ \A c \in Calls : ~CallHolds(c, n)
                         /\ \A h \in Hosts : ~ReaderHolds(h, n)
        /\ \A c \in Calls, h \in Hosts : ~(CallHolds(c, n) /\ ReaderHolds(h, n))
        /\ \A c \in Calls, d \in Calls : CallHolds(c, n) /\ CallHolds(d, n) => c = d
        /\ \A g \in Hosts, h \in Hosts : ReaderHolds(g, n) /\ ReaderHolds(h, n) => g = h

HeldOpen == \A n \in Joins : Held(n) => closes[n] = 0

\* Nothing has happened to a session that is not made yet.
Untouched(n) == ~Held(n) /\ closes[n] = 0 /\ n \notin started

Joining(c) == call[c].pc \in {"rpc", "begun", "closeOld", "start", "initial", "feed"}
Making(c) == call[c].pc \in {"rpc", "begun"}

FreshUntouched ==
    /\ \A c \in Calls : Joining(c) => call[c].n \in Joins /\ call[c].n <= joins
    /\ \A c \in Calls : Making(c) => Untouched(call[c].n)
    /\ \A c \in Calls, d \in Calls : Making(c) /\ Joining(d) /\ call[c].n = call[d].n => c = d
    /\ \A n \in Joins : n > joins => Untouched(n)

\* A session in the seat or in a hand, or lost, or closed: what a session is once
\* its JoinParty has installed it.
Accounted(n) == closes[n] # 0 \/ Held(n) \/ n \in dropped

Placed ==
    /\ \A n \in started : Accounted(n)
    /\ \A c \in Calls : Joining(c) /\ ~Making(c) => Accounted(call[c].n)

HandInv ==
    /\ OneHand
    /\ HeldOpen
    /\ FreshUntouched
    /\ Placed
    /\ ClosedOnce
    /\ shut # "closing" => inHand = 0

\* The seat names the Host of its engine, and an engine picked to be fed is one
\* of the Host whose state it will be fed.
SeatWhole ==
    /\ viewer = 0 <=> viewerHost = NoHost
    /\ viewer # 0 => viewer <= joins /\ viewerHost = hostOf[viewer]

EngineInv ==
    /\ SeatWhole
    /\ \A c \in Calls : call[c].pc = "feed" /\ call[c].held # 0 =>
          call[c].held <= joins /\ hostOf[call[c].held] = hostOf[call[c].n]
    /\ \A h \in Hosts : reader[h].pc = "feed" /\ reader[h].held # 0 =>
          reader[h].held <= joins /\ hostOf[reader[h].held] = h
    /\ \A c \in Calls : Joining(c) => call[c].n \in Joins /\ call[c].n <= joins
    /\ \A n \in Joins : n <= joins => hostOf[n] \in Hosts
    /\ \A n \in Joins : n > joins => heard[n] = {}
    /\ EngineHearsItsHost

-----------------------------------------------------------------------------
\* ViewerSeat: type correctness

LEMMA TypeStep ==
    ASSUME TypeOK, EngineInv, [Next]_vars
    PROVE  TypeOK'
<1> USE DEF Joins
<1>1. ASSUME NEW c \in Calls, CallStep(c)
      PROVE  TypeOK'
  <2>0. call[c] \in CallStates /\ IdleCall \in CallStates
    BY DEF TypeOK, CallStates, IdleCall
  <2>1. CASE \E h \in Hosts : JoinParty(c, h)
    <3>1. PICK h \in Hosts : JoinParty(c, h)
      BY <2>1
    <3>2. joins + 1 \in Joins
      BY <3>1, BoundAssumption DEF JoinParty, TypeOK
    <3>3. [pc |-> "rpc", n |-> joins + 1, held |-> 0] \in CallStates
      BY <3>2 DEF CallStates
    <3>4. call' \in [Calls -> CallStates]
      BY <3>1, <3>3 DEF JoinParty, TypeOK
    <3>5. hostOf' \in [Joins -> Hosts \cup {NoHost}] /\ joins' \in Joins \cup {0}
      BY <3>1, <3>2 DEF JoinParty, TypeOK
    <3> QED
      BY <3>1, <3>4, <3>5 DEF JoinParty, TypeOK
  <2>2. CASE JoinFails(c)
    BY <2>0, <2>2 DEF JoinFails, TypeOK
  <2>3. CASE BeginViewer(c)
    <3>1. call[c].n \in Joins
      BY <2>3 DEF BeginViewer, EngineInv, Joining
    <3> QED
      BY <2>0, <2>3, <3>1 DEF BeginViewer, TypeOK, CallStates
  <2>4. CASE InstallSwarm(c)
    BY <2>0, <2>4 DEF InstallSwarm, TypeOK, CallStates
  <2>5. CASE CloseOld(c)
    <3>1. call' \in [Calls -> CallStates]
      BY <2>0, <2>5 DEF CloseOld, TypeOK, CallStates
    <3>2. closes' \in [Joins -> Nat]
      BY <2>0, <2>5 DEF CloseOld, Close, TypeOK, CallStates
    <3> QED
      BY <2>5, <3>1, <3>2 DEF CloseOld, TypeOK
  <2>6. CASE StartSwarm(c)
    <3>1. call[c].n \in Joins
      BY <2>6 DEF StartSwarm, EngineInv, Joining
    <3> QED
      BY <2>0, <2>6, <3>1 DEF StartSwarm, TypeOK, CallStates
  <2>7. CASE ReadInitial(c)
    BY <2>0, <2>7 DEF ReadInitial, EngineFor, TypeOK, CallStates
  <2>8. CASE FeedInitial(c)
    <3>1. hostOf[call[c].n] \in Hosts
      BY <2>8 DEF FeedInitial, EngineInv, Joining
    <3> QED
      BY <2>0, <2>8, <3>1 DEF FeedInitial, Feed, TypeOK, CallStates
  <2>9. CASE LeaveParty(c)
    <3>1. [pc |-> "closeLeft", n |-> 0, held |-> swarm] \in CallStates
      BY DEF TypeOK, CallStates
    <3> QED
      BY <2>9, <3>1 DEF LeaveParty, TypeOK
  <2>10. CASE CloseLeft(c)
    BY <2>0, <2>10 DEF CloseLeft, Close, TypeOK, CallStates
  <2> QED
    BY <1>1, <2>1, <2>2, <2>3, <2>4, <2>5, <2>6, <2>7, <2>8, <2>9, <2>10 DEF CallStep
<1>2. ASSUME NEW h \in Hosts, ReaderStep(h)
      PROVE  TypeOK'
  <2>0. reader[h] \in ReaderStates /\ IdleReader \in ReaderStates
    BY DEF TypeOK, ReaderStates, IdleReader
  <2>1. CASE OnPartyState(h)
    BY <2>1 DEF OnPartyState, EngineFor, TypeOK, ReaderStates
  <2>2. CASE FeedState(h)
    BY <2>0, <2>2 DEF FeedState, Feed, TypeOK, ReaderStates
  <2>3. CASE OnPartyEnded(h)
    BY <2>3 DEF OnPartyEnded, TypeOK, ReaderStates
  <2>4. CASE CloseEnded(h)
    BY <2>0, <2>4 DEF CloseEnded, Close, TypeOK, ReaderStates
  <2> QED
    BY <1>2, <2>1, <2>2, <2>3, <2>4 DEF ReaderStep
<1>3. CASE ShutDown
  BY <1>3 DEF ShutDown, TypeOK
<1>4. CASE CloseAtShutDown
  BY <1>4 DEF CloseAtShutDown, Close, TypeOK
<1>5. CASE UNCHANGED vars
  BY <1>5 DEF vars, TypeOK
<1> QED
  BY <1>1, <1>2, <1>3, <1>4, <1>5 DEF Next

-----------------------------------------------------------------------------
\* ViewerSeat: engines

LEMMA EngineStep ==
    ASSUME TypeOK, EngineInv, [Next]_vars
    PROVE  EngineInv'
<1>t. /\ viewer \in Joins \cup {0} /\ joins \in Nat /\ Joins \subseteq Nat \ {0}
      /\ hostOf \in [Joins -> Hosts \cup {NoHost}]
      /\ heard \in [Joins -> SUBSET Hosts]
      /\ call \in [Calls -> CallStates]
      /\ reader \in [Hosts -> ReaderStates]
      /\ \A c \in Calls : call[c].held \in Joins \cup {0} /\ call[c].n \in Joins \cup {0}
      /\ \A h \in Hosts : reader[h].held \in Joins \cup {0}
  BY DEF TypeOK, Joins, CallStates, ReaderStates
\* A step that feeds no engine, seats none and starts no join: one call or one
\* read loop moves on to a place where it will not feed.
<1>1. ASSUME UNCHANGED <<hostOf, heard, joins>>, SeatWhole',
             \A d \in Calls : (Joining(d)' => Joining(d) /\ call'[d].n = call[d].n)
                                 /\ (call'[d].pc = "feed" => call'[d] = call[d]),
             \A g \in Hosts : reader'[g].pc = "feed" => reader'[g] = reader[g]
      PROVE  EngineInv'
  BY <1>1 DEF EngineInv, EngineHearsItsHost
<1>2. ASSUME NEW c \in Calls, CallStep(c)
      PROVE  EngineInv'
  <2>0. call[c] \in CallStates
    BY <1>t
  <2>1. ASSUME NEW h \in Hosts, JoinParty(c, h)
        PROVE  EngineInv'
    <3>1. /\ joins' = joins + 1
          /\ joins + 1 \in Joins
          /\ hostOf' = [hostOf EXCEPT ![joins + 1] = h]
          /\ call' = [call EXCEPT ![c] = [pc |-> "rpc", n |-> joins + 1, held |-> 0]]
          /\ UNCHANGED <<viewer, viewerHost, heard, reader>>
      BY <2>1, <1>t, BoundAssumption DEF JoinParty, Joins
    <3>2. \A n \in Joins : n <= joins => hostOf'[n] = hostOf[n]
      BY <3>1, <1>t
    <3>3. hostOf'[joins + 1] = h /\ heard[joins + 1] = {}
      BY <3>1, <1>t DEF EngineInv
    <3>4. /\ call'[c].pc = "rpc" /\ call'[c].n = joins + 1
          /\ \A d \in Calls : d # c => call'[d] = call[d]
      BY <3>1, <1>t
    <3>5. SeatWhole'
      BY <3>1, <3>2, <1>t DEF EngineInv, SeatWhole
    <3>6. \A d \in Calls : call'[d].pc = "feed" /\ call'[d].held # 0 =>
             call'[d].held <= joins' /\ hostOf'[call'[d].held] = hostOf'[call'[d].n]
      <4> SUFFICES ASSUME NEW d \in Calls, call'[d].pc = "feed", call'[d].held # 0
                   PROVE  /\ call'[d].held <= joins'
                          /\ hostOf'[call'[d].held] = hostOf'[call'[d].n]
        OBVIOUS
      <4>1. d # c /\ call'[d] = call[d]
        BY <3>4
      <4>2. /\ call[d].held \in Joins /\ call[d].held <= joins
            /\ call[d].n \in Joins /\ call[d].n <= joins
            /\ hostOf[call[d].held] = hostOf[call[d].n]
        BY <4>1, <1>t DEF EngineInv, Joining
      <4>3. call[d].held \in Nat /\ joins \in Nat /\ joins' = joins + 1
        BY <3>1, <4>2, <1>t
      <4>4. call[d].held <= joins'
        BY <4>2, <4>3
      <4> QED
        BY <3>2, <4>1, <4>2, <4>4
    <3>7. \A g \in Hosts : reader'[g].pc = "feed" /\ reader'[g].held # 0 =>
             reader'[g].held <= joins' /\ hostOf'[reader'[g].held] = g
      <4> SUFFICES ASSUME NEW g \in Hosts, reader[g].pc = "feed", reader[g].held # 0
                   PROVE  reader[g].held <= joins' /\ hostOf'[reader[g].held] = g
        BY <3>1
      <4>1. reader[g].held \in Joins /\ reader[g].held <= joins /\ hostOf[reader[g].held] = g
        BY <1>t DEF EngineInv
      <4>2. reader[g].held \in Nat /\ joins \in Nat /\ joins' = joins + 1
        BY <3>1, <4>1, <1>t
      <4>3. reader[g].held <= joins'
        BY <4>1, <4>2
      <4> QED
        BY <3>2, <4>1, <4>3
    <3>8. \A d \in Calls : Joining(d)' => call'[d].n \in Joins /\ call'[d].n <= joins'
      <4> SUFFICES ASSUME NEW d \in Calls, Joining(d)'
                   PROVE  call'[d].n \in Joins /\ call'[d].n <= joins'
        OBVIOUS
      <4>1. CASE d = c
        BY <3>1, <3>4, <4>1, <1>t
      <4>2. CASE d # c
        <5>1. call[d].n \in Joins /\ call[d].n <= joins
          BY <3>4, <4>2 DEF EngineInv, Joining
        <5>2. call[d].n \in Nat /\ joins \in Nat /\ joins' = joins + 1
          BY <3>1, <5>1, <1>t
        <5>3. call[d].n <= joins'
          BY <5>1, <5>2
        <5> QED
          BY <3>4, <4>2, <5>1, <5>3
      <4> QED
        BY <4>1, <4>2
    <3>9. \A n \in Joins : n <= joins' => hostOf'[n] \in Hosts
      BY <3>1, <3>2, <3>3, <1>t DEF EngineInv
    <3>10. \A n \in Joins : n > joins' => heard'[n] = {}
      BY <3>1, <1>t DEF EngineInv
    <3>11. EngineHearsItsHost'
      BY <3>1, <3>2, <3>3, <1>t DEF EngineInv, EngineHearsItsHost
    <3> QED
      BY <3>5, <3>6, <3>7, <3>8, <3>9, <3>10, <3>11 DEF EngineInv
  <2>2. CASE JoinFails(c)
    BY <1>1, <2>0, <2>2, <1>t DEF JoinFails, IdleCall, Joining, EngineInv, SeatWhole
  <2>3. CASE BeginViewer(c)
    <3>1. /\ viewer' = call[c].n /\ viewerHost' = hostOf[call[c].n]
          /\ call[c].n \in Joins /\ call[c].n <= joins
          /\ hostOf[call[c].n] \in Hosts
      BY <2>3 DEF BeginViewer, EngineInv, Joining
    <3>2. UNCHANGED <<hostOf, heard, joins, reader>>
      BY <2>3 DEF BeginViewer
    <3>3. SeatWhole'
      BY <3>1, <3>2, <1>t, HostAssumption DEF SeatWhole
    <3> QED
      BY <1>1, <2>0, <2>3, <3>2, <3>3, <1>t DEF BeginViewer, Joining, CallStates
  <2>4. CASE InstallSwarm(c)
    BY <1>1, <2>0, <2>4, <1>t DEF InstallSwarm, Joining, EngineInv, SeatWhole, CallStates
  <2>5. CASE CloseOld(c)
    BY <1>1, <2>0, <2>5, <1>t DEF CloseOld, Joining, EngineInv, SeatWhole, CallStates
  <2>6. CASE StartSwarm(c)
    BY <1>1, <2>0, <2>6, <1>t DEF StartSwarm, Joining, EngineInv, SeatWhole, CallStates
  <2>7. CASE ReadInitial(c)
    <3>1. /\ call[c].pc = "initial"
          /\ call' = [call EXCEPT ![c] = [call[c] EXCEPT !.pc = "feed",
                                              !.held = EngineFor(hostOf[call[c].n])]]
          /\ UNCHANGED <<viewer, viewerHost, hostOf, heard, joins, reader>>
      BY <2>7 DEF ReadInitial
    <3>2. /\ call'[c].pc = "feed" /\ call'[c].n = call[c].n
          /\ call'[c].held = EngineFor(hostOf[call[c].n])
          /\ \A d \in Calls : d # c => call'[d] = call[d]
      BY <2>0, <3>1, <1>t DEF CallStates
    <3>3. call'[c].held # 0 => call'[c].held <= joins /\ hostOf[call'[c].held] = hostOf[call[c].n]
      BY <3>2 DEF EngineFor, EngineInv, SeatWhole
    <3>4. \A d \in Calls : Joining(d)' => Joining(d) /\ call'[d].n = call[d].n
      BY <3>1, <3>2 DEF Joining
    <3> QED
      BY <3>1, <3>2, <3>3, <3>4 DEF EngineInv, SeatWhole, EngineHearsItsHost
  <2>8. CASE FeedInitial(c)
    <3>1. /\ call[c].pc = "feed"
          /\ call' = [call EXCEPT ![c] = IdleCall]
          /\ Feed(call[c].held, hostOf[call[c].n])
          /\ UNCHANGED <<viewer, viewerHost, hostOf, joins, reader>>
      BY <2>8 DEF FeedInitial
    <3>2. EngineHearsItsHost' /\ \A n \in Joins : n > joins => heard'[n] = {}
      BY <3>1, <1>t DEF Feed, EngineInv, EngineHearsItsHost
    <3>3. \A d \in Calls : /\ Joining(d)' => Joining(d) /\ call'[d].n = call[d].n
                           /\ call'[d].pc = "feed" => call'[d] = call[d]
      BY <3>1, <1>t DEF Joining, IdleCall
    <3> QED
      BY <3>1, <3>2, <3>3 DEF EngineInv, SeatWhole
  <2>9. CASE LeaveParty(c)
    <3>1. viewer' = 0 /\ viewerHost' = NoHost /\ UNCHANGED <<hostOf, heard, joins, reader>>
      BY <2>9 DEF LeaveParty
    <3>2. \A d \in Calls : /\ Joining(d)' => Joining(d) /\ call'[d].n = call[d].n
                           /\ call'[d].pc = "feed" => call'[d] = call[d]
      BY <2>9, <1>t DEF LeaveParty, Joining
    <3>3. SeatWhole'
      BY <3>1 DEF SeatWhole
    <3> QED
      BY <1>1, <3>1, <3>2, <3>3
  <2>10. CASE CloseLeft(c)
    BY <1>1, <2>0, <2>10, <1>t DEF CloseLeft, IdleCall, Joining, EngineInv, SeatWhole
  <2> QED
    BY <1>2, <2>1, <2>2, <2>3, <2>4, <2>5, <2>6, <2>7, <2>8, <2>9, <2>10 DEF CallStep
<1>3. ASSUME NEW h \in Hosts, ReaderStep(h)
      PROVE  EngineInv'
  <2>1. CASE OnPartyState(h)
    <3>1. /\ reader' = [reader EXCEPT ![h] = [pc |-> "feed", held |-> EngineFor(h)]]
          /\ UNCHANGED <<viewer, viewerHost, hostOf, heard, joins, call>>
      BY <2>1 DEF OnPartyState
    <3>2. EngineFor(h) # 0 => EngineFor(h) <= joins /\ hostOf[EngineFor(h)] = h
      BY DEF EngineFor, EngineInv, SeatWhole
    <3>3. \A g \in Hosts : reader'[g].pc = "feed" /\ reader'[g].held # 0 =>
             reader'[g].held <= joins /\ hostOf[reader'[g].held] = g
      BY <3>1, <3>2, <1>t DEF EngineInv
    <3> QED
      BY <3>1, <3>3 DEF EngineInv, SeatWhole, Joining, EngineHearsItsHost
  <2>2. CASE FeedState(h)
    <3>1. /\ reader[h].pc = "feed"
          /\ reader' = [reader EXCEPT ![h] = IdleReader]
          /\ Feed(reader[h].held, h)
          /\ UNCHANGED <<viewer, viewerHost, hostOf, joins, call>>
      BY <2>2 DEF FeedState
    <3>2. EngineHearsItsHost' /\ \A n \in Joins : n > joins => heard'[n] = {}
      BY <3>1, <1>t DEF Feed, EngineInv, EngineHearsItsHost
    <3>3. \A g \in Hosts : reader'[g].pc = "feed" => reader'[g] = reader[g]
      BY <3>1, <1>t DEF IdleReader
    <3> QED
      BY <3>1, <3>2, <3>3 DEF EngineInv, SeatWhole, Joining
  <2>3. CASE OnPartyEnded(h)
    <3>1. /\ viewer' = 0 /\ viewerHost' = NoHost
          /\ UNCHANGED <<hostOf, heard, joins, call>>
          /\ \A g \in Hosts : reader'[g].pc = "feed" => reader'[g] = reader[g]
      BY <2>3, <1>t DEF OnPartyEnded
    <3>2. SeatWhole'
      BY <3>1 DEF SeatWhole
    <3> QED
      BY <1>1, <3>1, <3>2 DEF Joining
  <2>4. CASE CloseEnded(h)
    <3>1. /\ UNCHANGED <<viewer, viewerHost, hostOf, heard, joins, call>>
          /\ \A g \in Hosts : reader'[g].pc = "feed" => reader'[g] = reader[g]
      BY <2>4, <1>t DEF CloseEnded, IdleReader
    <3> QED
      BY <1>1, <3>1 DEF Joining, EngineInv, SeatWhole
  <2> QED
    BY <1>3, <2>1, <2>2, <2>3, <2>4 DEF ReaderStep
<1>4. CASE ShutDown \/ CloseAtShutDown \/ UNCHANGED vars
  BY <1>1, <1>4 DEF ShutDown, CloseAtShutDown, vars, Joining, EngineInv, SeatWhole
<1> QED
  BY <1>2, <1>3, <1>4 DEF Next

LEMMA SeatInit == Init => TypeOK /\ EngineInv
<1> SUFFICES ASSUME Init PROVE TypeOK /\ EngineInv
  OBVIOUS
<1>1. IdleCall \in CallStates /\ IdleReader \in ReaderStates
  BY DEF IdleCall, CallStates, IdleReader, ReaderStates
<1>2. TypeOK
  BY <1>1 DEF Init, TypeOK
<1>3. /\ \A c \in Calls : ~Joining(c)
      /\ \A h \in Hosts : reader[h].pc = "idle"
      /\ \A n \in Joins : heard[n] = {} /\ ~(n <= joins)
      /\ viewer = 0 /\ viewerHost = NoHost
  BY DEF Init, Joining, IdleCall, IdleReader, Joins
<1>4. EngineInv
  BY <1>3 DEF EngineInv, SeatWhole, EngineHearsItsHost, Joining
<1> QED
  BY <1>2, <1>4

LEMMA SeatAlways == Spec => [](TypeOK /\ EngineInv)
<1>1. (TypeOK /\ EngineInv) /\ [Next]_vars => (TypeOK /\ EngineInv)'
  BY TypeStep, EngineStep
<1> QED
  BY <1>1, SeatInit, PTL DEF Spec

\* Type correctness of the coordinator's Viewer side.
THEOREM TypeCorrect == Spec => []TypeOK
BY SeatAlways, PTL

\* A Viewer engine is fed by the Host it was made for only, for any number of
\* Hosts and of concurrent joins and leaves, although OnPartyState feeds it after
\* it released the lock.
THEOREM EngineHearsOnlyItsHost == Spec => []EngineHearsItsHost
<1>1. EngineInv => EngineHearsItsHost
  BY DEF EngineInv
<1> QED
  BY <1>1, SeatAlways, PTL

-----------------------------------------------------------------------------
\* ViewerSeat: sessions

\* The steps that put nothing in a hand and close nothing.
LEMMA HandsStill ==
    ASSUME TypeOK, HandInv,
           UNCHANGED <<swarm, inHand, closes, dropped, shut, joins, started>>,
           \A n \in Joins, d \in Calls : CallHolds(d, n)' <=> CallHolds(d, n),
           \A n \in Joins, h \in Hosts : ReaderHolds(h, n)' <=> ReaderHolds(h, n),
           \A d \in Calls : /\ Joining(d)' => Joining(d) /\ call'[d].n = call[d].n
                            /\ Joining(d)' => (Making(d)' <=> Making(d))
    PROVE  HandInv'
<1>1. \A n \in Joins : Held(n)' <=> Held(n)
  BY DEF Held, CallHolds, ReaderHolds
<1>2. OneHand'
  BY DEF HandInv, OneHand
<1>3. HeldOpen'
  BY <1>1 DEF HandInv, HeldOpen
<1>4. FreshUntouched'
  <2>1. \A n \in Joins : Untouched(n)' <=> Untouched(n)
    BY <1>1 DEF Untouched
  <2>2. \A d \in Calls : Making(d)' => Joining(d)'
    BY DEF Making, Joining
  <2> QED
    BY <2>1, <2>2 DEF HandInv, FreshUntouched
<1>5. Placed'
  <2>1. \A n \in Joins : Accounted(n) => Accounted(n)'
    BY <1>1 DEF Accounted
  <2>2. started \subseteq Joins /\ \A d \in Calls : Joining(d) => call[d].n \in Joins
    BY DEF TypeOK, HandInv, FreshUntouched
  <2> QED
    BY <2>1, <2>2 DEF HandInv, Placed
<1> QED
  BY <1>2, <1>3, <1>4, <1>5 DEF HandInv, ClosedOnce

\* The steps that pass a session from one hand to another, lose it or close it.
LEMMA HandsChange ==
    ASSUME TypeOK, HandInv,
           UNCHANGED <<joins, started>>,
           OneHand', HeldOpen', ClosedOnce',
           shut' # "closing" => inHand' = 0,
           \A n \in Joins : Held(n)' => Held(n),
           \A n \in Joins : ~Held(n) => closes'[n] = closes[n],
           \A n \in Joins : Accounted(n) => Accounted(n)',
           \A d \in Calls : /\ Joining(d)' => Joining(d) /\ call'[d].n = call[d].n
                            /\ Joining(d)' => (Making(d)' <=> Making(d))
    PROVE  HandInv'
<1>1. FreshUntouched'
  <2>1. \A n \in Joins : Untouched(n) => Untouched(n)'
    BY DEF Untouched
  <2>2. \A d \in Calls : Making(d)' => Joining(d)'
    BY DEF Making, Joining
  <2> QED
    BY <2>1, <2>2 DEF HandInv, FreshUntouched
<1>2. Placed'
  <2>1. started \subseteq Joins /\ \A d \in Calls : Joining(d) => call[d].n \in Joins
    BY DEF TypeOK, HandInv, FreshUntouched
  <2> QED
    BY <2>1 DEF HandInv, Placed
<1> QED
  BY <1>1, <1>2 DEF HandInv

\* Closing the session m that a hand held and now does not.
LEMMA HandCloses ==
    ASSUME TypeOK, HandInv, NEW m \in Joins \cup {0}, Close(m),
           UNCHANGED <<joins, started, dropped>>,
           OneHand',
           shut' # "closing" => inHand' = 0,
           m # 0 => Held(m),
           \A n \in Joins : Held(n)' <=> Held(n) /\ n # m,
           \A d \in Calls : /\ Joining(d)' => Joining(d) /\ call'[d].n = call[d].n
                            /\ Joining(d)' => (Making(d)' <=> Making(d))
    PROVE  HandInv'
<1>1. /\ \A n \in Joins : n # m => closes'[n] = closes[n]
      /\ m # 0 => closes'[m] = closes[m] + 1
      /\ m # 0 => closes[m] = 0
      /\ 0 \notin Joins
  BY DEF Close, TypeOK, HandInv, HeldOpen, Joins
<1>2. HeldOpen' /\ ClosedOnce'
  BY <1>1 DEF HandInv, HeldOpen, ClosedOnce
<1>3. \A n \in Joins : ~Held(n) => closes'[n] = closes[n]
  BY <1>1
<1>4. \A n \in Joins : Accounted(n) => Accounted(n)'
  BY <1>1 DEF Accounted
<1> QED
  BY <1>2, <1>3, <1>4, HandsChange

\* A call closes the session in its hand.
LEMMA CallCloses ==
    ASSUME TypeOK, HandInv, NEW c \in Calls,
           call[c].pc \in {"closeOld", "closeLeft"}, Close(call[c].held),
           UNCHANGED <<swarm, inHand, shut, reader, joins, started, dropped>>,
           call'[c].pc \notin {"closeOld", "closeLeft"},
           \A d \in Calls : d # c => call'[d] = call[d],
           Joining(c)' => Joining(c) /\ ~Making(c) /\ ~Making(c)' /\ call'[c].n = call[c].n
    PROVE  HandInv'
<1> DEFINE m == call[c].held
<1>1. m \in Joins \cup {0} /\ (m # 0 => m \in Joins)
  BY DEF TypeOK, CallStates
<1>2. /\ \A n \in Joins : ~CallHolds(c, n)'
      /\ \A d \in Calls, n \in Joins : d # c => (CallHolds(d, n)' <=> CallHolds(d, n))
      /\ \A h \in Hosts, n \in Joins : ReaderHolds(h, n)' <=> ReaderHolds(h, n)
      /\ \A n \in Joins : CallHolds(c, n) <=> n = m
  BY DEF CallHolds, ReaderHolds
<1>3. OneHand'
  BY <1>2 DEF HandInv, OneHand
<1>4. \A n \in Joins : Held(n) <=> \/ swarm = n \/ inHand = n
                                   \/ \E d \in Calls : CallHolds(d, n)
                                   \/ \E h \in Hosts : ReaderHolds(h, n)
  BY DEF Held, CallHolds, ReaderHolds
<1>5. \A n \in Joins : Held(n)' <=> \/ swarm = n \/ inHand = n
                                    \/ \E d \in Calls : CallHolds(d, n)'
                                    \/ \E h \in Hosts : ReaderHolds(h, n)'
  BY DEF Held, CallHolds, ReaderHolds
<1>6. \A n \in Joins : Held(n)' <=> Held(n) /\ n # m
  BY <1>2, <1>4, <1>5 DEF HandInv, OneHand
<1>7. m # 0 => Held(m)
  BY <1>1, <1>2, <1>4
<1>8. \A d \in Calls : /\ Joining(d)' => Joining(d) /\ call'[d].n = call[d].n
                       /\ Joining(d)' => (Making(d)' <=> Making(d))
  BY DEF Joining, Making
<1>9. shut' # "closing" => inHand' = 0
  BY DEF HandInv
<1> QED
  BY <1>1, <1>3, <1>6, <1>7, <1>8, <1>9, HandCloses

\* A read loop closes the session in its hand.
LEMMA ReaderCloses ==
    ASSUME TypeOK, HandInv, NEW h \in Hosts, CloseEnded(h)
    PROVE  HandInv'
<1> DEFINE m == reader[h].held
<1>0. /\ reader[h].pc = "close" /\ Close(m)
      /\ reader'[h].pc = "idle"
      /\ \A g \in Hosts : g # h => reader'[g] = reader[g]
      /\ UNCHANGED <<swarm, inHand, shut, call, joins, started, dropped>>
  BY DEF CloseEnded, IdleReader, TypeOK
<1>1. m \in Joins \cup {0} /\ (m # 0 => m \in Joins)
  BY DEF TypeOK, ReaderStates
<1>2. /\ \A n \in Joins : ~ReaderHolds(h, n)'
      /\ \A g \in Hosts, n \in Joins : g # h => (ReaderHolds(g, n)' <=> ReaderHolds(g, n))
      /\ \A d \in Calls, n \in Joins : CallHolds(d, n)' <=> CallHolds(d, n)
      /\ \A n \in Joins : ReaderHolds(h, n) <=> n = m
  BY <1>0 DEF CallHolds, ReaderHolds
<1>3. OneHand'
  BY <1>0, <1>2 DEF HandInv, OneHand
<1>4. \A n \in Joins : Held(n) <=> \/ swarm = n \/ inHand = n
                                   \/ \E d \in Calls : CallHolds(d, n)
                                   \/ \E g \in Hosts : ReaderHolds(g, n)
  BY DEF Held, CallHolds, ReaderHolds
<1>5. \A n \in Joins : Held(n)' <=> \/ swarm = n \/ inHand = n
                                    \/ \E d \in Calls : CallHolds(d, n)'
                                    \/ \E g \in Hosts : ReaderHolds(g, n)'
  BY <1>0 DEF Held, CallHolds, ReaderHolds
<1>6. \A n \in Joins : Held(n)' <=> Held(n) /\ n # m
  BY <1>2, <1>4, <1>5 DEF HandInv, OneHand
<1>7. m # 0 => Held(m)
  BY <1>1, <1>2, <1>4
<1>8. \A d \in Calls : /\ Joining(d)' => Joining(d) /\ call'[d].n = call[d].n
                       /\ Joining(d)' => (Making(d)' <=> Making(d))
  BY <1>0 DEF Joining, Making
<1>9. shut' # "closing" => inHand' = 0
  BY <1>0 DEF HandInv
<1> HIDE DEF m
<1> QED
  BY <1>0, <1>1, <1>3, <1>6, <1>7, <1>8, <1>9, HandCloses

\* A hand takes the session out of the seat: LeaveParty with a viewer,
\* OnPartyEnded and pc.close. LeaveParty without one loses it.
LEMMA SeatEmptied ==
    ASSUME TypeOK, HandInv, swarm' = 0, UNCHANGED <<closes, joins, started>>,
           dropped \subseteq dropped',
           \A d \in Calls : /\ Joining(d)' => Joining(d) /\ call'[d].n = call[d].n
                            /\ Joining(d)' => (Making(d)' <=> Making(d)),
           shut' # "closing" => inHand' = 0,
           OneHand',
           \A n \in Joins : Held(n)' => Held(n),
           \A n \in Joins : Held(n) => Held(n)' \/ n \in dropped'
    PROVE  HandInv'
<1>1. HeldOpen' /\ ClosedOnce'
  BY DEF HandInv, HeldOpen, ClosedOnce
<1>2. \A n \in Joins : Accounted(n) => Accounted(n)'
  BY DEF Accounted
<1> QED
  BY <1>1, <1>2, HandsChange

\* A new JoinParty call: its session is one nothing has happened to.
LEMMA JoinKeepsHands ==
    ASSUME TypeOK, HandInv, NEW c \in Calls, NEW h \in Hosts, JoinParty(c, h)
    PROVE  HandInv'
<1>0. /\ joins \in Nat /\ joins' = joins + 1 /\ joins + 1 \in Joins /\ Joins \subseteq Nat
      /\ call[c].pc = "idle"
      /\ call'[c].pc = "rpc" /\ call'[c].n = joins + 1
      /\ \A d \in Calls : d # c => call'[d] = call[d]
      /\ UNCHANGED <<swarm, inHand, shut, reader, closes, started, dropped>>
  BY BoundAssumption DEF JoinParty, TypeOK, Joins
<1>1. /\ \A d \in Calls, n \in Joins : CallHolds(d, n)' <=> CallHolds(d, n)
      /\ \A g \in Hosts, n \in Joins : ReaderHolds(g, n)' <=> ReaderHolds(g, n)
  BY <1>0 DEF CallHolds, ReaderHolds
<1>2. \A n \in Joins : (Held(n)' <=> Held(n)) /\ (Untouched(n)' <=> Untouched(n))
                          /\ (Accounted(n)' <=> Accounted(n))
  BY <1>0, <1>1 DEF Held, CallHolds, ReaderHolds, Untouched, Accounted
<1>3. OneHand' /\ HeldOpen' /\ ClosedOnce' /\ (shut' # "closing" => inHand' = 0)
  BY <1>0, <1>1, <1>2 DEF HandInv, OneHand, HeldOpen, ClosedOnce
<1>4. FreshUntouched'
  <2>1. Making(c)' /\ Joining(c)' /\ Untouched(joins + 1)
    BY <1>0 DEF Making, Joining, HandInv, FreshUntouched
  <2>2. \A d \in Calls : d # c => /\ Joining(d)' <=> Joining(d)
                                  /\ Making(d)' <=> Making(d)
                                  /\ call'[d].n = call[d].n
    BY <1>0 DEF Making, Joining
  <2>3. \A d \in Calls : d # c /\ Joining(d) => call[d].n \in Nat /\ call[d].n <= joins
    BY <1>0 DEF HandInv, FreshUntouched
  <2>4. \A d \in Calls : Joining(d)' => call'[d].n \in Joins /\ call'[d].n <= joins'
    <3> SUFFICES ASSUME NEW d \in Calls, Joining(d)'
                 PROVE  call'[d].n \in Joins /\ call'[d].n <= joins'
      OBVIOUS
    <3>1. CASE d = c
      BY <1>0, <3>1
    <3>2. CASE d # c
      <4>1. call[d].n \in Joins /\ call[d].n \in Nat /\ call[d].n <= joins
        BY <2>2, <3>2, <1>0 DEF HandInv, FreshUntouched
      <4> QED
        BY <4>1, <2>2, <3>2, <1>0
    <3> QED
      BY <3>1, <3>2
  <2>5. \A d \in Calls : (Making(d) => Untouched(call[d].n))'
    <3> SUFFICES ASSUME NEW d \in Calls, Making(d)'
                 PROVE  Untouched(call[d].n)'
      OBVIOUS
    <3>0. call'[d].n \in Joins
      BY <2>4 DEF Making, Joining
    <3>1. Untouched(call'[d].n)
      BY <1>0, <2>1, <2>2 DEF HandInv, FreshUntouched
    <3> DEFINE k == call'[d].n
    <3>2. /\ swarm' # k /\ inHand' # k /\ closes'[k] = 0 /\ k \notin started'
          /\ \A e \in Calls : ~(call'[e].pc \in {"closeOld", "closeLeft"} /\ call'[e].held = k)
          /\ \A g \in Hosts : ~(reader'[g].pc = "close" /\ reader'[g].held = k)
      <4> HIDE DEF k
      <4> QED
        BY <1>0, <3>1 DEF Untouched, Held, k
    <3> QED
      BY <3>2 DEF Untouched, Held
  <2>6. \A d \in Calls, e \in Calls :
           Making(d)' /\ Joining(e)' /\ call'[d].n = call'[e].n => d = e
    <3> SUFFICES ASSUME NEW d \in Calls, NEW e \in Calls, Making(d)', Joining(e)',
                        call'[d].n = call'[e].n, d # e
                 PROVE  FALSE
      OBVIOUS
    <3>1. Joining(d)'
      BY DEF Making, Joining
    <3>2. CASE d = c
      BY <3>2, <1>0, <2>2, <2>3
    <3>3. CASE e = c
      BY <3>1, <3>3, <1>0, <2>2, <2>3
    <3>4. CASE d # c /\ e # c
      BY <3>4, <2>2 DEF HandInv, FreshUntouched
    <3> QED
      BY <3>2, <3>3, <3>4
  <2>7. \A n \in Joins : n > joins' => Untouched(n)'
    BY <1>0, <1>2 DEF HandInv, FreshUntouched
  <2> QED
    BY <2>4, <2>5, <2>6, <2>7 DEF FreshUntouched
<1>5. Placed'
  <2>1. \A n \in started' : Accounted(n)'
    BY <1>0, <1>2 DEF HandInv, Placed, TypeOK
  <2>2. ASSUME NEW d \in Calls, Joining(d)', ~Making(d)'
        PROVE  Accounted(call[d].n)'
    <3>1. d # c /\ call'[d] = call[d]
      BY <1>0, <2>2 DEF Making
    <3>2. Joining(d) /\ ~Making(d)
      BY <2>2, <3>1 DEF Joining, Making
    <3>3. call[d].n \in Joins /\ Accounted(call[d].n)
      BY <3>2 DEF HandInv, Placed, FreshUntouched
    <3>4. Held(call[d].n) => Held(call[d].n)'
      <4> SUFFICES ASSUME Held(call[d].n) PROVE Held(call[d].n)'
        OBVIOUS
      <4>1. \/ swarm' = call[d].n \/ inHand' = call[d].n
            \/ \E e \in Calls : call'[e].pc \in {"closeOld", "closeLeft"}
                                   /\ call'[e].held = call[d].n
            \/ \E g \in Hosts : reader'[g].pc = "close" /\ reader'[g].held = call[d].n
        BY <1>0 DEF Held
      <4> QED
        BY <3>1, <4>1 DEF Held
    <3> QED
      BY <1>0, <3>1, <3>3, <3>4 DEF Accounted
  <2> QED
    BY <2>1, <2>2 DEF Placed
<1> QED
  BY <1>3, <1>4, <1>5 DEF HandInv

\* JoinParty puts its session in the seat and takes the one that was there.
LEMMA InstallKeepsHands ==
    ASSUME TypeOK, HandInv, NEW c \in Calls, InstallSwarm(c)
    PROVE  HandInv'
<1> DEFINE n == call[c].n
           m == swarm
<1>0. /\ swarm' = n
      /\ call[c].pc = "begun"
      /\ call'[c].pc = "closeOld" /\ call'[c].n = n /\ call'[c].held = m
      /\ \A d \in Calls : d # c => call'[d] = call[d]
      /\ UNCHANGED <<inHand, shut, reader, closes, joins, started, dropped>>
  <2>1. call[c] \in CallStates
    BY DEF TypeOK
  <2> QED
    BY <2>1 DEF InstallSwarm, TypeOK, CallStates
<1>1. n \in Joins /\ n <= joins /\ Untouched(n) /\ Making(c) /\ Joining(c)
  BY <1>0 DEF HandInv, FreshUntouched, Making, Joining
<1>2. /\ \A d \in Calls, k \in Joins : d # c => (CallHolds(d, k)' <=> CallHolds(d, k))
      /\ \A k \in Joins : ~CallHolds(c, k) /\ (CallHolds(c, k)' <=> k = m)
      /\ \A g \in Hosts, k \in Joins : ReaderHolds(g, k)' <=> ReaderHolds(g, k)
  BY <1>0 DEF CallHolds, ReaderHolds
<1>3. /\ swarm # n /\ inHand # n
      /\ \A d \in Calls : ~CallHolds(d, n)
      /\ \A g \in Hosts : ~ReaderHolds(g, n)
  BY <1>1 DEF Untouched, Held, CallHolds, ReaderHolds
<1>4. OneHand'
  BY <1>0, <1>2, <1>3 DEF HandInv, OneHand
<1>5. \A k \in Joins : Held(k)' <=> Held(k) \/ k = n
  <2>1. \A k \in Joins : Held(k) <=> \/ swarm = k \/ inHand = k
                                     \/ \E d \in Calls : CallHolds(d, k)
                                     \/ \E g \in Hosts : ReaderHolds(g, k)
    BY DEF Held, CallHolds, ReaderHolds
  <2>2. \A k \in Joins : Held(k)' <=> \/ n = k \/ inHand = k
                                      \/ \E d \in Calls : CallHolds(d, k)'
                                      \/ \E g \in Hosts : ReaderHolds(g, k)'
    BY <1>0 DEF Held, CallHolds, ReaderHolds
  <2> QED
    BY <1>2, <2>1, <2>2
<1>6. HeldOpen' /\ ClosedOnce' /\ (shut' # "closing" => inHand' = 0)
  BY <1>0, <1>1, <1>5 DEF HandInv, HeldOpen, ClosedOnce, Untouched
<1>7. \A d \in Calls : /\ Joining(d)' <=> Joining(d)
                       /\ call'[d].n = call[d].n
                       /\ Making(d)' <=> Making(d) /\ d # c
  BY <1>0 DEF Joining, Making
<1>8. \A k \in Joins : /\ k # n /\ Untouched(k) => Untouched(k)'
                       /\ Accounted(k) => Accounted(k)'
  BY <1>0, <1>5 DEF Untouched, Accounted
<1>9. \A d \in Calls : Making(d) /\ d # c => call[d].n # n
  BY <1>1 DEF HandInv, FreshUntouched
<1>10. FreshUntouched'
  <2>1. \A d \in Calls : (Making(d) => Untouched(call[d].n))'
    <3> SUFFICES ASSUME NEW d \in Calls, Making(d)'
                 PROVE  Untouched(call[d].n)'
      OBVIOUS
    <3>1. d # c /\ Making(d) /\ Joining(d) /\ call'[d] = call[d]
      BY <1>0, <1>7 DEF Making, Joining
    <3>2. call[d].n \in Joins /\ Untouched(call[d].n) /\ call[d].n # n
      BY <3>1, <1>9 DEF HandInv, FreshUntouched
    <3>3. ~Held(call[d].n)' /\ closes'[call[d].n] = 0 /\ call[d].n \notin started'
      <4> DEFINE k == call[d].n
      <4>1. /\ swarm' # k /\ inHand' # k
            /\ \A e \in Calls : ~(call'[e].pc \in {"closeOld", "closeLeft"} /\ call'[e].held = k)
            /\ \A g \in Hosts : ~(reader'[g].pc = "close" /\ reader'[g].held = k)
        BY <1>0, <3>2 DEF Untouched, Held
      <4>2. ~Held(call[d].n)'
        BY <3>1, <4>1 DEF Held
      <4> QED
        BY <1>0, <3>2, <4>2 DEF Untouched
    <3> QED
      BY <3>1, <3>3 DEF Untouched
  <2>2. \A k \in Joins : k > joins' => Untouched(k)'
    <3>1. \A k \in Joins : k > joins => k # n
      BY <1>1 DEF Joins, TypeOK
    <3> QED
      BY <1>0, <1>8, <3>1 DEF HandInv, FreshUntouched
  <2>3. \A d \in Calls : Joining(d)' => call'[d].n \in Joins /\ call'[d].n <= joins'
    BY <1>0, <1>7 DEF HandInv, FreshUntouched
  <2>4. \A d \in Calls, e \in Calls :
           Making(d)' /\ Joining(e)' /\ call'[d].n = call'[e].n => d = e
    BY <1>7 DEF HandInv, FreshUntouched
  <2> QED
    BY <2>1, <2>2, <2>3, <2>4 DEF FreshUntouched
<1>11. Placed'
  <2>1. \A k \in started' : Accounted(k)'
    BY <1>0, <1>8 DEF HandInv, Placed, TypeOK
  <2>2. ASSUME NEW d \in Calls, Joining(d)', ~Making(d)'
        PROVE  Accounted(call[d].n)'
    <3>1. CASE d = c
      BY <1>0, <3>1 DEF Accounted, Held
    <3>2. CASE d # c
      <4>1. call'[d] = call[d] /\ Joining(d) /\ ~Making(d)
        BY <1>0, <1>7, <2>2, <3>2
      <4>2. call[d].n \in Joins /\ Accounted(call[d].n)
        BY <4>1 DEF HandInv, Placed, FreshUntouched
      <4>3. Held(call[d].n) => Held(call[d].n)'
        <5> SUFFICES ASSUME Held(call[d].n) PROVE Held(call[d].n)'
          OBVIOUS
        <5>1. \/ swarm' = call[d].n \/ inHand' = call[d].n
              \/ \E e \in Calls : call'[e].pc \in {"closeOld", "closeLeft"}
                                     /\ call'[e].held = call[d].n
              \/ \E g \in Hosts : reader'[g].pc = "close" /\ reader'[g].held = call[d].n
          BY <1>0 DEF Held
        <5> QED
          BY <4>1, <5>1 DEF Held
      <4> QED
        BY <1>0, <4>1, <4>2, <4>3 DEF Accounted
    <3> QED
      BY <3>1, <3>2
  <2> QED
    BY <2>1, <2>2 DEF Placed
<1> QED
  BY <1>4, <1>6, <1>10, <1>11 DEF HandInv

\* The gossip goroutine starts: its session is accounted for.
LEMMA StartKeepsHands ==
    ASSUME TypeOK, HandInv, NEW c \in Calls, StartSwarm(c)
    PROVE  HandInv'
<1>0. /\ call[c].pc = "start"
      /\ call'[c].pc = "initial" /\ call'[c].n = call[c].n
      /\ \A d \in Calls : d # c => call'[d] = call[d]
      /\ started' = started \cup {call[c].n}
      /\ UNCHANGED <<swarm, inHand, shut, reader, closes, joins, dropped>>
  <2>1. call[c] \in CallStates
    BY DEF TypeOK
  <2> QED
    BY <2>1 DEF StartSwarm, TypeOK, CallStates
<1>1. /\ call[c].n \in Joins /\ call[c].n <= joins /\ Joining(c) /\ ~Making(c)
      /\ Accounted(call[c].n)
  BY <1>0 DEF HandInv, FreshUntouched, Placed, Making, Joining
<1>2. /\ \A d \in Calls, k \in Joins : CallHolds(d, k)' <=> CallHolds(d, k)
      /\ \A g \in Hosts, k \in Joins : ReaderHolds(g, k)' <=> ReaderHolds(g, k)
  BY <1>0 DEF CallHolds, ReaderHolds
<1>3. \A k \in Joins : (Held(k)' <=> Held(k)) /\ (Accounted(k)' <=> Accounted(k))
  BY <1>0 DEF Held, Accounted
<1>4. OneHand' /\ HeldOpen' /\ ClosedOnce' /\ (shut' # "closing" => inHand' = 0)
  BY <1>0, <1>2, <1>3 DEF HandInv, OneHand, HeldOpen, ClosedOnce
<1>5. \A d \in Calls : /\ Joining(d)' <=> Joining(d)
                       /\ Making(d)' <=> Making(d)
                       /\ call'[d].n = call[d].n
  BY <1>0 DEF Joining, Making
<1>6. \A k \in Joins : k # call[c].n /\ Untouched(k) => Untouched(k)'
  BY <1>0, <1>3 DEF Untouched
<1>7. FreshUntouched'
  <2>1. \A d \in Calls : (Making(d) => Untouched(call[d].n))'
    <3>1. \A d \in Calls : Making(d)' => /\ Making(d) /\ call[d].n # call[c].n
                                         /\ call[d].n \in Joins /\ Untouched(call[d].n)
      BY <1>1, <1>5 DEF HandInv, FreshUntouched, Making, Joining
    <3>2. \A d \in Calls : Making(d)' => /\ ~Held(call[d].n)
                                         /\ closes[call[d].n] = 0
                                         /\ call[d].n \notin started'
      BY <1>0, <3>1 DEF Untouched
    <3> QED
      BY <1>0, <1>5, <3>2 DEF Untouched, Held
  <2>2. \A k \in Joins : k > joins' => Untouched(k)'
    <3>1. \A k \in Joins : k > joins => k # call[c].n
      BY <1>1 DEF Joins, TypeOK
    <3> QED
      BY <1>0, <1>6, <3>1 DEF HandInv, FreshUntouched
  <2> QED
    BY <1>0, <1>5, <2>1, <2>2 DEF HandInv, FreshUntouched
<1>8. Placed'
  <2>1. \A k \in started' : Accounted(k)'
    BY <1>0, <1>1, <1>3 DEF HandInv, Placed, TypeOK
  <2>2. \A d \in Calls : Joining(d)' /\ ~Making(d)' => call[d].n \in Joins /\ Accounted(call[d].n)
    BY <1>5 DEF HandInv, Placed, FreshUntouched
  <2>3. \A d \in Calls : (Joining(d) /\ ~Making(d) => Accounted(call[d].n))'
    BY <1>0, <1>5, <2>2 DEF Accounted, Held
  <2> QED
    BY <2>1, <2>3 DEF Placed
<1> QED
  BY <1>4, <1>7, <1>8 DEF HandInv

LEMMA HandStep ==
    ASSUME TypeOK, HandInv, [Next]_vars
    PROVE  HandInv'
<1> DEFINE Still ==
       /\ UNCHANGED <<swarm, inHand, closes, dropped, shut, joins, started>>
       /\ \A n \in Joins, d \in Calls : CallHolds(d, n)' <=> CallHolds(d, n)
       /\ \A n \in Joins, g \in Hosts : ReaderHolds(g, n)' <=> ReaderHolds(g, n)
       /\ \A d \in Calls : /\ Joining(d)' => Joining(d) /\ call'[d].n = call[d].n
                           /\ Joining(d)' => (Making(d)' <=> Making(d))
<1>t. call \in [Calls -> CallStates] /\ reader \in [Hosts -> ReaderStates] /\ 0 \notin Joins
  BY DEF TypeOK, Joins
<1>h. \A n \in Joins : Held(n) <=> \/ swarm = n \/ inHand = n
                                   \/ \E d \in Calls : CallHolds(d, n)
                                   \/ \E g \in Hosts : ReaderHolds(g, n)
  BY DEF Held, CallHolds, ReaderHolds
<1>i. \A n \in Joins : Held(n)' <=> \/ swarm' = n \/ inHand' = n
                                    \/ \E d \in Calls : CallHolds(d, n)'
                                    \/ \E g \in Hosts : ReaderHolds(g, n)'
  BY DEF Held, CallHolds, ReaderHolds
<1>1. Still => HandInv'
  BY HandsStill
<1>2. ASSUME NEW c \in Calls, CallStep(c)
      PROVE  HandInv'
  <2>0. call[c] \in CallStates
    BY <1>t
  <2>1. CASE \E h \in Hosts : JoinParty(c, h)
    BY <2>1, JoinKeepsHands
  <2>2. CASE JoinFails(c)
    <3>1. Still
      BY <2>2, <1>t DEF JoinFails, IdleCall, CallHolds, ReaderHolds, Joining, Making
    <3> QED
      BY <3>1, <1>1
  <2>3. CASE BeginViewer(c)
    <3>1. Still
      BY <2>0, <2>3, <1>t DEF BeginViewer, CallStates, CallHolds, ReaderHolds, Joining, Making
    <3> QED
      BY <3>1, <1>1
  <2>4. CASE InstallSwarm(c)
    BY <2>4, InstallKeepsHands
  <2>5. CASE CloseOld(c)
    <3>1. /\ call[c].pc = "closeOld" /\ Close(call[c].held)
          /\ call'[c].pc = "start" /\ call'[c].n = call[c].n
          /\ \A d \in Calls : d # c => call'[d] = call[d]
          /\ UNCHANGED <<swarm, inHand, shut, reader, joins, started, dropped>>
      BY <2>0, <2>5, <1>t DEF CloseOld, CallStates
    <3>2. Joining(c)' => Joining(c) /\ ~Making(c) /\ ~Making(c)' /\ call'[c].n = call[c].n
      BY <3>1 DEF Joining, Making
    <3> QED
      BY <3>1, <3>2, CallCloses
  <2>6. CASE StartSwarm(c)
    BY <2>6, StartKeepsHands
  <2>7. CASE ReadInitial(c)
    <3>1. Still
      BY <2>0, <2>7, <1>t DEF ReadInitial, CallStates, CallHolds, ReaderHolds, Joining, Making
    <3> QED
      BY <3>1, <1>1
  <2>8. CASE FeedInitial(c)
    <3>1. Still
      BY <2>8, <1>t DEF FeedInitial, IdleCall, CallHolds, ReaderHolds, Joining, Making
    <3> QED
      BY <3>1, <1>1
  <2>9. CASE LeaveParty(c)
    <3>1. /\ call[c].pc = "idle" /\ swarm' = 0
          /\ UNCHANGED <<inHand, shut, reader, closes, joins, started>>
          /\ \A d \in Calls : d # c => call'[d] = call[d]
      BY <2>9, <1>t DEF LeaveParty
    <3>2. \A d \in Calls : /\ Joining(d)' => Joining(d) /\ call'[d].n = call[d].n
                           /\ Joining(d)' => (Making(d)' <=> Making(d))
      BY <2>9, <1>t DEF LeaveParty, Joining, Making
    <3>3. /\ \A d \in Calls, n \in Joins : d # c => (CallHolds(d, n)' <=> CallHolds(d, n))
          /\ \A n \in Joins : ~CallHolds(c, n)
          /\ \A g \in Hosts, n \in Joins : ReaderHolds(g, n)' <=> ReaderHolds(g, n)
      BY <3>1 DEF CallHolds, ReaderHolds
    <3>4. CASE viewer = 0
      <4>1. call' = call /\ dropped' = dropped \cup ({swarm} \ {0})
        BY <2>9, <3>4 DEF LeaveParty
      <4>2. \A n \in Joins : ~CallHolds(c, n)'
        BY <3>1, <4>1 DEF CallHolds
      <4>3. OneHand'
        BY <3>1, <3>3, <4>2, <1>t DEF HandInv, OneHand
      <4>4. \A n \in Joins : /\ Held(n)' => Held(n)
                             /\ Held(n) => Held(n)' \/ n \in dropped'
        BY <3>1, <3>3, <4>1, <4>2, <1>h, <1>i, <1>t
      <4>5. dropped \subseteq dropped' /\ (shut' # "closing" => inHand' = 0)
        BY <3>1, <4>1 DEF HandInv
      <4> QED
        BY <3>1, <3>2, <4>3, <4>4, <4>5, SeatEmptied
    <3>5. CASE viewer # 0
      <4>1. /\ call'[c].pc = "closeLeft" /\ call'[c].held = swarm
            /\ dropped' = dropped
        BY <2>9, <3>5, <1>t DEF LeaveParty
      <4>2. \A n \in Joins : CallHolds(c, n)' <=> n = swarm
        BY <4>1 DEF CallHolds
      <4>3. OneHand'
        BY <3>1, <3>3, <4>2, <1>t DEF HandInv, OneHand
      <4>4. \A n \in Joins : Held(n)' <=> Held(n)
        BY <3>1, <3>3, <4>2, <1>h, <1>i, <1>t
      <4>5. dropped \subseteq dropped' /\ (shut' # "closing" => inHand' = 0)
        BY <3>1, <4>1 DEF HandInv
      <4> QED
        BY <3>1, <3>2, <4>3, <4>4, <4>5, SeatEmptied
    <3> QED
      BY <3>4, <3>5
  <2>10. CASE CloseLeft(c)
    <3>1. /\ call[c].pc = "closeLeft" /\ Close(call[c].held)
          /\ call'[c].pc = "idle"
          /\ \A d \in Calls : d # c => call'[d] = call[d]
          /\ UNCHANGED <<swarm, inHand, shut, reader, joins, started, dropped>>
      BY <2>10, <1>t DEF CloseLeft, IdleCall
    <3>2. Joining(c)' => Joining(c) /\ ~Making(c) /\ ~Making(c)' /\ call'[c].n = call[c].n
      BY <3>1 DEF Joining, Making
    <3> QED
      BY <3>1, <3>2, CallCloses
  <2> QED
    BY <1>2, <2>1, <2>2, <2>3, <2>4, <2>5, <2>6, <2>7, <2>8, <2>9, <2>10 DEF CallStep
<1>3. ASSUME NEW h \in Hosts, ReaderStep(h)
      PROVE  HandInv'
  <2>1. CASE OnPartyState(h)
    <3>1. Still
      BY <2>1, <1>t DEF OnPartyState, CallHolds, ReaderHolds, Joining, Making
    <3> QED
      BY <3>1, <1>1
  <2>2. CASE FeedState(h)
    <3>1. Still
      BY <2>2, <1>t DEF FeedState, IdleReader, CallHolds, ReaderHolds, Joining, Making
    <3> QED
      BY <3>1, <1>1
  <2>3. CASE OnPartyEnded(h)
    <3>1. /\ reader[h].pc = "idle" /\ swarm' = 0
          /\ reader'[h].pc = "close" /\ reader'[h].held = swarm
          /\ \A g \in Hosts : g # h => reader'[g] = reader[g]
          /\ UNCHANGED <<inHand, shut, call, closes, joins, started, dropped>>
      BY <2>3, <1>t DEF OnPartyEnded
    <3>2. \A d \in Calls : /\ Joining(d)' => Joining(d) /\ call'[d].n = call[d].n
                           /\ Joining(d)' => (Making(d)' <=> Making(d))
      BY <3>1 DEF Joining, Making
    <3>3. /\ \A g \in Hosts, n \in Joins : g # h => (ReaderHolds(g, n)' <=> ReaderHolds(g, n))
          /\ \A n \in Joins : ~ReaderHolds(h, n) /\ (ReaderHolds(h, n)' <=> n = swarm)
          /\ \A d \in Calls, n \in Joins : CallHolds(d, n)' <=> CallHolds(d, n)
      BY <3>1 DEF CallHolds, ReaderHolds
    <3>4. OneHand'
      BY <3>1, <3>3, <1>t DEF HandInv, OneHand
    <3>5. \A n \in Joins : Held(n)' <=> Held(n)
      BY <3>1, <3>3, <1>h, <1>i, <1>t
    <3>6. dropped \subseteq dropped' /\ (shut' # "closing" => inHand' = 0)
      BY <3>1 DEF HandInv
    <3> QED
      BY <3>1, <3>2, <3>4, <3>5, <3>6, SeatEmptied
  <2>4. CASE CloseEnded(h)
    BY <2>4, ReaderCloses
  <2> QED
    BY <1>3, <2>1, <2>2, <2>3, <2>4 DEF ReaderStep
<1>4. CASE ShutDown
  <2>1. /\ shut = "no" /\ shut' = "closing" /\ inHand = 0 /\ inHand' = swarm /\ swarm' = 0
        /\ UNCHANGED <<call, reader, closes, joins, started, dropped>>
    BY <1>4 DEF ShutDown, HandInv
  <2>2. /\ \A d \in Calls, n \in Joins : CallHolds(d, n)' <=> CallHolds(d, n)
        /\ \A g \in Hosts, n \in Joins : ReaderHolds(g, n)' <=> ReaderHolds(g, n)
    BY <2>1 DEF CallHolds, ReaderHolds
  <2>3. OneHand'
    BY <2>1, <2>2, <1>t DEF HandInv, OneHand
  <2>4. \A n \in Joins : Held(n)' <=> Held(n)
    BY <2>1, <2>2, <1>h, <1>i, <1>t
  <2>5. \A d \in Calls : /\ Joining(d)' => Joining(d) /\ call'[d].n = call[d].n
                         /\ Joining(d)' => (Making(d)' <=> Making(d))
    BY <2>1 DEF Joining, Making
  <2> QED
    BY <2>1, <2>3, <2>4, <2>5, SeatEmptied
<1>5. CASE CloseAtShutDown
  <2>1. /\ Close(inHand) /\ inHand' = 0 /\ inHand \in Joins \cup {0}
        /\ UNCHANGED <<swarm, call, reader, joins, started, dropped>>
    BY <1>5 DEF CloseAtShutDown, TypeOK
  <2>2. /\ \A d \in Calls, n \in Joins : CallHolds(d, n)' <=> CallHolds(d, n)
        /\ \A g \in Hosts, n \in Joins : ReaderHolds(g, n)' <=> ReaderHolds(g, n)
    BY <2>1 DEF CallHolds, ReaderHolds
  <2>3. OneHand'
    BY <2>1, <2>2, <1>t DEF HandInv, OneHand
  <2>4. \A n \in Joins : Held(n)' <=> Held(n) /\ n # inHand
    BY <2>1, <2>2, <1>h, <1>i, <1>t DEF HandInv, OneHand
  <2>5. \A d \in Calls : /\ Joining(d)' => Joining(d) /\ call'[d].n = call[d].n
                         /\ Joining(d)' => (Making(d)' <=> Making(d))
    BY <2>1 DEF Joining, Making
  <2>6. inHand # 0 => Held(inHand)
    BY <2>1, <1>h
  <2> QED
    BY <2>1, <2>3, <2>4, <2>5, <2>6, HandCloses
<1>6. CASE UNCHANGED vars
  <2>1. Still
    BY <1>6 DEF vars, CallHolds, ReaderHolds, Joining, Making
  <2> QED
    BY <2>1, <1>1
<1> QED
  BY <1>2, <1>3, <1>4, <1>5, <1>6 DEF Next

LEMMA HandInit == Init => HandInv
<1> SUFFICES ASSUME Init PROVE HandInv
  OBVIOUS
<1>1. /\ \A c \in Calls : ~Joining(c) /\ ~Making(c)
      /\ \A n \in Joins : ~Held(n) /\ closes[n] = 0 /\ n # swarm /\ n # inHand
      /\ \A c \in Calls, n \in Joins : ~CallHolds(c, n)
      /\ \A h \in Hosts, n \in Joins : ~ReaderHolds(h, n)
      /\ started = {} /\ inHand = 0
  BY DEF Init, Joining, Making, Held, CallHolds, ReaderHolds, IdleCall, IdleReader, Joins
<1> QED
  BY <1>1 DEF HandInv, OneHand, HeldOpen, FreshUntouched, Untouched, Placed, ClosedOnce

LEMMA HandsAlways == Spec => []HandInv
<1>1. TypeOK /\ HandInv /\ [Next]_vars => HandInv'
  BY HandStep
<1> QED
  BY <1>1, HandInit, SeatAlways, PTL DEF Spec

\* No swarm session is closed twice, so none of the four paths that close one
\* after releasing pc.mu can panic, for any number of concurrent requests.
THEOREM SessionsClosedOnce == Spec => []ClosedOnce
<1>1. HandInv => ClosedOnce
  BY DEF HandInv
<1> QED
  BY <1>1, HandsAlways, PTL

\* LeaveParty without a viewer is the only way to lose a running gossip
\* goroutine: any other is the seat's or is about to be stopped.
THEOREM LoopsAccountedFor == Spec => []LoopsHeld
<1>1. HandInv => LoopsHeld
  BY DEF HandInv, Placed, Accounted, LoopsHeld
<1> QED
  BY <1>1, HandsAlways, PTL

-----------------------------------------------------------------------------
\* SwarmSession: which steps move which part of the state. Everything below looks only at
\* the steps that move what it is about.

\* The have-set moves only in store's second critical section, the cache only in
\* its first and third, the upload slots only by a request, gossip by its loop.
LEMMA Movers ==
    ASSUME [SwarmNext]_swarmVars
    PROVE  /\ UNCHANGED <<have, haveEpoch>> \/ \E f \in Fetchers : StoreHave(f)
           /\ UNCHANGED cache \/ \E f \in Fetchers : StorePut(f) \/ StoreRetain(f)
           /\ UNCHANGED <<serve, uploadSem>> \/ \E s \in Servers : Serving(s)
           /\ \/ UNCHANGED <<sent, gossip>>
              \/ \E stale \in SUBSET Peers : GossipRound(stale)
              \/ \E p \in Peers : GossipSend(p)
<1>1. CASE UNCHANGED swarmVars
  BY <1>1 DEF swarmVars
<1>2. ASSUME NEW f \in Fetchers, NEW i \in Segments, FetchSegment(f, i)
      PROVE  UNCHANGED <<have, haveEpoch, cache, serve, uploadSem, sent, gossip>>
  BY <1>2 DEF FetchSegment
<1>3. ASSUME NEW f \in Fetchers, FetchStep(f)
      PROVE  /\ UNCHANGED <<serve, uploadSem, sent, gossip>>
             /\ UNCHANGED <<have, haveEpoch>> \/ StoreHave(f)
             /\ UNCHANGED cache \/ StorePut(f) \/ StoreRetain(f)
  BY <1>3 DEF FetchStep, LookUpHash, SelectSource, StorePut, StoreHave, StoreRetain
<1>4. ASSUME NEW f \in Fetchers, HostAnswers(f) \/ PeerAnswers(f)
      PROVE  UNCHANGED <<have, haveEpoch, cache, serve, uploadSem, sent, gossip>>
  BY <1>4 DEF HostAnswers, PeerAnswers, PlaylistArrives, PlaylistFails, HostReturns, HostFails,
              PullNotFound, PullFails, PullReturns
<1>5. ASSUME NEW s \in Servers, Serving(s)
      PROVE  UNCHANGED <<have, haveEpoch, cache, sent, gossip>>
  BY <1>5 DEF Serving, SwarmSegment, ServeFromCache, Release
<1>6. ASSUME Gossiping
      PROVE  /\ UNCHANGED <<have, haveEpoch, cache, serve, uploadSem>>
             /\ \/ UNCHANGED <<sent, gossip>>
                \/ \E stale \in SUBSET Peers : GossipRound(stale)
                \/ \E p \in Peers : GossipSend(p)
  <2>1. CASE \E stale \in SUBSET Peers : GossipRound(stale)
    BY <2>1 DEF GossipRound
  <2>2. CASE \E p \in Peers : GossipSend(p)
    BY <2>2 DEF GossipSend
  <2>3. CASE \E p \in Peers, h \in SUBSET Segments, e \in 1..MaxPeerEpoch : OnSwarmHave(p, h, e)
    BY <2>3 DEF OnSwarmHave
  <2>4. CASE \E members \in SUBSET Peers : SetPeers(members)
    BY <2>4 DEF SetPeers
  <2> QED
    BY <1>6, <2>1, <2>2, <2>3, <2>4 DEF Gossiping
<1>7. ASSUME (\E p \in Peers : CooldownOver(p)) \/ HostPublishes
      PROVE  UNCHANGED <<have, haveEpoch, cache, serve, uploadSem, sent, gossip>>
  BY <1>7 DEF CooldownOver, HostPublishes
<1> QED
  BY <1>1, <1>2, <1>3, <1>4, <1>5, <1>6, <1>7 DEF SwarmNext

-----------------------------------------------------------------------------
\* SwarmSession: epochs

\* Adding a Segment to the have-set keeps it a numbered set of Segments, and
\* numbers it higher if it is another set.
LEMMA SetHaveNumbers ==
    ASSUME NEW r \in HaveMaps, NEW i \in Segments
    PROVE  /\ SetHave(r, i) \in HaveMaps
           /\ SetHave(r, i).epoch >= r.epoch
           /\ SetHave(r, i).epoch = r.epoch => SetHave(r, i) = r
BY DEF SetHave, HaveMaps

\* So does dropping what is outside a window.
LEMMA RetainNumbers ==
    ASSUME NEW r \in HaveMaps, NEW lo \in Int, NEW hi \in Int
    PROVE  /\ Retain(r, lo, hi) \in HaveMaps
           /\ Retain(r, lo, hi).epoch >= r.epoch
           /\ Retain(r, lo, hi).epoch = r.epoch => Retain(r, lo, hi) = r
BY DEF Retain, HaveMaps

-----------------------------------------------------------------------------
\* SwarmSession: upload slots

\* The requests that hold a slot.
Holding == {s \in Servers : serve[s].pc # "idle"}

\* A request takes one slot and gives back one slot, on every path.
LEMMA SlotsKept ==
    ASSUME SwarmTypeOK, UploadSlots, [SwarmNext]_swarmVars
    PROVE  UploadSlots' /\ uploadSem' \in Nat /\ serve' \in [Servers -> ServeCalls]
<1>0. IsFiniteSet(Holding)
  BY CapAssumption, FS_Subset DEF Holding
<1>t. uploadSem \in Nat /\ serve \in [Servers -> ServeCalls]
  BY DEF SwarmTypeOK
<1>1. CASE UNCHANGED <<serve, uploadSem>>
  BY <1>1, <1>t DEF UploadSlots
<1>2. ASSUME NEW s \in Servers, NEW i \in Segments, SwarmSegment(s, i), uploadSem < UploadCap
      PROVE  UploadSlots' /\ uploadSem' \in Nat /\ serve' \in [Servers -> ServeCalls]
  <2>1. /\ uploadSem' = uploadSem + 1
        /\ serve' = [serve EXCEPT ![s] = ServeAt("get", i, NoBytes)]
        /\ s \notin Holding
    BY <1>2 DEF SwarmSegment, Holding
  <2>2. ServeAt("get", i, NoBytes) \in ServeCalls
    BY DEF ServeAt, ServeCalls
  <2>3. Holding' = Holding \cup {s}
    BY <2>1, <1>t DEF Holding, IdleServe, ServeAt
  <2>4. Cardinality(Holding') = Cardinality(Holding) + 1
    BY <2>1, <2>3, <1>0, FS_AddElement
  <2> QED
    BY <2>1, <2>2, <2>4, <1>2, <1>t, CapAssumption DEF UploadSlots, Holding
<1>3. ASSUME NEW s \in Servers, s \in Holding, uploadSem' = uploadSem - 1,
             serve' = [serve EXCEPT ![s] = IdleServe]
      PROVE  UploadSlots' /\ uploadSem' \in Nat /\ serve' \in [Servers -> ServeCalls]
  <2>1. IdleServe \in ServeCalls
    BY WindowAssumption DEF IdleServe, ServeAt, ServeCalls, Segments
  <2>2. Holding' = Holding \ {s}
    BY <1>3, <1>t DEF Holding, IdleServe, ServeAt
  <2>3. Cardinality(Holding') = Cardinality(Holding) - 1
    BY <1>3, <2>2, <1>0, FS_RemoveElement
  <2>4. Cardinality(Holding) # 0 /\ Cardinality(Holding) \in Nat
    BY <1>3, <1>0, FS_EmptySet, FS_CardinalityType
  <2> QED
    BY <1>3, <2>1, <2>3, <2>4, <1>t, CapAssumption DEF UploadSlots, Holding
<1>4. ASSUME NEW s \in Servers, ServeFromCache(s), serve[s].idx \in Cached
      PROVE  UploadSlots' /\ uploadSem' \in Nat /\ serve' \in [Servers -> ServeCalls]
  <2> DEFINE c == ServeAt("send", 0, cache[serve[s].idx])
  <2>1. uploadSem' = uploadSem /\ serve' = [serve EXCEPT ![s] = c] /\ serve[s].pc = "get"
    BY <1>4 DEF ServeFromCache
  <2>2. c \in ServeCalls
    <3>1. serve[s].idx \in Segments
      BY <1>t DEF ServeCalls
    <3>2. cache[serve[s].idx] \in Bytes \cup {NoBytes}
      BY <3>1 DEF SwarmTypeOK
    <3>3. 0 \in Segments
      BY WindowAssumption DEF Segments
    <3> QED
      BY <3>2, <3>3 DEF ServeCalls, ServeAt
  <2>3. c.pc = "send"
    BY DEF ServeAt
  <2>4. Holding' = Holding
    <3> HIDE DEF c
    <3> QED
      BY <2>1, <2>3, <1>t DEF Holding
  <2> HIDE DEF c
  <2> QED
    BY <2>1, <2>2, <2>4, <1>t DEF UploadSlots, Holding
<1>5. ASSUME NEW s \in Servers, Serving(s)
      PROVE  UploadSlots' /\ uploadSem' \in Nat /\ serve' \in [Servers -> ServeCalls]
  <2>1. CASE \E i \in Segments : SwarmSegment(s, i)
    <3>1. PICK i \in Segments : SwarmSegment(s, i)
      BY <2>1
    <3>2. CASE uploadSem < UploadCap
      BY <3>1, <3>2, <1>2
    <3>3. CASE ~(uploadSem < UploadCap)
      BY <3>1, <3>3, <1>1 DEF SwarmSegment
    <3> QED
      BY <3>2, <3>3
  <2>2. CASE ServeFromCache(s)
    <3>1. CASE serve[s].idx \in Cached
      BY <2>2, <3>1, <1>4
    <3>2. CASE serve[s].idx \notin Cached
      BY <2>2, <3>2, <1>3 DEF ServeFromCache, Holding
    <3> QED
      BY <3>1, <3>2
  <2>3. CASE Release(s)
    BY <2>3, <1>3 DEF Release, Holding
  <2> QED
    BY <1>5, <2>1, <2>2, <2>3 DEF Serving
<1> QED
  BY <1>1, <1>5, Movers

-----------------------------------------------------------------------------
\* SwarmSession: types of the fetches and of the peers' records

\* Every step of a FetchSegment call leaves it one.
LEMMA FetchTypes ==
    ASSUME SwarmTypeOK, [SwarmNext]_swarmVars
    PROVE  /\ fetch' \in [Fetchers -> FetchCalls]
           /\ hashes' \subseteq Segments
           /\ lastIdx' \in Segments
<1>t. /\ fetch \in [Fetchers -> FetchCalls]
      /\ hashes \subseteq Segments
      /\ published \subseteq Segments
      /\ lastIdx \in Segments
      /\ 0 \in Segments
  BY WindowAssumption DEF SwarmTypeOK, Segments
<1>i. IdleFetch \in FetchCalls
  BY <1>t DEF IdleFetch, FetchAt, FetchCalls
<1>1. CASE UNCHANGED <<fetch, hashes, lastIdx>>
  BY <1>1, <1>t
<1>2. ASSUME NEW f \in Fetchers, NEW i \in Segments, FetchSegment(f, i)
      PROVE  fetch' \in [Fetchers -> FetchCalls] /\ hashes' = hashes /\ lastIdx' = i
  <2>1. FetchAt("hash", i) \in FetchCalls
    BY DEF FetchAt, FetchCalls
  <2> QED
    BY <1>2, <1>t, <2>1 DEF FetchSegment
<1>3. ASSUME NEW f \in Fetchers, NEW c \in FetchCalls, fetch' = [fetch EXCEPT ![f] = c]
      PROVE  fetch' \in [Fetchers -> FetchCalls]
  BY <1>3, <1>t
<1>4. ASSUME NEW f \in Fetchers, FetchStep(f)
      PROVE  fetch' \in [Fetchers -> FetchCalls] /\ UNCHANGED <<hashes, lastIdx>>
  <2>0. fetch[f] \in FetchCalls
    BY <1>t
  <2>1. CASE LookUpHash(f)
    BY <2>0, <2>1, <1>3 DEF LookUpHash, FetchCalls
  <2>2. CASE SelectSource(f)
    BY <2>0, <2>2, <1>3 DEF SelectSource, FetchCalls, Eligible
  <2>3. CASE StorePut(f)
    BY <2>0, <2>3, <1>3 DEF StorePut, FetchCalls
  <2>4. CASE StoreHave(f)
    <3>1. WindowLo(lastIdx) \in Int /\ WindowHi(lastIdx) \in Int
      BY <1>t, WindowAssumption DEF WindowLo, WindowHi, Segments
    <3> QED
      BY <2>0, <2>4, <3>1, <1>3 DEF StoreHave, FetchCalls
  <2>5. CASE StoreRetain(f)
    BY <2>0, <2>5, <1>3, <1>i DEF StoreRetain
  <2> QED
    BY <1>4, <2>1, <2>2, <2>3, <2>4, <2>5 DEF FetchStep
<1>5. ASSUME NEW f \in Fetchers, HostAnswers(f)
      PROVE  fetch' \in [Fetchers -> FetchCalls] /\ hashes' \subseteq Segments
                /\ UNCHANGED lastIdx
  <2>0. fetch[f] \in FetchCalls
    BY <1>t
  <2>1. CASE PlaylistArrives(f)
    BY <2>0, <2>1, <1>3, <1>t DEF PlaylistArrives, FetchCalls
  <2>2. CASE PlaylistFails(f)
    BY <2>0, <2>2, <1>3, <1>t DEF PlaylistFails, FetchCalls
  <2>3. ASSUME NEW m \in BOOLEAN, HostReturns(f, [origin |-> "host", matches |-> m])
        PROVE  fetch' \in [Fetchers -> FetchCalls] /\ UNCHANGED <<hashes, lastIdx>>
    <3>1. [origin |-> "host", matches |-> m] \in Bytes
      BY DEF Bytes
    <3> QED
      BY <2>0, <2>3, <3>1, <1>3, <1>i DEF HostReturns, FetchCalls
  <2>4. CASE HostFails(f)
    BY <2>4, <1>3, <1>i, <1>t DEF HostFails
  <2> QED
    BY <1>5, <2>1, <2>2, <2>3, <2>4, <1>t DEF HostAnswers
<1>6. ASSUME NEW f \in Fetchers, PeerAnswers(f)
      PROVE  fetch' \in [Fetchers -> FetchCalls] /\ UNCHANGED <<hashes, lastIdx>>
  <2>0. fetch[f] \in FetchCalls
    BY <1>t
  <2>1. CASE PullNotFound(f)
    BY <2>0, <2>1, <1>3 DEF PullNotFound, FetchCalls
  <2>2. CASE PullFails(f)
    BY <2>0, <2>2, <1>3 DEF PullFails, FetchCalls
  <2>3. ASSUME NEW m \in BOOLEAN, PullReturns(f, [origin |-> "peer", matches |-> m])
        PROVE  fetch' \in [Fetchers -> FetchCalls] /\ UNCHANGED <<hashes, lastIdx>>
    <3>1. [origin |-> "peer", matches |-> m] \in Bytes
      BY DEF Bytes
    <3> QED
      BY <2>0, <2>3, <3>1, <1>3 DEF PullReturns, FetchCalls
  <2> QED
    BY <1>6, <2>1, <2>2, <2>3 DEF PeerAnswers
<1>7. ASSUME \/ \E s \in Servers : Serving(s)
             \/ Gossiping
             \/ \E p \in Peers : CooldownOver(p)
             \/ HostPublishes
             \/ UNCHANGED swarmVars
      PROVE  UNCHANGED <<fetch, hashes, lastIdx>>
  BY <1>7 DEF Serving, SwarmSegment, ServeFromCache, Release, Gossiping, GossipRound, GossipSend,
              OnSwarmHave, SetPeers, CooldownOver, HostPublishes, swarmVars
<1> QED
  BY <1>1, <1>2, <1>4, <1>5, <1>6, <1>7, <1>t DEF SwarmNext

\* Every step leaves each peer an engine record.
LEMMA PeerTypes ==
    ASSUME SwarmTypeOK, [SwarmNext]_swarmVars
    PROVE  peer' \in [Peers -> PeerRecords]
<1>t. peer \in [Peers -> PeerRecords] /\ Absent \in PeerRecords
  BY DEF SwarmTypeOK, Absent, PeerRecords
<1>1. CASE UNCHANGED peer
  BY <1>1, <1>t
<1>2. ASSUME NEW p, Demote(p) \/ MarkBusy(p)
      PROVE  peer' \in [Peers -> PeerRecords]
  <2>1. \A r \in PeerRecords : /\ [r EXCEPT !.demoted = TRUE, !.have = {}] \in PeerRecords
                              /\ [r EXCEPT !.busy = TRUE] \in PeerRecords
    BY DEF PeerRecords
  <2>2. CASE p \notin Peers
    BY <1>2, <1>t, <2>2 DEF Demote, MarkBusy
  <2>3. CASE p \in Peers
    <3>1. /\ [peer[p] EXCEPT !.demoted = TRUE, !.have = {}] \in PeerRecords
          /\ [peer[p] EXCEPT !.busy = TRUE] \in PeerRecords
      BY <1>t, <2>1, <2>3
    <3>2. CASE Demote(p)
      BY <1>t, <3>1, <3>2 DEF Demote
    <3>3. CASE MarkBusy(p)
      BY <1>t, <3>1, <3>3 DEF MarkBusy
    <3> QED
      BY <1>2, <3>2, <3>3
  <2> QED
    BY <2>2, <2>3
<1>3. ASSUME NEW f \in Fetchers, PeerAnswers(f)
      PROVE  peer' \in [Peers -> PeerRecords]
  BY <1>1, <1>2, <1>3 DEF PeerAnswers, PullNotFound, PullFails, PullReturns
<1>4. ASSUME Gossiping
      PROVE  peer' \in [Peers -> PeerRecords]
  <2>1. ASSUME NEW stale \in SUBSET Peers, GossipRound(stale)
        PROVE  peer' \in [Peers -> PeerRecords]
    BY <2>1, <1>t DEF GossipRound, Expired, PeerRecords
  <2>2. ASSUME NEW p \in Peers, NEW h \in SUBSET Segments, NEW e \in 1..MaxPeerEpoch,
               OnSwarmHave(p, h, e)
        PROVE  peer' \in [Peers -> PeerRecords]
    <3>1. Merged(peer[p], h, e) \in PeerRecords
      <4> DEFINE r == peer[p]
      <4>1. r \in PeerRecords
        BY <1>t
      <4> HIDE DEF r
      <4>2. e \in Nat
        BY SwarmBoundAssumption
      <4>3. [r EXCEPT !.known = TRUE] \in PeerRecords
        BY <4>1 DEF PeerRecords
      <4>4. [known |-> TRUE, have |-> h, epoch |-> e, demoted |-> r.demoted, busy |-> r.busy]
               \in PeerRecords
        BY <4>1, <4>2 DEF PeerRecords
      <4>5. Merged(r, h, e) \in PeerRecords
        BY <4>3, <4>4 DEF Merged
      <4> QED
        BY <4>5 DEF r
    <3> QED
      BY <2>2, <3>1, <1>t DEF OnSwarmHave
  <2>3. ASSUME NEW members \in SUBSET Peers, SetPeers(members)
        PROVE  peer' \in [Peers -> PeerRecords]
    <3>1. [Absent EXCEPT !.known = TRUE] \in PeerRecords
      BY DEF Absent, PeerRecords
    <3> QED
      BY <2>3, <3>1, <1>t DEF SetPeers, SetPeersOf
  <2>4. ASSUME NEW p \in Peers, GossipSend(p)
        PROVE  UNCHANGED peer
    BY <2>4 DEF GossipSend
  <2> QED
    BY <1>1, <1>4, <2>1, <2>2, <2>3, <2>4 DEF Gossiping
<1>5. ASSUME NEW p \in Peers, CooldownOver(p)
      PROVE  peer' \in [Peers -> PeerRecords]
  BY <1>5, <1>t DEF CooldownOver, PeerRecords
<1>6. ASSUME \/ \E f \in Fetchers : \/ \E i \in Segments : FetchSegment(f, i)
                                   \/ FetchStep(f) \/ HostAnswers(f)
             \/ \E s \in Servers : Serving(s)
             \/ HostPublishes
             \/ UNCHANGED swarmVars
      PROVE  UNCHANGED peer
  BY <1>6 DEF FetchSegment, FetchStep, LookUpHash, SelectSource, StorePut, StoreHave, StoreRetain,
              HostAnswers, PlaylistArrives, PlaylistFails, HostReturns, HostFails, Serving,
              SwarmSegment, ServeFromCache, Release, HostPublishes, swarmVars
<1> QED
  BY <1>1, <1>3, <1>4, <1>5, <1>6 DEF SwarmNext

\* The bounded counter and the Host's playlist.
LEMMA CounterTypes ==
    ASSUME SwarmTypeOK, [SwarmNext]_swarmVars
    PROVE  /\ fetches' \in Nat
           /\ published' \subseteq Segments
<1>t. fetches \in Nat /\ published \subseteq Segments
  BY DEF SwarmTypeOK
<1>1. CASE UNCHANGED <<fetches, published>>
  BY <1>1, <1>t
<1>2. ASSUME NEW f \in Fetchers, NEW i \in Segments, FetchSegment(f, i)
      PROVE  fetches' \in Nat /\ UNCHANGED published
  BY <1>2, <1>t DEF FetchSegment
<1>5. CASE HostPublishes
  BY <1>5, <1>t DEF HostPublishes
<1>6. ASSUME \/ \E f \in Fetchers : FetchStep(f) \/ HostAnswers(f) \/ PeerAnswers(f)
             \/ \E s \in Servers : Serving(s)
             \/ \E stale \in SUBSET Peers : GossipRound(stale)
             \/ \E p \in Peers : GossipSend(p)
             \/ \E p \in Peers, h \in SUBSET Segments, e \in 1..MaxPeerEpoch :
                   OnSwarmHave(p, h, e)
             \/ \E members \in SUBSET Peers : SetPeers(members)
             \/ \E p \in Peers : CooldownOver(p)
             \/ UNCHANGED swarmVars
      PROVE  UNCHANGED <<fetches, published>>
  BY <1>6 DEF FetchStep, LookUpHash, SelectSource, StorePut, StoreHave, StoreRetain,
              HostAnswers, PlaylistArrives, PlaylistFails, HostReturns, HostFails, PeerAnswers,
              PullNotFound, PullFails, PullReturns, Serving, SwarmSegment, ServeFromCache, Release,
              GossipRound, GossipSend, OnSwarmHave, SetPeers, CooldownOver, swarmVars
<1> QED
  BY <1>1, <1>2, <1>5, <1>6, <1>t DEF SwarmNext, Gossiping

\* The have-set, the cache and the gossip loop.
LEMMA StoreTypes ==
    ASSUME SwarmTypeOK, [SwarmNext]_swarmVars
    PROVE  /\ have' \subseteq Segments /\ haveEpoch' \in Nat
           /\ cache' \in [Segments -> Bytes \cup {NoBytes}]
           /\ gossip' \in [pc : {"wait", "send"}, map : HaveMaps, todo : SUBSET Peers]
           /\ sent' \subseteq HaveMaps
<1>1. have' \subseteq Segments /\ haveEpoch' \in Nat
  <2>1. ASSUME NEW f \in Fetchers, StoreHave(f)
        PROVE  have' \subseteq Segments /\ haveEpoch' \in Nat
    <3> DEFINE cur  == [have |-> have, epoch |-> haveEpoch]
               with == SetHave(cur, fetch[f].idx)
               kept == Retain(with, WindowLo(lastIdx), WindowHi(lastIdx))
    <3>1. cur \in HaveMaps /\ fetch[f].idx \in Segments
      BY DEF SwarmTypeOK, HaveMaps, FetchCalls
    <3>2. with \in HaveMaps
      BY <3>1, SetHaveNumbers
    <3>3. WindowLo(lastIdx) \in Int /\ WindowHi(lastIdx) \in Int
      BY WindowAssumption DEF SwarmTypeOK, WindowLo, WindowHi, Segments
    <3>4. kept \in HaveMaps
      BY <3>2, <3>3, RetainNumbers
    <3>5. have' = kept.have /\ haveEpoch' = kept.epoch
      BY <2>1 DEF StoreHave
    <3> HIDE DEF kept
    <3> QED
      BY <3>4, <3>5 DEF HaveMaps
  <2> QED
    BY <2>1, Movers DEF SwarmTypeOK
<1>2. cache' \in [Segments -> Bytes \cup {NoBytes}]
  <2>1. ASSUME NEW f \in Fetchers, StorePut(f)
        PROVE  cache' \in [Segments -> Bytes \cup {NoBytes}]
    BY <2>1 DEF StorePut, SwarmTypeOK, FetchCalls
  <2>2. ASSUME NEW f \in Fetchers, StoreRetain(f)
        PROVE  cache' \in [Segments -> Bytes \cup {NoBytes}]
    BY <2>2 DEF StoreRetain, RetainBytes, SwarmTypeOK
  <2> QED
    BY <2>1, <2>2, Movers DEF SwarmTypeOK
<1>3. /\ gossip' \in [pc : {"wait", "send"}, map : HaveMaps, todo : SUBSET Peers]
      /\ sent' \subseteq HaveMaps
  <2>0. IdleGossip \in [pc : {"wait", "send"}, map : HaveMaps, todo : SUBSET Peers]
    BY DEF IdleGossip, HaveMaps
  <2>1. ASSUME NEW stale \in SUBSET Peers, GossipRound(stale)
        PROVE  gossip' \in [pc : {"wait", "send"}, map : HaveMaps, todo : SUBSET Peers]
                  /\ sent' = sent
    BY <2>0, <2>1 DEF GossipRound, GossipTargets, SwarmTypeOK, HaveMaps
  <2>2. ASSUME NEW p \in Peers, GossipSend(p)
        PROVE  gossip' \in [pc : {"wait", "send"}, map : HaveMaps, todo : SUBSET Peers]
                  /\ sent' = sent \cup {gossip.map}
    BY <2>0, <2>2 DEF GossipSend, SwarmTypeOK
  <2> QED
    BY <2>1, <2>2, Movers DEF SwarmTypeOK
<1> QED
  BY <1>1, <1>2, <1>3

\* A step keeps the types and the count of the upload slots.
LEMMA SwarmTypeStep ==
    ASSUME SwarmTypeOK, UploadSlots, [SwarmNext]_swarmVars
    PROVE  SwarmTypeOK' /\ UploadSlots'
BY SlotsKept, FetchTypes, PeerTypes, CounterTypes, StoreTypes DEF SwarmTypeOK

LEMMA SwarmTypeInit ==
    ASSUME SwarmInit
    PROVE  SwarmTypeOK /\ UploadSlots
<1>0. 0 \in Segments
  BY WindowAssumption DEF Segments
<1>1. /\ peer \in [Peers -> PeerRecords]
      /\ cache \in [Segments -> Bytes \cup {NoBytes}]
      /\ lastIdx \in Segments
      /\ gossip \in [pc : {"wait", "send"}, map : HaveMaps, todo : SUBSET Peers]
      /\ fetches \in Nat
  BY <1>0 DEF SwarmInit, Absent, PeerRecords, IdleGossip, HaveMaps
<1>2. fetch \in [Fetchers -> FetchCalls]
  BY <1>0 DEF SwarmInit, IdleFetch, FetchAt, FetchCalls
<1>3. serve \in [Servers -> ServeCalls]
  BY <1>0 DEF SwarmInit, IdleServe, ServeAt, ServeCalls
<1>4. {s \in Servers : serve[s].pc # "idle"} = {}
  BY DEF SwarmInit, IdleServe, ServeAt
<1>5. UploadSlots
  <2>1. uploadSem = 0 /\ Cardinality({s \in Servers : serve[s].pc # "idle"}) = 0
    BY <1>4, FS_EmptySet DEF SwarmInit
  <2> QED BY <2>1, CapAssumption DEF UploadSlots
<1> QED
  BY <1>1, <1>2, <1>3, <1>5 DEF SwarmInit, SwarmTypeOK

LEMMA TypeAlways == SwarmSpec => [](SwarmTypeOK /\ UploadSlots)
<1>1. SwarmInit => SwarmTypeOK /\ UploadSlots
  BY SwarmTypeInit
<1>2. (SwarmTypeOK /\ UploadSlots) /\ [SwarmNext]_swarmVars => (SwarmTypeOK /\ UploadSlots)'
  BY SwarmTypeStep
<1> QED
  BY <1>1, <1>2, PTL DEF SwarmSpec

\* Type correctness: the engine's records, the cache, the have-set and every
\* call in progress keep their types, the upload semaphore never drained below
\* zero by a release.
THEOREM SwarmTypeCorrect == SwarmSpec => []SwarmTypeOK
BY TypeAlways, PTL

\* The upload semaphore of swarmSession counts exactly the uploads in progress
\* and stays within UploadCap, for any number of concurrent requests.
THEOREM SlotsBounded == SwarmSpec => []UploadSlots
BY TypeAlways, PTL

-----------------------------------------------------------------------------
\* SwarmSession: integrity

\* A step brings no unverified peer bytes into the cache, a store or an upload.
LEMMA PoisonStep ==
    ASSUME SwarmTypeOK, NoPoison, [SwarmNext]_swarmVars
    PROVE  NoPoison'
<1> DEFINE Clean(b) == b.origin = "peer" => b.matches
<1>t. /\ cache \in [Segments -> Bytes \cup {NoBytes}]
      /\ fetch \in [Fetchers -> FetchCalls]
      /\ serve \in [Servers -> ServeCalls]
  BY DEF SwarmTypeOK
<1>n. Clean(NoBytes) /\ Clean(IdleFetch.data) /\ Clean(IdleServe.data)
  BY DEF NoBytes, IdleFetch, FetchAt, IdleServe, ServeAt
<1>1. \A i \in Segments : Clean(cache'[i])
  <2>1. ASSUME NEW f \in Fetchers, StorePut(f)
        PROVE  \A i \in Segments : Clean(cache'[i])
    BY <2>1, <1>t DEF StorePut, NoPoison
  <2>2. ASSUME NEW f \in Fetchers, StoreRetain(f)
        PROVE  \A i \in Segments : Clean(cache'[i])
    BY <2>2, <1>t, <1>n DEF StoreRetain, RetainBytes, NoPoison
  <2> QED
    BY <2>1, <2>2, Movers DEF NoPoison
<1>2. \A s \in Servers : Clean(serve'[s].data)
  <2>1. ASSUME NEW s \in Servers, NEW c, Clean(c.data), serve' = [serve EXCEPT ![s] = c]
        PROVE  \A r \in Servers : Clean(serve'[r].data)
    BY <2>1, <1>t DEF NoPoison
  <2>2. ASSUME NEW s \in Servers, NEW i \in Segments, SwarmSegment(s, i)
        PROVE  \A r \in Servers : Clean(serve'[r].data)
    <3>1. Clean(ServeAt("get", i, NoBytes).data)
      BY <1>n DEF ServeAt
    <3> QED
      BY <2>1, <2>2, <3>1 DEF SwarmSegment, NoPoison
  <2>3. ASSUME NEW s \in Servers, ServeFromCache(s)
        PROVE  \A r \in Servers : Clean(serve'[r].data)
    <3>1. serve[s].idx \in Segments
      BY <1>t DEF ServeCalls
    <3>2. Clean(ServeAt("send", 0, cache[serve[s].idx]).data)
      BY <3>1 DEF ServeAt, NoPoison
    <3> QED
      BY <2>1, <2>3, <3>2, <1>n DEF ServeFromCache
  <2>4. ASSUME NEW s \in Servers, Release(s)
        PROVE  \A r \in Servers : Clean(serve'[r].data)
    BY <2>1, <2>4, <1>n DEF Release
  <2> QED
    BY <2>2, <2>3, <2>4, Movers DEF Serving, NoPoison
<1>3. \A f \in Fetchers : Clean(fetch'[f].data)
  <2>1. ASSUME NEW f \in Fetchers, NEW c, Clean(c.data), fetch' = [fetch EXCEPT ![f] = c]
        PROVE  \A g \in Fetchers : Clean(fetch'[g].data)
    BY <2>1, <1>t DEF NoPoison
  <2>2. ASSUME NEW f \in Fetchers, NEW i \in Segments, FetchSegment(f, i)
        PROVE  \A g \in Fetchers : Clean(fetch'[g].data)
    <3>1. Clean(FetchAt("hash", i).data)
      BY <1>n DEF FetchAt
    <3> QED
      BY <2>1, <2>2, <3>1 DEF FetchSegment, NoPoison
  <2>3. ASSUME NEW f \in Fetchers, FetchStep(f)
        PROVE  \A g \in Fetchers : Clean(fetch'[g].data)
    <3>0. fetch[f] \in FetchCalls /\ Clean(fetch[f].data)
      BY <1>t DEF NoPoison
    <3>1. CASE LookUpHash(f)
      BY <2>1, <3>0, <3>1 DEF LookUpHash, FetchCalls
    <3>2. CASE SelectSource(f)
      BY <2>1, <3>0, <3>2 DEF SelectSource, FetchCalls
    <3>3. CASE StorePut(f)
      BY <2>1, <3>0, <3>3, <1>n DEF StorePut, FetchCalls
    <3>4. CASE StoreHave(f)
      BY <2>1, <3>0, <3>4 DEF StoreHave, FetchCalls
    <3>5. CASE StoreRetain(f)
      BY <2>1, <3>5, <1>n DEF StoreRetain
    <3> QED
      BY <2>3, <3>1, <3>2, <3>3, <3>4, <3>5 DEF FetchStep
  <2>4. ASSUME NEW f \in Fetchers, HostAnswers(f)
        PROVE  \A g \in Fetchers : Clean(fetch'[g].data)
    <3>0. fetch[f] \in FetchCalls /\ Clean(fetch[f].data)
      BY <1>t DEF NoPoison
    <3>1. CASE PlaylistArrives(f)
      BY <2>1, <3>0, <3>1 DEF PlaylistArrives, FetchCalls
    <3>2. CASE PlaylistFails(f)
      BY <2>1, <3>0, <3>2 DEF PlaylistFails, FetchCalls
    <3>3. ASSUME NEW m \in BOOLEAN, HostReturns(f, [origin |-> "host", matches |-> m])
          PROVE  \A g \in Fetchers : Clean(fetch'[g].data)
      BY <2>1, <3>0, <3>3, <1>n DEF HostReturns, FetchCalls
    <3>4. CASE HostFails(f)
      BY <2>1, <3>4, <1>n DEF HostFails
    <3> QED
      BY <2>4, <3>1, <3>2, <3>3, <3>4 DEF HostAnswers
  <2>5. ASSUME NEW f \in Fetchers, PeerAnswers(f)
        PROVE  \A g \in Fetchers : Clean(fetch'[g].data)
    <3>0. fetch[f] \in FetchCalls /\ Clean(fetch[f].data)
      BY <1>t DEF NoPoison
    <3>1. CASE PullNotFound(f)
      BY <2>1, <3>0, <3>1 DEF PullNotFound, FetchCalls
    <3>2. CASE PullFails(f)
      BY <2>1, <3>0, <3>2 DEF PullFails, FetchCalls
    <3>3. ASSUME NEW m \in BOOLEAN, PullReturns(f, [origin |-> "peer", matches |-> m])
          PROVE  \A g \in Fetchers : Clean(fetch'[g].data)
      BY <2>1, <3>0, <3>3 DEF PullReturns, Verified, FetchCalls
    <3> QED
      BY <2>5, <3>1, <3>2, <3>3 DEF PeerAnswers
  <2>6. ASSUME \/ \E s \in Servers : Serving(s)
               \/ Gossiping
               \/ \E p \in Peers : CooldownOver(p)
               \/ HostPublishes
               \/ UNCHANGED swarmVars
        PROVE  UNCHANGED fetch
    BY <2>6 DEF Serving, SwarmSegment, ServeFromCache, Release, Gossiping, GossipRound, GossipSend,
                OnSwarmHave, SetPeers, CooldownOver, HostPublishes, swarmVars
  <2> QED
    BY <2>2, <2>3, <2>4, <2>5, <2>6 DEF SwarmNext, NoPoison
<1> QED
  BY <1>1, <1>2, <1>3 DEF NoPoison

\* No bytes of a peer that do not match the Host's hash are ever cached, handed
\* to the player or served on: FetchSegment fails closed, whatever peers
\* advertise and answer, for every number of concurrent fetches and uploads.
THEOREM PoisonNeverKept == SwarmSpec => []NoPoison
<1>1. SwarmInit => NoPoison
  BY DEF SwarmInit, NoPoison, NoBytes, IdleFetch, FetchAt, IdleServe, ServeAt
<1>2. SwarmTypeOK /\ NoPoison /\ [SwarmNext]_swarmVars => NoPoison'
  BY PoisonStep
<1> QED
  BY <1>1, <1>2, TypeAlways, PTL DEF SwarmSpec

-----------------------------------------------------------------------------
\* SwarmSession: an epoch names one have-set

Current == [have |-> have, epoch |-> haveEpoch]

\* The maps a peer has or may still get: those sent and the one being sent.
Gossiped == sent \cup (IF gossip.pc = "send" THEN {gossip.map} ELSE {})

\* Two maps agree on what their common epoch stands for.
Consistent(a, b) == a.epoch = b.epoch => a.have = b.have

\* The strengthening: the map being sent counts too, none has an epoch of the
\* future, and those with the present epoch are the present have-set.
EpochInv ==
    /\ \A a \in Gossiped, b \in Gossiped : Consistent(a, b)
    /\ \A a \in Gossiped : a.epoch <= haveEpoch /\ Consistent(a, Current)

LEMMA EpochStep ==
    ASSUME SwarmTypeOK, EpochInv, [SwarmNext]_swarmVars
    PROVE  EpochInv'
<1>t. /\ have \subseteq Segments /\ haveEpoch \in Nat
      /\ gossip.map \in HaveMaps
      /\ \A a \in Gossiped : a.epoch \in Nat
  BY DEF SwarmTypeOK, HaveMaps, Gossiped
<1>1. ASSUME NEW f \in Fetchers, StoreHave(f)
      PROVE  /\ haveEpoch' \in Nat
             /\ haveEpoch' >= haveEpoch
             /\ haveEpoch' = haveEpoch => have' = have
             /\ Gossiped' = Gossiped
  <2> DEFINE with == SetHave(Current, fetch[f].idx)
             kept == Retain(with, WindowLo(lastIdx), WindowHi(lastIdx))
  <2>1. Current \in HaveMaps /\ fetch[f].idx \in Segments
    BY DEF SwarmTypeOK, HaveMaps, FetchCalls, Current
  <2>2. with \in HaveMaps /\ with.epoch >= haveEpoch /\ (with.epoch = haveEpoch => with = Current)
    BY <2>1, SetHaveNumbers DEF Current
  <2>3. WindowLo(lastIdx) \in Int /\ WindowHi(lastIdx) \in Int
    BY WindowAssumption DEF SwarmTypeOK, WindowLo, WindowHi, Segments
  <2>4. kept \in HaveMaps /\ kept.epoch >= with.epoch /\ (kept.epoch = with.epoch => kept = with)
    BY <2>2, <2>3, RetainNumbers
  <2>5. have' = kept.have /\ haveEpoch' = kept.epoch
    BY <1>1 DEF StoreHave, Current
  <2>6. Gossiped' = Gossiped
    BY <1>1 DEF StoreHave, Gossiped
  <2>7. with.epoch \in Nat /\ kept.epoch \in Nat
    BY <2>2, <2>4 DEF HaveMaps
  <2> HIDE DEF with, kept
  <2>8. Current.have = have
    BY DEF Current
  <2> QED
    BY <2>2, <2>4, <2>5, <2>6, <2>7, <2>8, <1>t
<1>2. CASE \E f \in Fetchers : StoreHave(f)
  <2>1. \A a \in Gossiped : a.epoch <= haveEpoch' /\ Consistent(a, Current')
    BY <1>1, <1>2, <1>t DEF EpochInv, Consistent, Current
  <2> QED
    BY <1>1, <1>2, <2>1 DEF EpochInv
<1>3. CASE UNCHANGED <<have, haveEpoch>> /\ UNCHANGED <<sent, gossip>>
  BY <1>3 DEF EpochInv, Gossiped, Consistent, Current
<1>4. ASSUME NEW stale \in SUBSET Peers, GossipRound(stale)
      PROVE  EpochInv'
  <2>1. Gossiped' \subseteq Gossiped \cup {Current} /\ Current' = Current /\ haveEpoch' = haveEpoch
    BY <1>4 DEF GossipRound, Gossiped, Current, IdleGossip
  <2>2. Current.epoch <= haveEpoch
    BY <1>t DEF Current
  <2> QED
    BY <2>1, <2>2 DEF EpochInv, Consistent
<1>5. ASSUME NEW p \in Peers, GossipSend(p)
      PROVE  EpochInv'
  <2>1. Gossiped' \subseteq Gossiped /\ Current' = Current /\ haveEpoch' = haveEpoch
    BY <1>5 DEF GossipSend, Gossiped, Current, IdleGossip
  <2> QED
    BY <2>1 DEF EpochInv
<1> QED
  BY <1>2, <1>3, <1>4, <1>5, Movers

\* Two gossiped have-maps with one epoch are one map, over the whole life of a
\* session: a receiver that ignores an epoch it has seen loses nothing.
THEOREM EpochsIdentify == SwarmSpec => []EpochIdentifiesHave
<1>1. SwarmInit => EpochInv
  BY DEF SwarmInit, EpochInv, Gossiped, IdleGossip
<1>2. SwarmTypeOK /\ EpochInv /\ [SwarmNext]_swarmVars => EpochInv'
  BY EpochStep
<1>3. EpochInv => EpochIdentifiesHave
  BY DEF EpochInv, EpochIdentifiesHave, Gossiped, Consistent
<1> QED
  BY <1>1, <1>2, <1>3, TypeAlways, PTL DEF SwarmSpec

-----------------------------------------------------------------------------
\* SwarmSession: the cache follows what is advertised

\* A store is between its put and the end of its trim.
Storing(f) == fetch[f].pc \in {"have", "retain"}

\* A store in progress will advertise the Segment, or drop it.
Unsettled(i) ==
    \E f \in Fetchers :
        \/ fetch[f].pc = "have" /\ fetch[f].idx = i
        \/ fetch[f].pc = "retain" /\ ~(fetch[f].lo <= i /\ i <= fetch[f].hi)

\* The strengthening, which holds during stores too: a cached Segment that is not
\* advertised is accounted for by a store that has not finished.
AdvertInv ==
    /\ \A i \in Cached : i \in have \/ Unsettled(i)
    /\ \A i \in have, j \in have : j - i <= WindowLag + WindowLead

\* A step other than store's three leaves the cache, what is
\* advertised and the stores in progress.
LEMMA StoreMovers ==
    ASSUME SwarmTypeOK, [SwarmNext]_swarmVars
    PROVE  \/ \E f \in Fetchers : StorePut(f) \/ StoreHave(f) \/ StoreRetain(f)
           \/ /\ UNCHANGED <<cache, have>>
              /\ \A g \in Fetchers : /\ Storing(g) => fetch'[g] = fetch[g]
                                     /\ Storing(g)' => fetch'[g] = fetch[g]
<1> DEFINE Outside == \A g \in Fetchers : /\ Storing(g) => fetch'[g] = fetch[g]
                                          /\ Storing(g)' => fetch'[g] = fetch[g]
<1>t. fetch \in [Fetchers -> FetchCalls]
  BY DEF SwarmTypeOK
<1>1. ASSUME NEW f \in Fetchers, NEW c, fetch' = [fetch EXCEPT ![f] = c],
             ~Storing(f), c.pc \notin {"have", "retain"}
      PROVE  Outside
  BY <1>1, <1>t DEF Storing
<1>i. IdleFetch.pc = "idle"
  BY DEF IdleFetch, FetchAt
<1>2. ASSUME NEW f \in Fetchers, NEW i \in Segments, FetchSegment(f, i)
      PROVE  UNCHANGED <<cache, have>> /\ Outside
  <2>1. FetchAt("hash", i).pc = "hash"
    BY DEF FetchAt
  <2>2. CASE i \in Cached
    BY <1>2, <2>2 DEF FetchSegment
  <2>3. CASE i \notin Cached
    BY <1>1, <1>2, <2>1, <2>3 DEF FetchSegment, Storing
  <2> QED
    BY <2>2, <2>3
<1>3. ASSUME NEW f \in Fetchers, LookUpHash(f) \/ SelectSource(f)
      PROVE  UNCHANGED <<cache, have>> /\ Outside
  <2>0. fetch[f] \in FetchCalls
    BY <1>t
  <2>1. CASE LookUpHash(f)
    BY <1>1, <2>0, <2>1 DEF LookUpHash, Storing, FetchCalls
  <2>2. CASE SelectSource(f)
    BY <1>1, <2>0, <2>2 DEF SelectSource, Storing, FetchCalls
  <2> QED
    BY <1>3, <2>1, <2>2
<1>4. ASSUME NEW f \in Fetchers, HostAnswers(f)
      PROVE  UNCHANGED <<cache, have>> /\ Outside
  <2>0. fetch[f] \in FetchCalls
    BY <1>t
  <2>1. CASE PlaylistArrives(f)
    BY <1>1, <2>0, <2>1 DEF PlaylistArrives, Storing, FetchCalls
  <2>2. CASE PlaylistFails(f)
    BY <1>1, <2>0, <2>2 DEF PlaylistFails, Storing, FetchCalls
  <2>3. ASSUME NEW m \in BOOLEAN, HostReturns(f, [origin |-> "host", matches |-> m])
        PROVE  UNCHANGED <<cache, have>> /\ Outside
    BY <1>1, <2>0, <2>3, <1>i DEF HostReturns, Storing, FetchCalls
  <2>4. CASE HostFails(f)
    BY <1>1, <2>0, <2>4, <1>i DEF HostFails, Storing
  <2> QED
    BY <1>4, <2>1, <2>2, <2>3, <2>4 DEF HostAnswers
<1>5. ASSUME NEW f \in Fetchers, PeerAnswers(f)
      PROVE  UNCHANGED <<cache, have>> /\ Outside
  <2>0. fetch[f] \in FetchCalls
    BY <1>t
  <2>1. CASE PullNotFound(f)
    BY <1>1, <2>0, <2>1 DEF PullNotFound, Storing, FetchCalls
  <2>2. CASE PullFails(f)
    BY <1>1, <2>0, <2>2 DEF PullFails, Storing, FetchCalls
  <2>3. ASSUME NEW m \in BOOLEAN, PullReturns(f, [origin |-> "peer", matches |-> m])
        PROVE  UNCHANGED <<cache, have>> /\ Outside
    BY <1>1, <2>0, <2>3 DEF PullReturns, Storing, FetchCalls
  <2> QED
    BY <1>5, <2>1, <2>2, <2>3 DEF PeerAnswers
<1>6. ASSUME \/ \E s \in Servers : Serving(s)
             \/ Gossiping
             \/ \E p \in Peers : CooldownOver(p)
             \/ HostPublishes
             \/ UNCHANGED swarmVars
      PROVE  UNCHANGED <<cache, have>> /\ Outside
  <2>1. UNCHANGED <<cache, have, fetch>>
    BY <1>6 DEF Serving, SwarmSegment, ServeFromCache, Release, Gossiping, GossipRound, GossipSend,
                OnSwarmHave, SetPeers, CooldownOver, HostPublishes, swarmVars
  <2> QED
    BY <2>1
<1> HIDE DEF Outside
<1>7. \/ \E f \in Fetchers : StorePut(f) \/ StoreHave(f) \/ StoreRetain(f)
      \/ UNCHANGED <<cache, have>> /\ Outside
  BY <1>2, <1>3, <1>4, <1>5, <1>6 DEF SwarmNext, FetchStep
<1> QED
  BY <1>7 DEF Outside

LEMMA AdvertStep ==
    ASSUME SwarmTypeOK, AdvertInv, [SwarmNext]_swarmVars
    PROVE  AdvertInv'
<1> DEFINE Width == WindowLag + WindowLead
<1>t. /\ fetch \in [Fetchers -> FetchCalls]
      /\ cache \in [Segments -> Bytes \cup {NoBytes}]
      /\ have \subseteq Segments
      /\ lastIdx \in Segments
      /\ Segments \subseteq Int
      /\ Width \in Nat
  BY WindowAssumption DEF SwarmTypeOK, Segments
<1>1. ASSUME NEW f \in Fetchers, StorePut(f)
      PROVE  AdvertInv'
  <2>1. /\ cache' = [cache EXCEPT ![fetch[f].idx] = fetch[f].data]
        /\ fetch' = [fetch EXCEPT ![f] = [fetch[f] EXCEPT !.pc = "have", !.data = NoBytes]]
        /\ have' = have
        /\ fetch[f].pc = "put"
        /\ fetch[f] \in FetchCalls
    BY <1>1, <1>t DEF StorePut
  <2>2. /\ fetch'[f].pc = "have" /\ fetch'[f].idx = fetch[f].idx
        /\ \A g \in Fetchers : g # f => fetch'[g] = fetch[g]
    BY <2>1, <1>t DEF FetchCalls
  <2>3. Cached' \subseteq Cached \cup {fetch[f].idx}
    BY <2>1, <1>t DEF Cached
  <2>4. Unsettled(fetch[f].idx)' /\ \A i \in Segments : Unsettled(i) => Unsettled(i)'
    BY <2>1, <2>2 DEF Unsettled
  <2>5. \A i \in Cached' : i \in have' \/ Unsettled(i)'
    BY <2>1, <2>3, <2>4 DEF AdvertInv, Cached
  <2> QED
    BY <2>1, <2>5 DEF AdvertInv
<1>2. ASSUME NEW f \in Fetchers, StoreHave(f)
      PROVE  AdvertInv'
  <2> DEFINE lo == WindowLo(lastIdx)
             hi == WindowHi(lastIdx)
  <2>1. /\ cache' = cache
        /\ fetch' = [fetch EXCEPT ![f] = [fetch[f] EXCEPT !.pc = "retain", !.lo = lo, !.hi = hi]]
        /\ have' = Retain(SetHave(Current, fetch[f].idx), lo, hi).have
        /\ fetch[f].pc = "have"
        /\ fetch[f] \in FetchCalls
    BY <1>2, <1>t DEF StoreHave, Current
  <2>2. /\ fetch'[f].pc = "retain" /\ fetch'[f].lo = lo /\ fetch'[f].hi = hi
        /\ \A g \in Fetchers : g # f => fetch'[g] = fetch[g]
    BY <2>1, <1>t DEF FetchCalls
  <2>3. lo \in Int /\ hi \in Int /\ hi - lo <= Width
    BY <1>t, WindowAssumption DEF WindowHi, WindowLo, Segments
  <2>4. have' = {i \in have \cup {fetch[f].idx} : lo <= i /\ i <= hi}
    <3>1. SetHave(Current, fetch[f].idx).have = have \cup {fetch[f].idx}
      BY DEF SetHave, Current
    <3> QED
      BY <2>1, <3>1 DEF Retain
  <2> HIDE DEF lo, hi
  <2>5. \A i \in Cached' : i \in have' \/ Unsettled(i)'
    <3> SUFFICES ASSUME NEW i \in Cached, i \notin have'
                 PROVE  Unsettled(i)'
      BY <2>1 DEF Cached
    <3>1. CASE lo <= i /\ i <= hi
      <4>1. i \notin have /\ i # fetch[f].idx
        BY <2>4, <3>1
      <4>2. PICK g \in Fetchers :
               \/ fetch[g].pc = "have" /\ fetch[g].idx = i
               \/ fetch[g].pc = "retain" /\ ~(fetch[g].lo <= i /\ i <= fetch[g].hi)
        BY <4>1 DEF AdvertInv, Unsettled
      <4>3. g # f
        BY <2>1, <4>1, <4>2
      <4> QED
        BY <2>2, <4>2, <4>3 DEF Unsettled
    <3>2. CASE ~(lo <= i /\ i <= hi)
      BY <2>2, <3>2 DEF Unsettled
    <3> QED
      BY <3>1, <3>2
  <2>6. \A i \in have', j \in have' : j - i <= Width
    <3>1. \A i \in have' : i \in Int /\ lo <= i /\ i <= hi
      <4>1. fetch[f].idx \in Segments
        BY <2>1 DEF FetchCalls
      <4> QED
        BY <1>t, <2>4, <4>1
    <3> QED
      BY <1>t, <2>3, <3>1
  <2> QED
    BY <2>5, <2>6 DEF AdvertInv
<1>3. ASSUME NEW f \in Fetchers, StoreRetain(f)
      PROVE  AdvertInv'
  <2>1. /\ cache' = RetainBytes(cache, fetch[f].lo, fetch[f].hi)
        /\ fetch' = [fetch EXCEPT ![f] = IdleFetch]
        /\ have' = have
        /\ fetch[f].pc = "retain"
        /\ fetch[f].lo \in Int /\ fetch[f].hi \in Int
    BY <1>3, <1>t DEF StoreRetain, FetchCalls
  <2>2. \A i \in Cached' : i \in Cached /\ fetch[f].lo <= i /\ i <= fetch[f].hi
    BY <2>1, <1>t DEF Cached, RetainBytes
  <2>3. \A g \in Fetchers : g # f => fetch'[g] = fetch[g]
    BY <2>1, <1>t
  <2>4. \A i \in Cached' : i \in have' \/ Unsettled(i)'
    <3> SUFFICES ASSUME NEW i \in Cached', i \notin have
                 PROVE  Unsettled(i)'
      BY <2>1
    <3>1. PICK g \in Fetchers :
             \/ fetch[g].pc = "have" /\ fetch[g].idx = i
             \/ fetch[g].pc = "retain" /\ ~(fetch[g].lo <= i /\ i <= fetch[g].hi)
      BY <2>2 DEF AdvertInv, Unsettled
    <3>2. g # f
      BY <2>1, <2>2, <3>1
    <3> QED
      BY <2>3, <3>1, <3>2 DEF Unsettled
  <2> QED
    BY <2>1, <2>4 DEF AdvertInv
<1>4. ASSUME UNCHANGED <<cache, have>>,
             \A g \in Fetchers : /\ Storing(g) => fetch'[g] = fetch[g]
                                 /\ Storing(g)' => fetch'[g] = fetch[g]
      PROVE  AdvertInv'
  <2>1. \A i \in Segments : Unsettled(i) => Unsettled(i)'
    BY <1>4 DEF Unsettled, Storing
  <2> QED
    BY <1>4, <2>1 DEF AdvertInv, Cached
<1> QED
  BY <1>1, <1>2, <1>3, <1>4, StoreMovers

\* Between stores a Viewer keeps nothing that it does not advertise, and what it
\* advertises fits in one window of WindowLag + WindowLead + 1 Segments, although
\* each store trims with a window it computed before it unlocked: what a Viewer
\* keeps does not grow with the party.
THEOREM CacheBounded == SwarmSpec => []CacheAdvertised
<1>1. SwarmInit => AdvertInv
  BY DEF SwarmInit, AdvertInv, Cached
<1>2. SwarmTypeOK /\ AdvertInv /\ [SwarmNext]_swarmVars => AdvertInv'
  BY AdvertStep
<1>3. AdvertInv => CacheAdvertised
  BY DEF AdvertInv, CacheAdvertised, Unsettled
<1> QED
  BY <1>1, <1>2, <1>3, TypeAlways, PTL DEF SwarmSpec

=============================================================================
