------------------------------ MODULE HostRoom ------------------------------
(***************************************************************************)
(* The Host's side of a Watch Party as a room: who is in it and who is     *)
(* told (app/party.go). StartParty, EndParty, OnJoinParty, OnLeaveParty    *)
(* and broadcastAudience, and what each Viewer's coordinator makes of the  *)
(* welcome, the Audience and the end it receives.                          *)
(*                                                                         *)
(* A session's read loop runs its handlers one after the other, and the    *)
(* connection's state callback runs OnLeaveParty beside it; the owner's    *)
(* HTTP requests come on top. They take pc.host under pc.mu and then use   *)
(* that party.Host without it: the party may have ended, or have been      *)
(* replaced, before they are done. A broadcast takes the list, then the    *)
(* members to send it to, then sends to one after the other.               *)
(*                                                                         *)
(* Playback states and the heartbeat are in PartySync, the races of a      *)
(* Viewer's own joins and leaves in ViewerSeat.                            *)
(***************************************************************************)
EXTENDS Naturals, Sequences, FiniteSets

CONSTANTS
    Viewers,
    Granted,      \* Viewers the catalog's policy allows from the start
    Titles,       \* Content IDs
    TitleOf,      \* the Title the owner starts each party on
    MaxParties,   \* bound: StartParty calls
    MaxMoves      \* bound: what people and the network do, all together

ASSUME HostRoomAssumption ==
    /\ IsFiniteSet(Viewers)
    /\ Granted \subseteq Viewers
    /\ {MaxParties, MaxMoves} \subseteq Nat
    /\ TitleOf \in [1..MaxParties -> Titles]

\* Parties are numbered in the order StartParty makes them; 0 is no party.
Parties == 1..MaxParties

\* The goroutines that run handlers for a Viewer's session.
Threads == Viewers \X {"read", "state"}

VARIABLES
    host,       \* partyCoordinator.host
    started,    \* parties started so far
    audience,   \* Host.audience of each party
    allow,      \* the Viewers Service.Allowed answers true for
    thread,     \* what each goroutine of a session is doing
    ender,      \* the EndParty call
    conn,       \* the state of each Viewer's connection
    moves,      \* what people and the network did so far
    toHost, toViewer,   \* the control channel of each Viewer's session
    call,       \* a Viewer's JoinParty call
    issued,     \* the request ids its session gave out
    seat,       \* the party a Viewer is in (viewer, viewerHost, swarm)
    view,       \* the peers of its swarm session
    leaving,    \* its LeaveParty calls that have not sent their message yet
    crossed,    \* auxiliary: parties of which two broadcasts overlapped
    ended,      \* auxiliary: parties that EndParty ended
    odd         \* auxiliary: the races a Viewer was in, see the properties
roomVars == <<host, started, audience, allow>>
viewerVars == <<call, issued, seat, view, leaving>>
auxVars == <<crossed, ended, odd>>
hostRoomVars == <<roomVars, thread, ender, conn, moves, toHost, toViewer, viewerVars, auxVars>>

-----------------------------------------------------------------------------
\* The parts of the state

\* job: what the goroutine answers; id: the request; of: the party.Host it holds;
\* list: the members it sends; todo: whom it still has to send them to.
ThreadStates ==
    [pc : {"idle", "enter", "leave", "list", "members", "send", "answer", "reply"},
     job : {"join", "leave"}, id : Nat, of : Nat, list : SUBSET Viewers, todo : SUBSET Viewers]

Idle == [pc |-> "idle", job |-> "leave", id |-> 0, of |-> 0, list |-> {}, todo |-> {}]

EnderStates == [pc : {"idle", "members", "send"}, of : Nat, todo : SUBSET Viewers]

NoEnder == [pc |-> "idle", of |-> 0, todo |-> {}]

\* waiting for the answer; seating: the welcome is in, beginViewer is not done.
Calls == [pc : {"idle", "waiting", "seating"}, id : Nat, of : Nat, list : SUBSET Viewers]

NoCall == [pc |-> "idle", id |-> 0, of |-> 0, list |-> {}]

\* What a Viewer sends: a JoinParty carries the id of its call and a Content ID.
Requests ==
    [kind : {"join"}, id : Nat, title : Titles] \cup [kind : {"leave"}, id : {0}]

\* What the Host sends: an answer carries the id of the request.
Messages == [kind : {"audience", "welcome", "refused", "ended"}, id : Nat, of : Nat,
             list : SUBSET Viewers]

Message(kind, id, k, list) == [kind |-> kind, id |-> id, of |-> k, list |-> list]

\* sendTo: a failed connection takes no more messages.
Send(v, m) ==
    toViewer' = IF conn[v] = "failed" THEN toViewer
                ELSE [toViewer EXCEPT ![v] = Append(@, m)]

\* A move of the owner, a Viewer's user or the network.
Move == moves < MaxMoves /\ moves' = moves + 1

RoomInit ==
    /\ host = 0
    /\ started = 0
    /\ audience = [k \in Parties |-> {}]
    /\ allow = Granted
    /\ thread = [t \in Threads |-> Idle]
    /\ ender = NoEnder
    /\ conn = [v \in Viewers |-> "up"]
    /\ moves = 0
    /\ toHost = [v \in Viewers |-> <<>>]
    /\ toViewer = [v \in Viewers |-> <<>>]
    /\ call = [v \in Viewers |-> NoCall]
    /\ issued = [v \in Viewers |-> 0]
    /\ seat = [v \in Viewers |-> 0]
    /\ view = [v \in Viewers |-> {}]
    /\ leaving = [v \in Viewers |-> 0]
    /\ crossed = {}
    /\ ended = {}
    /\ odd = [v \in Viewers |-> {}]

-----------------------------------------------------------------------------
\* The owner

\* StartParty: replaces the party that is live, if one is.
StartParty ==
    /\ Move
    /\ started < MaxParties
    /\ started' = started + 1
    /\ host' = started + 1
    /\ UNCHANGED <<audience, allow, thread, ender, conn, toHost, toViewer, viewerVars,
                   auxVars>>

\* Faulty variant of HostAfterEnd: the party stays live.
HostStays == host

\* pc.host once EndParty has taken the party.
HostAfterEnd == 0

\* EndParty takes the party away under pc.mu.
EndParty ==
    /\ Move
    /\ ender.pc = "idle"
    /\ host # 0
    /\ host' = HostAfterEnd
    /\ ender' = [pc |-> "members", of |-> host, todo |-> {}]
    /\ ended' = ended \cup {host}
    /\ UNCHANGED <<started, audience, allow, thread, conn, toHost, toViewer, viewerVars,
                   crossed, odd>>

\* h.Members() of EndParty's loop.
EnderMembers ==
    /\ ender.pc = "members"
    /\ ender' = IF audience[ender.of] = {} THEN NoEnder
                ELSE [ender EXCEPT !.pc = "send", !.todo = audience[ender.of]]
    /\ UNCHANGED <<roomVars, thread, conn, moves, toHost, toViewer, viewerVars, auxVars>>

\* Faulty variant of StillToTell: the loop ends with the first member.
TellOne(v) == {}

\* The members EndParty's loop has left after v.
StillToTell(v) == ender.todo \ {v}

\* One PartyEnded.
EnderSend(v) ==
    /\ ender.pc = "send"
    /\ v \in ender.todo
    /\ Send(v, Message("ended", 0, ender.of, {}))
    /\ ender' = IF StillToTell(v) = {} THEN NoEnder ELSE [ender EXCEPT !.todo = StillToTell(v)]
    /\ UNCHANGED <<roomVars, thread, conn, moves, toHost, viewerVars, auxVars>>

\* Service.Approve: the policy only ever grows while the Node runs.
Approve(v) ==
    /\ Move
    /\ v \notin allow
    /\ allow' = allow \cup {v}
    /\ UNCHANGED <<host, started, audience, thread, ender, conn, toHost, toViewer,
                   viewerVars, auxVars>>

-----------------------------------------------------------------------------
\* The handlers of a Viewer's session, on the Host

\* OnJoinParty's checks: a live party on that Title, and the policy's answer.
Admits(v) == host # 0 /\ Head(toHost[v]).title = TitleOf[host] /\ v \in allow

\* OnJoinParty takes pc.host and checks; ErrNotFound and ErrDenied are answers.
OnJoinParty(v) ==
    LET t == <<v, "read">> IN
    /\ conn[v] # "failed"
    /\ thread[t].pc = "idle"
    /\ toHost[v] # <<>>
    /\ Head(toHost[v]).kind = "join"
    /\ toHost' = [toHost EXCEPT ![v] = Tail(@)]
    /\ IF Admits(v)
         THEN /\ thread' = [thread EXCEPT ![t] = [Idle EXCEPT !.pc = "enter", !.job = "join",
                                                   !.id = Head(toHost[v]).id, !.of = host]]
              /\ UNCHANGED toViewer
         ELSE /\ Send(v, Message("refused", Head(toHost[v]).id, 0, {}))
              /\ UNCHANGED thread
    /\ UNCHANGED <<roomVars, ender, conn, moves, viewerVars, auxVars>>

\* Faulty variant of AfterEnter: the others are not told.
EnterQuietly == "answer"

\* OnJoinParty broadcasts before it answers.
AfterEnter == "list"

\* Host.Join.
Enter(t) ==
    /\ thread[t].pc = "enter"
    /\ audience' = [audience EXCEPT ![thread[t].of] = @ \cup {t[1]}]
    /\ thread' = [thread EXCEPT ![t].pc = AfterEnter]
    /\ UNCHANGED <<host, started, allow, ender, conn, moves, toHost, toViewer, viewerVars, auxVars>>

\* Faulty variant of OnLeaveParty: goes on without a party.
OnLeavePartyUnchecked(t) ==
    thread' = [thread EXCEPT ![t] = [Idle EXCEPT !.pc = "leave", !.of = host]]

\* OnLeaveParty takes pc.host; without a party it returns.
OnLeaveParty(t) ==
    thread' = [thread EXCEPT ![t] =
                IF host = 0 THEN Idle ELSE [Idle EXCEPT !.pc = "leave", !.of = host]]

\* A LeaveParty message: its party_id is not looked at.
LeaveArrives(v) ==
    /\ conn[v] # "failed"
    /\ thread[<<v, "read">>].pc = "idle"
    /\ toHost[v] # <<>>
    /\ Head(toHost[v]).kind = "leave"
    /\ toHost' = [toHost EXCEPT ![v] = Tail(@)]
    /\ OnLeaveParty(<<v, "read">>)
    /\ UNCHANGED <<roomVars, ender, conn, moves, toViewer, viewerVars, auxVars>>

\* Host.Leave.
Leave(t) ==
    /\ thread[t].pc = "leave"
    /\ audience' = [audience EXCEPT ![thread[t].of] = @ \ {t[1]}]
    /\ thread' = [thread EXCEPT ![t].pc = "list"]
    /\ UNCHANGED <<host, started, allow, ender, conn, moves, toHost, toViewer, viewerVars, auxVars>>

\* Another goroutine is between taking party k's list and having sent it.
Overlaps(t, k) ==
    \E o \in Threads \ {t} : thread[o].of = k /\ thread[o].pc \in {"members", "send", "reply"}

\* broadcastAudience: toWireAudience takes the list...
List(t) ==
    /\ thread[t].pc = "list"
    /\ thread' = [thread EXCEPT ![t].pc = "members", ![t].list = audience[thread[t].of]]
    /\ crossed' = IF Overlaps(t, thread[t].of) THEN crossed \cup {thread[t].of} ELSE crossed
    /\ UNCHANGED <<roomVars, ender, conn, moves, toHost, toViewer, viewerVars, ended, odd>>

\* What a goroutine does once its broadcast is out.
AfterBroadcast(h) ==
    IF h.job = "join" THEN [h EXCEPT !.pc = "answer", !.list = {}, !.todo = {}] ELSE Idle

\* ... h.Members() the ones to send it to...
Members(t) ==
    /\ thread[t].pc = "members"
    /\ LET to == audience[thread[t].of] IN
       thread' = [thread EXCEPT ![t] =
                    IF to = {} THEN AfterBroadcast(@) ELSE [@ EXCEPT !.pc = "send", !.todo = to]]
    /\ UNCHANGED <<roomVars, ender, conn, moves, toHost, toViewer, viewerVars, auxVars>>

\* ... and one sendTo.
SendAudience(t, v) ==
    /\ thread[t].pc = "send"
    /\ v \in thread[t].todo
    /\ Send(v, Message("audience", 0, thread[t].of, thread[t].list))
    /\ LET h == thread[t] IN
       thread' = [thread EXCEPT ![t] =
                    IF h.todo = {v} THEN AfterBroadcast(h) ELSE [h EXCEPT !.todo = @ \ {v}]]
    /\ UNCHANGED <<roomVars, ender, conn, moves, toHost, viewerVars, auxVars>>

\* The welcome is put together with a list of its own...
Answer(t) ==
    /\ thread[t].pc = "answer"
    /\ thread' = [thread EXCEPT ![t].pc = "reply", ![t].list = audience[thread[t].of]]
    /\ crossed' = IF Overlaps(t, thread[t].of) THEN crossed \cup {thread[t].of} ELSE crossed
    /\ UNCHANGED <<roomVars, ender, conn, moves, toHost, toViewer, viewerVars, ended, odd>>

\* ... and sent: handleJoinParty's answer.
Reply(t) ==
    /\ thread[t].pc = "reply"
    /\ Send(t[1], Message("welcome", thread[t].id, thread[t].of, thread[t].list))
    /\ odd' = IF host = thread[t].of THEN odd ELSE [odd EXCEPT ![t[1]] = @ \cup {"late"}]
    /\ thread' = [thread EXCEPT ![t] = Idle]
    /\ UNCHANGED <<roomVars, ender, conn, moves, toHost, viewerVars, crossed, ended>>

-----------------------------------------------------------------------------
\* The connection: OnConnectionStateChange calls OnLeaveParty on each bad state

\* Disconnected: ICE has lost the peer, messages wait.
Disconnect(v) ==
    /\ conn[v] = "up"
    /\ thread[<<v, "state">>].pc = "idle"
    /\ Move
    /\ conn' = [conn EXCEPT ![v] = "disconnected"]
    /\ odd' = [odd EXCEPT ![v] = @ \cup {"dropped"}]
    /\ OnLeaveParty(<<v, "state">>)
    /\ UNCHANGED <<roomVars, ender, toHost, toViewer, viewerVars, crossed, ended>>

\* ICE finds the peer again: nothing is called.
Reconnect(v) ==
    /\ conn[v] = "disconnected"
    /\ conn' = [conn EXCEPT ![v] = "up"]
    /\ UNCHANGED <<roomVars, thread, ender, moves, toHost, toViewer, viewerVars, auxVars>>

\* Faulty variant of Reported: only Disconnected is.
ReportedOnce == {"disconnected"}

\* The connection states OnConnectionStateChange reports.
Reported == {"disconnected", "failed"}

\* Failed, 25 s after the last answer: what was under way is lost. No handler
\* the read loop had begun is still at work by then.
Fail(v) ==
    /\ conn[v] = "disconnected"
    /\ thread[<<v, "read">>].pc = "idle"
    /\ thread[<<v, "state">>].pc = "idle"
    /\ conn' = [conn EXCEPT ![v] = "failed"]
    /\ toHost' = [toHost EXCEPT ![v] = <<>>]
    /\ toViewer' = [toViewer EXCEPT ![v] = <<>>]
    /\ IF "failed" \in Reported THEN OnLeaveParty(<<v, "state">>) ELSE UNCHANGED thread
    /\ UNCHANGED <<roomVars, ender, moves, viewerVars, auxVars>>

-----------------------------------------------------------------------------
\* The Viewer's coordinator

\* The message is on the wire, unless the connection has failed.
Request(v, m) ==
    toHost' = IF conn[v] = "failed" THEN toHost ELSE [toHost EXCEPT ![v] = Append(@, m)]

\* JoinParty: the request goes out, and the call waits.
JoinParty(v, title) ==
    /\ call[v].pc = "idle"
    /\ Move
    /\ issued' = [issued EXCEPT ![v] = @ + 1]
    /\ call' = [call EXCEPT ![v] = [NoCall EXCEPT !.pc = "waiting", !.id = issued[v] + 1]]
    /\ Request(v, [kind |-> "join", id |-> issued[v] + 1, title |-> title])
    /\ UNCHANGED <<roomVars, thread, ender, conn, toViewer, seat, view, leaving, auxVars>>

\* The call's context ends: the Host is not told.
GiveUp(v) ==
    /\ Move
    /\ call[v].pc = "waiting"
    /\ call' = [call EXCEPT ![v] = NoCall]
    /\ odd' = [odd EXCEPT ![v] = @ \cup {"gaveup"}]
    /\ UNCHANGED <<roomVars, thread, ender, conn, toHost, toViewer, issued, seat, view, leaving,
                   crossed, ended>>

\* beginViewer, the swarm session and its peers.
Seat(v) ==
    /\ call[v].pc = "seating"
    /\ seat' = [seat EXCEPT ![v] = call[v].of]
    /\ view' = [view EXCEPT ![v] = call[v].list]
    /\ call' = [call EXCEPT ![v] = NoCall]
    /\ UNCHANGED <<roomVars, thread, ender, conn, moves, toHost, toViewer, issued, leaving,
                   auxVars>>

\* LeaveParty gives up the seat under pc.mu; a no-op unless seated. A JoinParty
\* may be under way beside it.
LeaveParty(v) ==
    /\ Move
    /\ seat[v] # 0
    /\ seat' = [seat EXCEPT ![v] = 0]
    /\ view' = [view EXCEPT ![v] = {}]
    /\ leaving' = [leaving EXCEPT ![v] = @ + 1]
    /\ UNCHANGED <<roomVars, thread, ender, conn, toHost, toViewer, call, issued, auxVars>>

\* It sends its message after the unlock, perhaps behind a JoinParty.
SendLeave(v) ==
    /\ leaving[v] > 0
    /\ leaving' = [leaving EXCEPT ![v] = @ - 1]
    /\ Request(v, [kind |-> "leave", id |-> 0])
    /\ odd' = IF call[v].pc = "idle" /\ seat[v] = 0 THEN odd
              ELSE [odd EXCEPT ![v] = @ \cup {"overtaken"}]
    /\ UNCHANGED <<roomVars, thread, ender, conn, moves, toViewer, call, issued, seat, view,
                   crossed, ended>>

\* A message in the Viewer's read loop. An answer goes to the call that waits for
\* it, or to none (deliver, by request id);
\* OnPartyAudience sets the peers of the swarm session, if there is one;
\* OnPartyEnded ends whatever party of this Host the Viewer is in.
Receive(v) ==
    LET m == Head(toViewer[v])
        forCall == m.id = call[v].id /\ call[v].pc = "waiting"
    IN
    /\ conn[v] = "up"
    /\ toViewer[v] # <<>>
    /\ toViewer' = [toViewer EXCEPT ![v] = Tail(@)]
    /\ call' = CASE forCall /\ m.kind = "welcome" ->
                        [call EXCEPT ![v] = [@ EXCEPT !.pc = "seating", !.of = m.of, !.list = m.list]]
                 [] forCall /\ m.kind = "refused" -> [call EXCEPT ![v] = NoCall]
                 [] OTHER -> call
    /\ view' = CASE m.kind = "audience" /\ seat[v] # 0 -> [view EXCEPT ![v] = m.list]
                 [] m.kind = "ended" -> [view EXCEPT ![v] = {}]
                 [] OTHER -> view
    /\ seat' = IF m.kind = "ended" THEN [seat EXCEPT ![v] = 0] ELSE seat
    /\ odd' = [odd EXCEPT ![v] = @
                \cup (IF m.kind \in {"audience", "ended"} /\ call[v].pc = "seating"
                        THEN {"raced"} ELSE {})
                \cup (IF m.kind = "ended" /\ seat[v] \notin {0, m.of} THEN {"misled"} ELSE {})
                \cup (IF m.kind = "audience" /\ seat[v] \notin {0, m.of} THEN {"mixed"} ELSE {})]
    /\ UNCHANGED <<roomVars, thread, ender, conn, moves, toHost, issued, leaving, crossed, ended>>

RoomNext ==
    \/ StartParty
    \/ EndParty
    \/ EnderMembers
    \/ \E v \in Viewers :
         \/ EnderSend(v)
         \/ Approve(v)
         \/ OnJoinParty(v)
         \/ LeaveArrives(v)
         \/ Disconnect(v)
         \/ Reconnect(v)
         \/ Fail(v)
         \/ \E title \in Titles : JoinParty(v, title)
         \/ GiveUp(v)
         \/ Seat(v)
         \/ LeaveParty(v)
         \/ SendLeave(v)
         \/ Receive(v)
    \/ \E t \in Threads :
         \/ Enter(t)
         \/ Leave(t)
         \/ List(t)
         \/ Members(t)
         \/ \E v \in Viewers : SendAudience(t, v)
         \/ Answer(t)
         \/ Reply(t)

RoomSpec == RoomInit /\ [][RoomNext]_hostRoomVars

-----------------------------------------------------------------------------
\* Properties

\* Type invariant: the Audiences, the handler goroutines, the channels and the Viewers'
\* seats hold what their Go types give them; a goroutine that holds a Host engine holds
\* one that was made.
RoomTypeOK ==
    /\ host \in 0..started
    /\ started \in 0..MaxParties
    /\ audience \in [Parties -> SUBSET Viewers]
    /\ allow \in SUBSET Viewers
    /\ thread \in [Threads -> ThreadStates]
    /\ \A t \in Threads : thread[t].pc # "idle" => thread[t].of \in Parties
    /\ ender \in EnderStates
    /\ ender.pc # "idle" => ender.of \in Parties
    /\ conn \in [Viewers -> {"up", "disconnected", "failed"}]
    /\ moves \in 0..MaxMoves
    /\ toHost \in [Viewers -> Seq(Requests)]
    /\ toViewer \in [Viewers -> Seq(Messages)]
    /\ call \in [Viewers -> Calls]
    /\ issued \in [Viewers -> Nat]
    /\ seat \in [Viewers -> Nat]
    /\ view \in [Viewers -> SUBSET Viewers]
    /\ leaving \in [Viewers -> Nat]
    /\ crossed \in SUBSET Parties
    /\ ended \in SUBSET Parties
    /\ odd \in [Viewers -> SUBSET {"late", "dropped", "gaveup", "raced", "misled", "mixed",
                                   "overtaken"}]

\* A Viewer whose connection has failed is not in the live party's Audience
\* once OnLeaveParty has run: a JoinParty handled after Disconnected was
\* reported does not leave a ghost behind, because Failed is reported too.
NoGhosts ==
    \A v \in Viewers :
        conn[v] = "failed" /\ thread[<<v, "state">>].pc = "idle" /\ host # 0
            => v \notin audience[host]

\* No handler is at work and nothing is on its way to Viewer v.
Settled(v) ==
    /\ \A t \in Threads : thread[t].pc = "idle"
    /\ ender.pc = "idle"
    /\ toHost[v] = <<>>
    /\ toViewer[v] = <<>>
    /\ call[v].pc = "idle"
    /\ leaving[v] = 0
    /\ conn[v] = "up"

\* broadcastAudience: when all is quiet a member of the live party holds the
\* party's member list, unless two broadcasts overlapped, an Audience came
\* between its welcome and its seat (OnPartyAudience finds no swarm), or it
\* took the list of another party (party_id is not compared).
AudienceSettles ==
    \A v \in Viewers :
        (Settled(v) /\ host # 0 /\ seat[v] = host /\ v \in audience[host])
            => \/ view[v] = audience[host]
               \/ host \in crossed
               \/ odd[v] \cap {"raced", "mixed"} # {}

\* EndParty: when all is quiet nobody sits in a party that was ended, unless
\* its welcome left after the party was taken away, the end overtook its seat,
\* or it was out of the Audience: after a disconnect, or because the message of
\* its LeaveParty came behind that of the JoinParty that seated it.
EndTold ==
    \A v \in Viewers :
        (Settled(v) /\ seat[v] \in ended)
            => odd[v] \cap {"late", "raced", "dropped", "overtaken"} # {}

\* When all is quiet a member of the live party's Audience sits in it, unless
\* its call gave up on the answer or the end of an earlier party came late
\* (OnPartyEnded leaves whatever party of that Host the Viewer is in).
MembersSeated ==
    \A v \in Viewers :
        (Settled(v) /\ host # 0 /\ v \in audience[host])
            => \/ seat[v] = host
               \/ odd[v] \cap {"gaveup", "misled"} # {}
=============================================================================
