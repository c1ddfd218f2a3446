---------------------------- MODULE PlayerSocket ----------------------------
(***************************************************************************)
(* The player socket of a Node's watch pages (serveWS, app/party.go) and   *)
(* the Danmaku that pass through it and through the sessions: a Host       *)
(* checks, rate-limits (DanmakuGate, party/danmaku.go) and fans out what   *)
(* its Audience and its own page post; a Viewer forwards what its page     *)
(* posts and shows what comes from its Host.                               *)
(*                                                                         *)
(* Goroutines: the read loop of each session; per page serveWS itself, a   *)
(* writer, and for a Viewer's page a reader and a loop that measures RTT.  *)
(* They meet at pc.out, the queue of the page that attached last. All      *)
(* sends into a queue give up when it is full, so no browser can hold up   *)
(* a session.                                                              *)
(*                                                                         *)
(* Data: a Danmaku is text or, once CapText has trimmed it, blank. Time    *)
(* counts ticks; a bucket gains one unit per tick and a Danmaku costs Cost *)
(* units, so fractions of a token are kept. Player events and reports feed *)
(* the engines of PartySync; here only the queues they pass count. One     *)
(* party per behaviour: how it starts and fills is in HostRoom.            *)
(***************************************************************************)
EXTENDS Naturals, Sequences, FiniteSets

CONSTANTS
    Nodes,        \* remote Nodes with a session
    Pages,        \* sockets of this Node's watch pages, each opened once
    NoPage, NoNode,
    Burst, Cost,  \* the gate's capacity, and the units of a token
    OutBuffer,    \* capacity of a page's queue
    ReportBuffer, \* capacity of a Viewer page's reports channel
    MaxInputs,    \* bound: Danmaku posted, and pages opened, which count as two
    MaxInbox,     \* bound: Danmaku on a session's channel at a time
    MaxNow        \* bound: ticks

ASSUME PlayerSocketAssumption ==
    /\ NoPage \notin Pages /\ NoNode \notin Nodes
    /\ Nodes \cap Pages = {}
    /\ Burst \in Nat /\ Cost \in Nat \ {0} /\ Cost <= Burst
    /\ {OutBuffer, ReportBuffer, MaxInputs, MaxInbox, MaxNow} \subseteq Nat

\* Goroutines that carry a Danmaku: session read loops and page readers.
Threads == Nodes \cup Pages

VARIABLES
    hosting,     \* pc.host is set
    viewerHost,  \* pc.viewerHost, while pc.viewer is set
    members,     \* the party's Audience
    inbox,       \* Danmaku on each session's control channel
    thread,      \* what each goroutine does with its Danmaku
    bucket,      \* DanmakuGate.state
    now,
    page,        \* the sockets and their goroutines
    sink,        \* pc.out
    newest,      \* auxiliary: the page that attached last
    passed,      \* auxiliary: when the gate let each Node's Danmaku pass
    inputs
partyVars == <<hosting, viewerHost, members>>
vars == <<partyVars, inbox, thread, bucket, now, page, sink, newest, passed, inputs>>

-----------------------------------------------------------------------------
\* The parts of the state

\* to: the queue that pushDanmaku took.
ThreadStates ==
    [pc : {"idle", "member", "allow", "members", "send", "forward", "push", "put"},
     todo : SUBSET Nodes, to : Pages \cup {NoPage}]

Idle == [pc |-> "idle", todo |-> {}, to |-> NoPage]

At(pc) == [Idle EXCEPT !.pc = pc]

Buckets == [known : BOOLEAN, tokens : Nat, last : Nat]

\* lost: the browser is gone; closed: the reader has closed reports; reader,
\* writer and rtt: the goroutines that run; done: the socket's done channel;
\* out and reports: how many messages its two channels hold.
PageStates ==
    [pc : {"none", "open", "leaving"}, role : {"host", "viewer"}, lost : BOOLEAN,
     closed : BOOLEAN, reader : BOOLEAN, writer : BOOLEAN, rtt : BOOLEAN, done : BOOLEAN,
     out : Nat, reports : Nat]

NoSocket ==
    [pc |-> "none", role |-> "host", lost |-> FALSE, closed |-> FALSE, reader |-> FALSE,
     writer |-> FALSE, rtt |-> FALSE, done |-> FALSE, out |-> 0, reports |-> 0]

Init ==
    /\ hosting \in BOOLEAN
    /\ viewerHost \in Nodes \cup {NoNode}
    /\ members = {}
    /\ inbox = [n \in Nodes |-> <<>>]
    /\ thread = [t \in Threads |-> Idle]
    /\ bucket = [n \in Nodes |-> [known |-> FALSE, tokens |-> 0, last |-> 0]]
    /\ now = 0
    /\ page = [p \in Pages |-> NoSocket]
    /\ sink = NoPage
    /\ newest = NoPage
    /\ passed = [n \in Nodes |-> <<>>]
    /\ inputs = 0

\* Only the gate reads the clock, so time passes when it is about to.
Tick ==
    /\ now < MaxNow /\ \E n \in Nodes : thread[n].pc = "allow"
    /\ now' = now + 1
    /\ UNCHANGED <<partyVars, inbox, thread, bucket, page, sink, newest, passed, inputs>>

-----------------------------------------------------------------------------
\* The party around the sockets

\* Host.Join and Host.Leave.
Join(n) ==
    /\ hosting /\ n \notin members
    /\ members' = members \cup {n}
    /\ UNCHANGED <<hosting, viewerHost, inbox, thread, bucket, now, page, sink, newest, passed,
                   inputs>>

Leave(n) ==
    /\ n \in members
    /\ members' = members \ {n}
    /\ UNCHANGED <<hosting, viewerHost, inbox, thread, bucket, now, page, sink, newest, passed,
                   inputs>>

\* EndParty, and LeaveParty or OnPartyEnded: goroutines keep what they took.
EndParty ==
    /\ hosting
    /\ hosting' = FALSE
    /\ UNCHANGED <<viewerHost, members, inbox, thread, bucket, now, page, sink, newest, passed,
                   inputs>>

LeaveParty ==
    /\ viewerHost # NoNode
    /\ viewerHost' = NoNode
    /\ UNCHANGED <<hosting, members, inbox, thread, bucket, now, page, sink, newest, passed,
                   inputs>>

-----------------------------------------------------------------------------
\* A Danmaku from a session

\* A remote Node sends one.
Post(n, text) ==
    /\ inputs < MaxInputs /\ Len(inbox[n]) < MaxInbox
    /\ inputs' = inputs + 1
    /\ inbox' = [inbox EXCEPT ![n] = Append(@, text)]
    /\ UNCHANGED <<partyVars, thread, bucket, now, page, sink, newest, passed>>

\* party.CapText, as far as anything tells: white space is trimmed to nothing, and a
\* text, cut at a hundred runes or not, stays one.
CapText(s) == IF s = "blank" THEN "" ELSE s

\* OnPartyDanmaku takes pc.host and pc.viewer. Whoever hosts looks at it as the
\* Host only; a Viewer shows it if it is from its Host. A blank one has no effect
\* for either: a Host drops it before the gate.
OnPartyDanmaku(n) ==
    /\ thread[n].pc = "idle" /\ inbox[n] # <<>>
    /\ inbox' = [inbox EXCEPT ![n] = Tail(@)]
    /\ thread' = [thread EXCEPT ![n] =
                    CASE CapText(Head(inbox[n])) = "" -> Idle
                      [] CapText(Head(inbox[n])) # "" /\ hosting -> At("member")
                      [] CapText(Head(inbox[n])) # "" /\ ~hosting /\ viewerHost = n -> At("push")
                      [] OTHER -> Idle]
    /\ UNCHANGED <<partyVars, bucket, now, page, sink, newest, passed, inputs>>

\* Host.Member: only the Audience may post.
Member(n) ==
    /\ thread[n].pc = "member"
    /\ thread' = [thread EXCEPT ![n] = IF n \in members THEN At("allow") ELSE Idle]
    /\ UNCHANGED <<partyVars, inbox, bucket, now, page, sink, newest, passed, inputs>>

\* Faulty variant of Capped: the refill is not capped.
CappedNever(tokens) == tokens

\* The refill stops at the burst.
Capped(tokens) == IF tokens > Burst THEN Burst ELSE tokens

\* The sender's tokens at this time; a new sender starts with the burst.
Refilled(n) ==
    IF bucket[n].known THEN Capped(bucket[n].tokens + (now - bucket[n].last)) ELSE Burst

\* DanmakuGate.Allow: takes a token, or drops the Danmaku.
Allow(n) ==
    LET tokens == Refilled(n)
        ok == tokens >= Cost
    IN
    /\ thread[n].pc = "allow"
    /\ bucket' = [bucket EXCEPT ![n] = [known |-> TRUE, last |-> now,
                                       tokens |-> IF ok THEN tokens - Cost ELSE tokens]]
    /\ passed' = IF ok THEN [passed EXCEPT ![n] = Append(@, now)] ELSE passed
    /\ thread' = [thread EXCEPT ![n] = IF ok THEN At("members") ELSE Idle]
    /\ UNCHANGED <<partyVars, inbox, now, page, sink, newest, inputs>>

-----------------------------------------------------------------------------
\* broadcastDanmaku and pushDanmaku, by whichever goroutine

\* h.Members() of the fan-out.
ListMembers(t) ==
    /\ thread[t].pc = "members"
    /\ thread' = [thread EXCEPT ![t] =
                    IF members = {} THEN At("push") ELSE [At("send") EXCEPT !.todo = members]]
    /\ UNCHANGED <<partyVars, inbox, bucket, now, page, sink, newest, passed, inputs>>

\* One sendTo; it does not wait for the Node.
SendTo(t, m) ==
    LET rest == thread[t].todo \ {m} IN
    /\ thread[t].pc = "send" /\ m \in thread[t].todo
    /\ thread' = [thread EXCEPT ![t] =
                    IF rest = {} THEN At("push") ELSE [At("send") EXCEPT !.todo = rest]]
    /\ UNCHANGED <<partyVars, inbox, bucket, now, page, sink, newest, passed, inputs>>

\* pushDanmaku takes pc.out under pc.mu...
Push(t) ==
    /\ thread[t].pc = "push"
    /\ thread' = [thread EXCEPT ![t] = IF sink = NoPage THEN Idle ELSE [At("put") EXCEPT !.to = sink]]
    /\ UNCHANGED <<partyVars, inbox, bucket, now, page, sink, newest, passed, inputs>>

\* Faulty variant of GivesUp: the send waits for room.
GivesUpNever(p) == FALSE

\* The default of the send's select: a full queue loses the message.
GivesUp(p) == page[p].out >= OutBuffer

\* A send into the queue of page p.
Queued(p) == [page EXCEPT ![p].out = IF GivesUp(p) THEN @ ELSE @ + 1]

\* ... and sends into it, whether or not the page is still there.
Put(t) ==
    /\ thread[t].pc = "put"
    /\ GivesUp(thread[t].to) \/ page[thread[t].to].out < OutBuffer
    /\ page' = Queued(thread[t].to)
    /\ thread' = [thread EXCEPT ![t] = Idle]
    /\ UNCHANGED <<partyVars, inbox, bucket, now, sink, newest, passed, inputs>>

\* handlePlayerDanmaku: a Viewer's page's text goes to the Host.
Forward(t) ==
    /\ thread[t].pc = "forward"
    /\ thread' = [thread EXCEPT ![t] = Idle]
    /\ UNCHANGED <<partyVars, inbox, bucket, now, page, sink, newest, passed, inputs>>

-----------------------------------------------------------------------------
\* A watch page

\* Nothing of the socket is left.
Freed(p) ==
    /\ page[p].pc = "none" /\ ~page[p].reader /\ ~page[p].writer /\ ~page[p].rtt
    /\ thread[p].pc = "idle"

\* handleParty has upgraded the connection, and serveWS read the hello: it starts
\* the writer, makes this page's queue pc.out and runs the loop of the role, a
\* Viewer's with the RTT loop beside it.
Attach(p, role) ==
    /\ inputs + 2 <= MaxInputs
    /\ inputs' = inputs + 2
    /\ page[p] = NoSocket
    /\ page' = [page EXCEPT ![p] = [NoSocket EXCEPT !.pc = "open", !.role = role, !.reader = TRUE,
                                                   !.writer = TRUE, !.rtt = role = "viewer"]]
    /\ sink' = p
    /\ newest' = p
    /\ UNCHANGED <<partyVars, inbox, thread, bucket, now, passed>>

\* Page p's reading goroutine is free to take the browser's next message.
Reads(p) == page[p].pc = "open" /\ page[p].reader /\ thread[p].pc = "idle"

\* A Danmaku the browser posts: handlePlayerDanmaku. The Host's own is not
\* rate-limited.
PagePost(p) ==
    /\ Reads(p) /\ ~page[p].lost
    /\ inputs < MaxInputs
    /\ inputs' = inputs + 1
    /\ thread' = [thread EXCEPT ![p] = CASE hosting -> At("members")
                                         [] ~hosting /\ viewerHost # NoNode -> At("forward")
                                         [] OTHER -> Idle]
    /\ UNCHANGED <<partyVars, inbox, bucket, now, page, sink, newest, passed>>

\* A player event on a Host's page: without a party serveHostWS returns.
PlayerEvent(p) ==
    /\ Reads(p) /\ page[p].role = "host" /\ ~page[p].lost
    /\ page' = IF hosting THEN page
               ELSE [page EXCEPT ![p].pc = "leaving", ![p].reader = FALSE]
    /\ UNCHANGED <<partyVars, inbox, thread, bucket, now, sink, newest, passed, inputs>>

\* A report on a Viewer's page: lost when the channel is full.
Report(p) ==
    /\ Reads(p) /\ page[p].role = "viewer" /\ ~page[p].lost
    /\ page' = [page EXCEPT ![p].reports = IF @ < ReportBuffer THEN @ + 1 ELSE @]
    /\ UNCHANGED <<partyVars, inbox, thread, bucket, now, sink, newest, passed, inputs>>

\* The browser goes away.
Disconnect(p) ==
    /\ page[p].pc = "open" /\ ~page[p].lost
    /\ page' = [page EXCEPT ![p].lost = TRUE]
    /\ UNCHANGED <<partyVars, inbox, thread, bucket, now, sink, newest, passed, inputs>>

\* ReadMessage fails: a Host's page is left, a Viewer's reader closes reports.
ReadFails(p) ==
    /\ Reads(p) /\ page[p].lost
    /\ page' = [page EXCEPT ![p].reader = FALSE, ![p].closed = page[p].role = "viewer",
                            ![p].pc = IF page[p].role = "host" THEN "leaving" ELSE @]
    /\ UNCHANGED <<partyVars, inbox, thread, bucket, now, sink, newest, passed, inputs>>

\* serveViewerWS's loop takes a report...
TakeReport(p) ==
    /\ page[p].pc = "open" /\ page[p].reports > 0
    /\ page' = [page EXCEPT ![p].reports = @ - 1]
    /\ UNCHANGED <<partyVars, inbox, thread, bucket, now, sink, newest, passed, inputs>>

\* ... sends the engine's Action every quarter second...
SendAction(p) ==
    /\ page[p].pc = "open" /\ page[p].role = "viewer"
    /\ page' = Queued(p)
    /\ UNCHANGED <<partyVars, inbox, thread, bucket, now, sink, newest, passed, inputs>>

\* ... and returns once reports is closed and empty.
LeaveLoop(p) ==
    /\ page[p].pc = "open" /\ page[p].closed /\ page[p].reports = 0
    /\ page' = [page EXCEPT ![p].pc = "leaving"]
    /\ UNCHANGED <<partyVars, inbox, thread, bucket, now, sink, newest, passed, inputs>>

\* The RTT loop ends: serveViewerWS closed rttDone as it returned. Every measurement
\* ends by its own three seconds, and what it measures is in PartySync.
RTTEnds(p) ==
    /\ page[p].rtt /\ page[p].pc # "open"
    /\ page' = [page EXCEPT ![p].rtt = FALSE]
    /\ UNCHANGED <<partyVars, inbox, thread, bucket, now, sink, newest, passed, inputs>>

\* Faulty variant of SinkAfter: any page that goes takes the sink with it.
SinkAfterAny(p) == NoPage

\* pc.out once page p is gone: cleared only if it is p's.
SinkAfter(p) == IF sink = p THEN NoPage ELSE sink

\* Faulty variant of DoneBy: only the page whose queue is the sink closes done.
DoneBySink(p) == sink = p

\* serveWS's deferred call closes done for every page.
DoneBy(p) == TRUE

\* serveWS returns: its deferred call, and conn.Close.
Detach(p) ==
    /\ page[p].pc = "leaving"
    /\ sink' = SinkAfter(p)
    /\ page' = [page EXCEPT ![p].pc = "none", ![p].done = DoneBy(p), ![p].lost = TRUE]
    /\ UNCHANGED <<partyVars, inbox, thread, bucket, now, newest, passed, inputs>>

\* The writer takes a message and writes it; a browser may be slow to read.
Write(p) ==
    /\ page[p].writer /\ page[p].out > 0
    /\ page' = [page EXCEPT ![p].out = @ - 1, ![p].writer = ~page[p].lost]
    /\ UNCHANGED <<partyVars, inbox, thread, bucket, now, sink, newest, passed, inputs>>

\* The writer sees done closed.
WriterEnds(p) ==
    /\ page[p].writer /\ page[p].done
    /\ page' = [page EXCEPT ![p].writer = FALSE]
    /\ UNCHANGED <<partyVars, inbox, thread, bucket, now, sink, newest, passed, inputs>>

-----------------------------------------------------------------------------
FanOut(t) ==
    \/ ListMembers(t) \/ Push(t) \/ Put(t) \/ Forward(t)
    \/ \E m \in Nodes : SendTo(t, m)

ReadLoop(n) == OnPartyDanmaku(n) \/ Member(n) \/ Allow(n)

Serving(p) == ReadFails(p) \/ TakeReport(p) \/ LeaveLoop(p) \/ Detach(p)

Browser(p) ==
    \/ \E role \in {"host", "viewer"} : Attach(p, role)
    \/ PagePost(p) \/ PlayerEvent(p) \/ Report(p) \/ Disconnect(p)

Next ==
    \/ Tick \/ EndParty \/ LeaveParty
    \/ \E n \in Nodes : Join(n) \/ Leave(n) \/ ReadLoop(n) \/ \E text \in {"text", "blank"} : Post(n, text)
    \/ \E t \in Threads : FanOut(t)
    \/ \E p \in Pages :
         Browser(p) \/ Serving(p) \/ SendAction(p) \/ Write(p) \/ WriterEnds(p) \/ RTTEnds(p)

Spec == Init /\ [][Next]_vars

\* Goroutines run. No browser has to read what is written to it, to post or to
\* go away: Write and Browser are not fair. A select whose ticker or queue and whose
\* done channel are all ready chooses at random, so it does not miss done for ever.
Fairness ==
    /\ \A n \in Nodes : WF_vars(ReadLoop(n))
    /\ \A t \in Threads : WF_vars(FanOut(t))
    /\ \A p \in Pages : WF_vars(Serving(p)) /\ WF_vars(WriterEnds(p)) /\ WF_vars(RTTEnds(p))

FairSpec == Spec /\ Fairness

-----------------------------------------------------------------------------
\* Type invariant; the queues of the pages and their reports channels keep their
\* capacities.
TypeOK ==
    /\ hosting \in BOOLEAN
    /\ viewerHost \in Nodes \cup {NoNode}
    /\ members \in SUBSET Nodes
    /\ inbox \in [Nodes -> Seq({"text", "blank"})]
    /\ thread \in [Threads -> ThreadStates]
    /\ bucket \in [Nodes -> Buckets]
    /\ now \in Nat
    /\ page \in [Pages -> PageStates]
    /\ \A p \in Pages : page[p].out <= OutBuffer /\ page[p].reports <= ReportBuffer
    /\ sink \in Pages \cup {NoPage}
    /\ newest \in Pages \cup {NoPage}
    /\ passed \in [Nodes -> Seq(Nat)]
    /\ inputs \in Nat

\* The rate limit over every window, not only from the start: of any run of
\* Danmaku of one Node that the gate let pass, there are no more than the burst
\* and what was refilled between the first and the last of them - through leaves,
\* re-joins and idle times.
RateLimited ==
    \A n \in Nodes : \A i, j \in DOMAIN passed[n] :
        i <= j => (j - i + 1) * Cost <= Burst + (passed[n][j] - passed[n][i])

\* Danmaku go to the page that attached last for as long as it is there, whatever
\* older pages do as they go; and to none that is gone.
SinkIsNewest ==
    /\ sink # NoPage => sink = newest /\ page[sink].pc \in {"open", "leaving"}
    /\ newest # NoPage /\ page[newest].pc = "open" => sink = newest

\* A Danmaku that is being handled is done with, even if the page it is shown on
\* reads nothing: a stalled browser holds up no session.
FanOutEnds == \A t \in Threads : thread[t].pc # "idle" ~> thread[t].pc = "idle"

\* When a browser is gone its socket's goroutines all end.
PageFreed == \A p \in Pages : page[p].lost ~> Freed(p)
=============================================================================
