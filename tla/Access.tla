------------------------------- MODULE Access -------------------------------
(***************************************************************************)
(* Who may see a Library, and how its owner is asked: the policy and the   *)
(* pending requests (catalog/), the session handlers that answer a remote  *)
(* Node (peer/session.go), the control API (app/node.go, bridge/api.go),   *)
(* and the event stream that tells the owner's pages that a request is     *)
(* there (app/events.go, bridge/sse.go).                                   *)
(*                                                                         *)
(* Each session's read loop, each HTTP request, each event stream and its  *)
(* pump is a goroutine; the policy, the requests and the hub have a mutex  *)
(* each and no operation holds two. An event carries no data: a page that  *)
(* gets one fetches the requests again, and a hub whose buffer is full     *)
(* drops the event. Sessions are up here: how they come up is in Dialing.  *)
(***************************************************************************)
EXTENDS Naturals, Sequences, FiniteSets

CONSTANTS
    Nodes,        \* the remote Nodes
    Public,       \* the default visibility
    Blocked,      \* the configured block-list
    Preset,       \* the configured allow-list
    Pages,        \* the owner's open browser pages
    Buffer,       \* the capacity of an event channel
    MaxCalls,     \* bound: calls of the remote Nodes together
    MaxOther,     \* bound: events that are not requests
    MaxFetches    \* bound: fetches of a page beyond which its user rests

ASSUME AccessAssumption ==
    /\ IsFiniteSet(Nodes) /\ IsFiniteSet(Pages)
    /\ "none" \notin Nodes
    /\ Public \in BOOLEAN
    /\ Blocked \subseteq Nodes /\ Preset \subseteq Nodes
    /\ Buffer \in Nat \ {0}
    /\ {MaxCalls, MaxOther, MaxFetches} \subseteq Nat

VARIABLES
    wired,      \* SetCatalog has run: sessions have their handler
    allow,      \* Policy.allow
    pending,    \* Requests.pending
    toHost,     \* the call each Node is waiting on
    handler,    \* what the read loop of each Node's session is doing
    toNode,     \* what each Node was told last
    page,       \* each page: what it shows, its fetches, its user's click
    sub,        \* each page's subscription and its pump
    calls, others,
    letDown     \* auxiliary: pages that were not told of a request
hostVars == <<wired, allow, pending>>
accessVars == <<hostVars, toHost, handler, toNode, page, sub, calls, others, letDown>>

-----------------------------------------------------------------------------
\* The parts of the state

Answers == {"data", "notfound", "error", "denied", "unavailable", "ack", "granted"}

\* asked: fetches the server has not answered yet; landing: answers on their
\* way, each with its number; last: the newest number that has landed.
PageStates ==
    [pc : {"closed", "loading", "loaded", "live", "cut"},
     shown : SUBSET Nodes, fetches : Nat, asked : SUBSET Nat,
     landing : SUBSET (Nat \X SUBSET Nodes), last : Nat,
     click : {"none", "approve", "allow", "grant", "reject"}, node : Nodes \cup {"none"}]

Closed == [pc |-> "closed", shown |-> {}, fetches |-> 0, asked |-> {}, landing |-> {}, last |-> 0,
           click |-> "none", node |-> "none"]

Events == {"request", "other"}

\* on: in hub.subs; C, hold, out: the channel, the pump's event, its output.
SubStates ==
    [on : BOOLEAN, done : BOOLEAN, pump : BOOLEAN, C : Seq(Events), hold : Seq(Events),
     out : Seq(Events)]

NoSub == [on |-> FALSE, done |-> FALSE, pump |-> FALSE, C |-> <<>>, hold |-> <<>>, out |-> <<>>]

\* A page issues GET /api/requests.
Fetch(s) == [s EXCEPT !.fetches = @ + 1, !.asked = @ \cup {s.fetches + 1}]

AccessInit ==
    /\ wired = FALSE
    /\ allow = Preset
    /\ pending = {}
    /\ toHost = [v \in Nodes |-> "none"]
    /\ handler = [v \in Nodes |-> "idle"]
    /\ toNode = [v \in Nodes |-> "none"]
    /\ page = [p \in Pages |-> Closed]
    /\ sub = [p \in Pages |-> NoSub]
    /\ calls = 0
    /\ others = 0
    /\ letDown = {}

\* SetCatalog: n.mu orders it with sessionFor, so no session is left out.
SetCatalog ==
    /\ ~wired
    /\ wired' = TRUE
    /\ UNCHANGED <<allow, pending, toHost, handler, toNode, page, sub, calls, others, letDown>>

-----------------------------------------------------------------------------
\* The policy and the hub

\* Faulty variant of Allowed: the allow-list goes before the block-list.
AllowedFirst(v) == Public \/ v \in allow

\* Policy.Allowed: block always denies.
Allowed(v) == v \notin Blocked /\ (Public \/ v \in allow)

\* Faulty variant of HasRoom: the subscription's queue grows without end.
HasRoomAlways(p) == sub[p].on

\* The send of hub.publish goes through instead of to default.
HasRoom(p) == sub[p].on /\ Len(sub[p].C) < Buffer

\* hub.publish: under h.mu to every subscription that has room.
Publish(e) ==
    /\ sub' = [p \in Pages |-> IF HasRoom(p) THEN [sub[p] EXCEPT !.C = Append(@, e)] ELSE sub[p]]
    /\ letDown' = letDown \cup
         {p \in Pages : e = "request" /\ page[p].pc # "closed" /\ ~HasRoom(p)}

\* An event of presence, audience or a party's end.
OtherEvent ==
    /\ others < MaxOther
    /\ others' = others + 1
    /\ Publish("other")
    /\ UNCHANGED <<hostVars, toHost, handler, toNode, page, calls>>

-----------------------------------------------------------------------------
\* A remote Node, and the handlers its session runs for it

\* Session.call: a query (Browse, GetMetadata, LiveParties) or RequestAccess.
Call(v, what) ==
    /\ calls < MaxCalls
    /\ calls' = calls + 1
    /\ toHost[v] = "none"
    /\ toHost' = [toHost EXCEPT ![v] = what]
    /\ UNCHANGED <<hostVars, handler, toNode, page, sub, others, letDown>>

\* The handler's answer; the call it belongs to is over.
Answer(v, a) ==
    /\ toNode' = [toNode EXCEPT ![v] = a]
    /\ toHost' = [toHost EXCEPT ![v] = "none"]

\* currentHandler is nil: the Node is still starting.
NoHandler(v) ==
    /\ ~wired
    /\ toHost[v] # "none"
    /\ Answer(v, "unavailable")
    /\ UNCHANGED <<hostVars, handler, page, sub, calls, others, letDown>>

\* A query asks the policy first...
Check(v) ==
    /\ wired
    /\ toHost[v] = "query"
    /\ handler[v] = "idle"
    /\ IF Allowed(v) THEN handler' = [handler EXCEPT ![v] = "serve"] /\ UNCHANGED <<toHost, toNode>>
       ELSE Answer(v, "denied") /\ UNCHANGED handler
    /\ UNCHANGED <<hostVars, page, sub, calls, others, letDown>>

\* ... and reads the store after that, which may fail.
Serve(v) ==
    /\ handler[v] = "serve"
    /\ \E a \in {"data", "notfound", "error"} : Answer(v, a)
    /\ handler' = [handler EXCEPT ![v] = "idle"]
    /\ UNCHANGED <<hostVars, page, sub, calls, others, letDown>>

\* Faulty variant of Stored: OnAdd fires before the request is stored.
StoredLate == {"told"}

\* The steps of Requests.Add that find the request stored: it is, from the first.
Stored == {"add", "told"}

\* Requests.Add stores the request under r.mu...
Add(v) ==
    /\ wired
    /\ toHost[v] = "ask"
    /\ handler[v] = "idle"
    /\ handler' = [handler EXCEPT ![v] = "add"]
    /\ pending' = IF "add" \in Stored THEN pending \cup {v} ELSE pending
    /\ UNCHANGED <<wired, allow, toHost, toNode, page, sub, calls, others, letDown>>

\* ... and fires OnAdd outside it...
OnAdd(v) ==
    /\ handler[v] = "add"
    /\ handler' = [handler EXCEPT ![v] = "told"]
    /\ Publish("request")
    /\ UNCHANGED <<hostVars, toHost, toNode, page, calls, others>>

\* ... before the handler sends the Ack.
Ack(v) ==
    /\ handler[v] = "told"
    /\ pending' = IF "add" \in Stored THEN pending ELSE pending \cup {v}
    /\ handler' = [handler EXCEPT ![v] = "idle"]
    /\ Answer(v, "ack")
    /\ UNCHANGED <<wired, allow, page, sub, calls, others, letDown>>

-----------------------------------------------------------------------------
\* A page of the owner

\* The page opens and fetches everything.
Open(p) ==
    /\ page[p].pc = "closed" /\ ~sub[p].pump
    /\ page' = [page EXCEPT ![p] = Fetch([@ EXCEPT !.pc = "loading", !.last = page[p].fetches])]
    /\ page[p].fetches < MaxFetches
    /\ sub' = [sub EXCEPT ![p] = NoSub]
    /\ letDown' = letDown \ {p}
    /\ UNCHANGED <<hostVars, toHost, handler, toNode, calls, others>>

\* PendingRequests: the server's answer to one of the page's fetches.
PendingRequests(p, k) ==
    /\ k \in page[p].asked
    /\ page' = [page EXCEPT ![p].asked = @ \ {k}, ![p].landing = @ \cup {<<k, pending>>}]
    /\ UNCHANGED <<hostVars, toHost, handler, toNode, sub, calls, others, letDown>>

\* The answer lands, in whatever order the connections bring them.
Land(p, a) ==
    /\ a \in page[p].landing
    /\ page' = [page EXCEPT ![p].landing = @ \ {a}, ![p].shown = a[2],
                            ![p].last = IF a[1] > @ THEN a[1] ELSE @,
                            ![p].pc = IF @ = "loading" THEN "loaded" ELSE @]
    /\ letDown' = IF a[1] < page[p].last THEN letDown \cup {p} ELSE letDown
    /\ UNCHANGED <<hostVars, toHost, handler, toNode, sub, calls, others>>

\* hub.Subscribe, for the EventSource the page opens after its first fetch,
\* or that the browser opens again after it was cut.
Subscribe(p) ==
    /\ page[p].pc \in {"loaded", "cut"}
    /\ ~sub[p].pump
    /\ page' = [page EXCEPT ![p].pc = "live"]
    /\ sub' = [sub EXCEPT ![p] = [NoSub EXCEPT !.on = TRUE, !.pump = TRUE]]
    /\ UNCHANGED <<hostVars, toHost, handler, toNode, calls, others, letDown>>

\* The pump takes an event...
PumpTake(p) ==
    /\ sub[p].pump /\ sub[p].hold = <<>> /\ sub[p].C # <<>>
    /\ sub' = [sub EXCEPT ![p].C = Tail(@), ![p].hold = <<Head(sub[p].C)>>]
    /\ UNCHANGED <<hostVars, toHost, handler, toNode, page, calls, others, letDown>>

\* ... and hands it on when there is room.
PumpPut(p) ==
    /\ sub[p].pump /\ sub[p].hold # <<>> /\ Len(sub[p].out) < Buffer
    /\ sub' = [sub EXCEPT ![p].hold = <<>>, ![p].out = @ \o sub[p].hold]
    /\ UNCHANGED <<hostVars, toHost, handler, toNode, page, calls, others, letDown>>

\* Faulty variant of PumpSeesDone: not while it waits for room.
PumpSeesDoneIdle(p) == sub[p].hold = <<>>

\* Where the pump selects on done: in both of its waits.
PumpSeesDone(p) == TRUE

\* The pump ends once the subscription is cancelled.
PumpEnd(p) ==
    /\ sub[p].pump /\ sub[p].done /\ PumpSeesDone(p)
    /\ sub' = [sub EXCEPT ![p].pump = FALSE]
    /\ UNCHANGED <<hostVars, toHost, handler, toNode, page, calls, others, letDown>>

\* handleSSE writes an event, and the page acts on it.
Write(p) ==
    /\ page[p].pc = "live" /\ sub[p].out # <<>>
    /\ sub' = [sub EXCEPT ![p].out = Tail(@)]
    /\ page' = [page EXCEPT ![p] = IF Head(sub[p].out) = "request" THEN Fetch(@) ELSE @]
    /\ UNCHANGED <<hostVars, toHost, handler, toNode, calls, others, letDown>>

\* A request event is in page p's subscription.
Underway(p) ==
    \E s \in {sub[p].C, sub[p].hold, sub[p].out} : \E i \in DOMAIN s : s[i] = "request"

\* handleSSE returns and cancels: close(done), unsubscribe.
Cancel(p) == sub' = [sub EXCEPT ![p].on = FALSE, ![p].done = TRUE]

\* The stream is cut; the browser will open it again.
Cut(p) ==
    /\ page[p].pc = "live"
    /\ page[p].fetches < MaxFetches
    /\ page' = [page EXCEPT ![p].pc = "cut"]
    /\ Cancel(p)
    /\ letDown' = IF Underway(p) THEN letDown \cup {p} ELSE letDown
    /\ UNCHANGED <<hostVars, toHost, handler, toNode, calls, others>>

\* The user leaves the page.
Close(p) ==
    /\ page[p].pc = "live" /\ page[p].click = "none"
    /\ page' = [page EXCEPT ![p] = [Closed EXCEPT !.fetches = page[p].fetches]]
    /\ Cancel(p)
    /\ UNCHANGED <<hostVars, toHost, handler, toNode, calls, others, letDown>>

\* The user answers a request that the page shows.
Click(p, v, what) ==
    /\ page[p].pc \in {"loaded", "live", "cut"} /\ page[p].click = "none"
    /\ page[p].fetches < MaxFetches
    /\ v \in page[p].shown
    /\ page' = [page EXCEPT ![p].click = what, ![p].node = v]
    /\ UNCHANGED <<hostVars, toHost, handler, toNode, sub, calls, others, letDown>>

\* A finished call: RequestList emits resolved and the page fetches again.
Resolved(p) == page' = [page EXCEPT ![p] = Fetch([@ EXCEPT !.click = "none", !.node = "none"])]

\* A call that failed: RequestList shows the error and does not fetch again.
Failed(p) == page' = [page EXCEPT ![p].click = "none", ![p].node = "none"]

\* Service.Reject.
Reject(p) ==
    /\ page[p].click = "reject"
    /\ pending' = pending \ {page[p].node}
    /\ Resolved(p)
    /\ UNCHANGED <<wired, allow, toHost, handler, toNode, sub, calls, others, letDown>>

\* Faulty variant of ApproveSteps: the Node hears of it before the policy does.
ApproveStepsSwapped == [approve |-> "grant", grant |-> "allow", allow |-> "none"]

\* The order of ApproveAccess: Take, AddAllow, SendAccessGranted.
ApproveSteps == [approve |-> "allow", allow |-> "grant", grant |-> "none"]

\* The call goes on to its next step, or is over.
Continue(p) ==
    LET next == ApproveSteps[page[p].click] IN
    IF next = "none" THEN Resolved(p) ELSE page' = [page EXCEPT ![p].click = next]

\* Service.Approve takes the request...
Take(p) ==
    /\ page[p].click = "approve"
    /\ pending' = pending \ {page[p].node}
    /\ Continue(p)
    /\ UNCHANGED <<wired, allow, toHost, handler, toNode, sub, calls, others, letDown>>

\* ... and allows the Node, whether or not there was one.
AddAllow(p) ==
    /\ page[p].click = "allow"
    /\ allow' = allow \cup {page[p].node}
    /\ Continue(p)
    /\ UNCHANGED <<wired, pending, toHost, handler, toNode, sub, calls, others, letDown>>

\* SendAccessGranted: no callback waits for it at the Node. There may be no session,
\* a dying one loses the message, and a closed one refuses it, which fails the call.
Grant(p) ==
    /\ page[p].click = "grant"
    /\ \/ toNode' = [toNode EXCEPT ![page[p].node] = "granted"] /\ Continue(p)
       \/ UNCHANGED toNode /\ (Continue(p) \/ Failed(p))
    /\ UNCHANGED <<hostVars, toHost, handler, sub, calls, others, letDown>>

-----------------------------------------------------------------------------
Serving(v) == NoHandler(v) \/ Check(v) \/ Serve(v) \/ Add(v) \/ OnAdd(v) \/ Ack(v)

Pump(p) == PumpTake(p) \/ PumpPut(p) \/ PumpEnd(p)

Streaming(p) == Subscribe(p) \/ Write(p)

Fetching(p) == (\E k \in page[p].asked : PendingRequests(p, k)) \/ (\E a \in page[p].landing : Land(p, a))

Owning(p) == Reject(p) \/ Take(p) \/ AddAllow(p) \/ Grant(p)

AccessNext ==
    \/ SetCatalog
    \/ OtherEvent
    \/ \E v \in Nodes :
         \/ \E what \in {"query", "ask"} : Call(v, what)
         \/ Serving(v)
    \/ \E p \in Pages :
         \/ Open(p) \/ Cut(p) \/ Close(p)
         \/ \E v \in Nodes, what \in {"approve", "reject"} : Click(p, v, what)
         \/ Pump(p)
         \/ Streaming(p)
         \/ Fetching(p)
         \/ Owning(p)

AccessSpec == AccessInit /\ [][AccessNext]_accessVars

\* Goroutines run and the browser goes on reading and fetching; nobody has to
\* call, click, open a page or close it.
AccessFairness ==
    /\ WF_accessVars(SetCatalog)
    /\ \A v \in Nodes : WF_accessVars(Serving(v))
    /\ \A p \in Pages :
         WF_accessVars(Pump(p)) /\ WF_accessVars(Streaming(p)) /\ WF_accessVars(Fetching(p)) /\ WF_accessVars(Owning(p))

AccessFairSpec == AccessSpec /\ AccessFairness

-----------------------------------------------------------------------------
\* Properties

\* Type invariant: the access lists, the calls and clicks in progress and the pages hold
\* what their Go types give them; a subscriber's channel never holds more than its
\* capacity.
AccessTypeOK ==
    /\ wired \in BOOLEAN
    /\ allow \in SUBSET Nodes
    /\ pending \in SUBSET Nodes
    /\ toHost \in [Nodes -> {"none", "query", "ask"}]
    /\ handler \in [Nodes -> {"idle", "serve", "add", "told"}]
    /\ \A v \in Nodes : handler[v] # "idle" => toHost[v] # "none"
    /\ toNode \in [Nodes -> Answers \cup {"none"}]
    /\ page \in [Pages -> PageStates]
    /\ \A p \in Pages : page[p].click = "none" <=> page[p].node = "none"
    /\ sub \in [Pages -> SubStates]
    /\ \A p \in Pages : Len(sub[p].C) <= Buffer /\ Len(sub[p].out) <= Buffer /\ Len(sub[p].hold) <= 1
    /\ calls \in 0..MaxCalls
    /\ others \in 0..MaxOther
    /\ letDown \in SUBSET Pages

\* ApproveAccess: a Node that hears AccessGranted is on the allow-list by then,
\* so its next Browse is answered - unless it is blocked: the owner may approve
\* a blocked Node's request, which tells it so and opens nothing.
GrantHonest ==
    \A v \in Nodes :
        toNode[v] = "granted" => v \in allow /\ (v \in Blocked \/ Allowed(v))

\* Browse, GetMetadata and LiveParties: what a Node is told of the Library it
\* may see, a failure to read it included, although the policy was asked before
\* the store was read.
OnlyTheAllowedSee ==
    \A v \in Nodes :
        toNode[v] \in {"data", "notfound", "error"} => v \notin Blocked /\ (Public \/ v \in allow)

\* The owner's page comes to show every pending request or has been let down in
\* a way that can be named (letDown): the event was dropped by a full buffer, it
\* fell between the page's first fetch and its subscription or into a cut
\* stream, or an older fetch landed after a newer one.
OwnerSees ==
    \A p \in Pages, v \in Nodes :
        (v \in pending /\ page[p].pc # "closed")
            ~> (v \in page[p].shown \/ v \notin pending \/ p \in letDown \/ page[p].pc = "closed")

\* hub.Subscribe: the pump of a cancelled subscription ends, also when it waits
\* for room in a channel that nobody reads any more.
PumpsEnd == \A p \in Pages : sub[p].done ~> ~sub[p].pump
=============================================================================
