# p2p-hls: a TLA+ model of the Node, the Watch Party and the signaling server

p2p-hls lets Nodes share a video Library with each other: a Host transcodes a
Title to HLS on demand, Viewers stream it over WebRTC data channels, a Watch
Party keeps the Viewers' players in step with the Host's, and the Viewers of a
party exchange Segments in a mesh ("swarm") so that the Host need not upload
everything to everyone. A small signaling server knows who is present and
relays the SDP exchange.

This directory holds TLA+ modules translated from the Go source under `src/`,
TLC configurations that check them on small instances, and proofs that TLAPS
checks for every value of the constants. `PROJECT.json` maps every definition
to the lines it models, lists the runs, their mutants, the hazards of the code
and the theorems.

## 1. Inventory

| Part (package) | State it keeps | Operations | Talks to |
|---|---|---|---|
| Sync engine (`internal/party`) | Host: playing, position, sample time, scrub, seq, members; Viewer: last state, when it came, one-way delay | `OnPlay/OnPause/OnSeek/OnReport/Tick/Snapshot/Join/Leave`; `OnState/OnRTT/Decide` | called by the coordinator, one mutex per engine |
| Party coordinator (`internal/app/party.go`) | host, viewer, viewerHost, swarm, lastAudience, callbacks, heartbeat stop channel | `StartParty/EndParty/JoinParty/LeaveParty/close`, `On*` message handlers, `heartbeat`, WebSocket loops | sessions of all peers, the swarm session, the player |
| Swarm session (`internal/app/swarm_session.go`, `swarm_cache.go`) | engine, segment cache, hashes, last index, upload semaphore | `FetchSegment/store/expectedHash/SwarmSegment/setPeers/OnSwarmHave/gossipLoop` | Host (playlist, segments), other Viewers |
| Swarm engine (`internal/swarm`) | own have-set and epoch; per peer: have-set, epoch, RTT, busy-until, demoted | `SetHave/Retain/HaveMsg/SetPeers/OnPeerHave/ExpireStale/MarkBusy/Demote/SelectSource/GossipTargets` | pure; serialised by the swarm session |
| Peer session (`internal/peer`) | pending calls, bulk sinks, channels, handlers | `call/deliver/fetchBulkTo/sendFrameFlow`, request handlers, signal exchange | WebRTC, handlers of the app layer |
| Node (`internal/app/node.go`) | session table, signaling client, services | `Dial/ensurePeer/sessionFor/routeRelays/...` | everything |
| Signaling (`internal/signalserver`, `internal/signaling`) | registered clients; a client's view of presence | register, snapshot, join/leave broadcast, relay | Nodes |
| Player socket and Danmaku (`internal/app/party.go`, `internal/party/danmaku.go`) | the newest page's queue, a token bucket per sender | `serveWS/serveHostWS/serveViewerWS`, `Allow`, `broadcastDanmaku/pushDanmaku` | browsers, sessions |
| Media engine (`internal/media`) | transcode jobs, segment hashes, cache directory | `File/ensureJob/runJob/Hash` | ffmpeg, the Library |
| Catalog and access (`internal/catalog`) | allow and block lists, pending requests | `Allowed/AddAllow/Add/Take/Approve/Reject` | sessions, the owner's pages |
| Library (`internal/library`) | SQLite rows | scan, watch, upsert | files |
| Events and bridge (`internal/app/events.go`, `internal/bridge`) | subscriptions with bounded channels | publish, subscribe, stream; API calls | browsers, the Node |
| Commands, web UI | start-up order; what a page shows | `main`; fetch, subscribe, refetch | the Node |

What is hard here is concurrency, not data. One Node runs a goroutine per
control channel and per bulk channel of each peer, one per UI request, one for
the heartbeat, one for gossip, one per upload. The code takes a mutex for a few
lines at a time and acts on what it read after the unlock: the coordinator's
engine pointer, the store's window, the sink a frame belongs to, the buffered
amount. Messages of one channel are ordered; those of two channels, and the
states two goroutines send on one, are not. Peers may be slow, silent, gone, or
send bytes that do not match. What would make each part wrong, and the line at
which it would, is the `hazards` list of `PROJECT.json`.

What makes the parts correct:

* sync: Viewers follow the Host's changes, in order, and end up on the last one;
  a Viewer is ahead of the Host by no more than the cap of the delay and what a stall
  of the Host has cost;
* seat: a Viewer's engine hears its own Host only, and every swarm session it
  opens is closed exactly once;
* swarm: nothing unverified is kept or passed on, uploads stay within their cap,
  memory holds what is advertised and fits in the window, and every fetch ends unless
  its peers never stop failing it;
* session: an answer reaches the request it belongs to, a transfer that succeeds
  is whole, nothing leaks, nothing hangs on a live connection;
* presence: the newest connection of a Node is the registered one, and everyone ends
  up with the right picture of who is there, or for a known reason with a wrong one;
* room: once all is quiet the Audience, the Viewers' seats and the lists they hold
  agree, and nobody sits in a party that was ended, up to the races the properties name;
* dialing: a session sends one offer, only an API call can cause glare, only signed
  descriptions are set, and a wanted edge comes up unless a fault hit it;
* library and media: a row never claims a content its file does not have, every
  file Watch can see is indexed, as far as size and second tell its versions apart, and
  what is hashed is a finished Segment;
* access: answers follow the policy, a grant is told after it holds, the owner gets
  to see every request, or misses it for a reason that can be named;
* player socket: the rate limit holds in every window, Danmaku reach the newest page,
  and no browser holds up a session.

## 2. Modules

| Module | Models | Extends or composes |
|---|---|---|
| `PartyStatePromise` | abstract: what the party promises its Viewers | - |
| `PartySync` | Host and Viewer engines, heartbeat, join handler, control channels | refines `PartyStatePromise` |
| `PartySyncProofs` | its theorems | `PartySync`, `TLAPS` |
| `SwarmSession` (`MCSwarmSession`) | one Viewer's swarm session and engine | - |
| `ViewerSeat` (`MCViewerSeat`) | the Viewer side of the coordinator | - |
| `ViewerProofs` | theorems of a Viewer's seat and of its swarm session | `ViewerSeat`, `SwarmSession` |
| `PeerSession` | requests, bulk transfers and flow control of one Session | - |
| `PeerSessionProofs` | its theorems | `PeerSession` |
| `Presence` | signaling server and clients | - |
| `PresenceProofs` | its theorems | `Presence` |
| `HostRoom` (`MCHostRoom`) | several parties of a Host, their Audiences and what each Viewer is told | composes the Host's handlers with the Viewers' coordinators |
| `RoomProofs` | its theorems | `HostRoom` |
| `Dialing` (`MCDialing`) | session tables, Dial, the mesh's nudges, signed relays, handshake | composes two or more Nodes over the relay |
| `DialingProofs` | its theorems | `Dialing` |
| `HostLibrary` | scans, Watch, index; transcodes, playlists, Segment hashes | - |
| `Access` | policy, requests, session handlers, event hub, streams, owner's pages | composes catalog, sessions, hub and page |
| `LibraryProofs` | theorems of the Library, the media engine and access to them | `HostLibrary`, `Access` |
| `PlayerSocket` | watch pages' sockets, Danmaku gate and fan-out | - |
| `PlayerSocketProofs` | its theorems | `PlayerSocket` |

In every module one action is one critical section (or channel operation) of
one goroutine, named after the function it belongs to; a function with several
has one action for each, and a program counter in the goroutine's record says
which is next. What a goroutine does on its own between two of them is folded
into the first. A definition whose name ends in what goes wrong
(`OnStateSkipsNext`, `CtxDoneForgets`) stands before the definition it distorts:
it is a plausible bug that the property named in `PROJECT.json` must catch, and
no specification uses it. Where one module of proofs extends two components, the
definitions of one of them carry its name (`SwarmSpec`, `AccessSpec`, `RoomTypeOK`).

### PartySync

`host` and `engine[v]` are the fields of `party.Host` and `party.Viewer`;
`toHost[v]` and `toViewer[v]` the two directions of a control channel. `OnPlay`,
`OnPause`, `OnSeek`, `OnReport` are the Host player's messages; a report carries any
position, also one behind where the Host engine thinks it is (a player that stalls). The
history field `slip` of `host` is how far the reports have moved the position back: the
largest loss over any run of reports that ends with the latest. The heartbeat is
`HeartbeatTick` (commit a settled seek), `HeartbeatSnapshot`, `HeartbeatMembers`
and one `HeartbeatSend` per member, because `Tick`, `Snapshot` and `Members` each
take the mutex anew. `HandleJoin`, `HandlerSnapshot`, `SendWelcome` are the Host's
handler of a join; `JoinParty`, `DeliverWelcome`, `BeginViewer`, `ApplyInitial` the
Viewer's call, which races the read loop's `DeliverState`. `OnConnectionStateChange`
is the transient disconnect that drops a Viewer from the Audience while its
channel survives. `LeaveParty` is one step here, because this Viewer's next join comes
after it; the leave that a re-join overtakes is `HostRoom`'s.

`PartyStatePromise` says: the Host publishes changes one after the other, may
hold its Viewers, and a Viewer that stays only ever moves to a later change or
sees the current one held. `PromiseKept` is the refinement.

### SwarmSession

One Viewer's session; the other Viewers are the environment. `FetchSegment` runs
through `LookUpHash`, `PlaylistArrives`/`PlaylistFails`, `SelectSource`, the pull's
outcomes, `HostReturns`/`HostFails`, and `store` as `StorePut`, `StoreHave`,
`StoreRetain`: the cache is trimmed after `ss.mu` was released, with the window
computed before. Bytes are reduced to their origin and whether they match the
hash the Host published; RTTs only rank eligible peers, so the choice is free. A
cooldown may be over at any time and the Audience may change at any time, without bound.
`FetchReturns` therefore has two provisos, each of which TLC shows to be needed: the call's
pull does not hang for good, and peers do not get a second chance with it for ever
(`NoSecondChance`).

### ViewerSeat

Which engine, Host and swarm session the coordinator holds. `JoinParty` is five
actions (the RPC, `BeginViewer`, `InstallSwarm`, `CloseOld`, `StartSwarm`, then the
initial state), `LeaveParty`, `OnPartyEnded` and `close` two each: take the session
under `pc.mu`, close it after. The `dropped` history variable names the sessions
the one leaking path loses, so that `LoopsHeld` says exactly how far the code
keeps the promise of its comment ("tears down local viewer + swarm state").

### PeerSession

A request is named by its id. `Call` and `FetchBulkTo` register, `SendRequest`
sends, `TakeReply`/`TakeDone`/`CtxDone` are the branches of the select, `CleanUp` the
deletion. `ReadAnswer`, `PutReply`, `SignalError` are the control goroutine,
`ReadFrame`, `WriteFrame`, `WriteFails`, `SignalFailure` the bulk goroutine: each looks
an entry up under the lock and acts after it. At the remote a transfer reads a
chunk and tests the buffer (`CheckBuffer`), waits (`Woken`, `BackpressureTimeout`),
sends (`SendFrame`), or reports a failure. `Drain` is SCTP's acknowledgement with
the OnBufferedAmountLow callback on crossing the threshold. The buffer is counted
in frames; the one-slot `done` and reply channels are `slot`.

### Presence

A connection is a number: its `HandleWS` goroutine (`handler[k]`) goes through `Add`,
`WriteSnapshot`, `BroadcastJoin`, the read loop (`ReadRelay`, `RouteRelay`), `Remove` and
`BroadcastLeave`, each a separate use of `Server.mu` or of the socket; `Writer` is its
writer goroutine, `queue[k]` its bounded `send` channel. `ReadSnapshot`, `ReadMessage`,
`RouteRelays`, `SendRelay` and `Disconnect` are the Node's `Client`. A Node has no code
that reconnects: another connection of the same Node is a restarted or a second
process. Two history variables say when `Peers` may be wrong: `dropped[k]` holds the
Nodes whose last message to `k` found a full queue, `stale` the Nodes whose last
broadcast contradicted the registry when it was made. The second happens because
the registry is changed and the change broadcast in two steps: old connection
removed, new one registered and announced, and then the old one's leave sent.
Without either exception `ViewsExplained` is violated.

### HostRoom

Parties are numbered. A session's read loop (`<<v, "read">>`) and the callback of its
connection state (`<<v, "state">>`) are two goroutines, each of which takes `pc.host`
once (`OnJoinParty`, `OnLeaveParty`) and goes on with that engine: `Enter` or `Leave`,
`List` (the member list of a broadcast), `Members` (whom to send it to), one
`SendAudience` per member, `Answer`, `Reply`. `EndParty` takes the engine away and tells
the members one by one (`EnderMembers`, `EnderSend`). A Viewer's `JoinParty` takes the
next request id of its session (`issued`) and waits for the answer with that id, as
`Session.call` and `deliver` do, so the answer to a call that gave up finds nobody; it may
`GiveUp`, and sits down (`Seat`) in a step of its own. The request names a Title, which
must be the live party's (`TitleOf`). `LeaveParty` gives up the seat and `SendLeave`, after
the unlock, sends the message, so that a re-join can be on the wire before it. `Receive` is
`OnPartyAudience` and `OnPartyEnded`, which drop what comes before the seat and never
compare the party. The history variables `crossed` (broadcasts of a party that
overlapped) and `odd` (what befell a Viewer: a late welcome, a drop by a disconnect, a
call that gave up, a message that raced the seat, a leave overtaken by a join, an end or
a list of another party) are the exceptions of the properties; each one is needed.

### Dialing

NodeIDs are numbers, an edge a pair. `sess[e]` is the first Node's session with the
second, `looked` a `Dial` between its look at the table and its negotiation. `EnsurePeer`
follows the glare rule and nudges the lower NodeID to dial, `Session` is an API call,
which dials whoever calls. `SessionFor` inserts, `Start`/`SendOffer` negotiate, `RouteDial`,
`RouteOffer`, `SendAnswer`, `RouteAnswer` are the single routing goroutine, busy while it
gathers. A relay carries who really signed it beside the sender the server names
(`Stray`): `Verified` is the signature check. Faults: `Lose`, `Stray`, `GatherTimeout`,
`Break` (one end's connection fails, before it was up or after), `Crash` (a restart with an
empty table and a new process number). An offer of a restarted process on a session that
had met the old one is answered, but DTLS refuses the new certificate (`OtherProcess`). `trouble`
holds the edges a fault hit.

### HostLibrary

A scan is a goroutine of its own (`SkipMissing`, `SkipUnchanged`, `StatFile`, `HashFile`,
`Probe`, `Upsert`), with the file free to change between any two. A file is its content
and its stamp, the size and the whole second of its mtime, and `ChangeFile` sets any stamp,
the present one and earlier ones included: `seen` remembers those of earlier versions, and
a file whose stamp is among them is `Blurred`. `StartWatch`, `TakeEvent`
and `TimerFires` are Watch with its debounce, `ScanTimeout` the end of the start-up
scan's context. A Title's job is made by whichever request comes first; `OpenSegment`,
`CloseSegment` and `EndJob` are ffmpeg, which writes a Segment and then lists it, one for
each process that started one;
`OpenPlaylist`, `ReadPlaylist`, `HashSegment` and `MemoSegment` are a playlist request.
`Restart` kills the process over the index and the cache directory it leaves; its ffmpegs
die with it or go on (`OrphanEnds`), perhaps writing the Segment that the next process's
ffmpeg writes, which may then be whole or torn.
Files are ones ffprobe can read while its context lives, and the store's writes
succeed. Posters are left out: nothing reads them back.

### Access

`Call` to `Ack` are a remote Node's request and its session's read loop: the policy is
asked (`Check`), the store read and the answer, or an error, sent later (`Serve`); a request for access is stored
(`Add`) and then announced (`OnAdd`). `Publish` is the hub's send, which gives up on a
full channel; `PumpTake`/`PumpPut`/`PumpEnd` the pump between the hub's channel and the
one the HTTP handler reads (`Write`). A page fetches (`Open`, `PendingRequests`, `Land`),
subscribes, and fetches again on every event; `Cut` is a stream that breaks and that
`EventSource` opens again. `Click` to `Grant` are the owner's approval as its three
steps; the last may fail to reach the Node, and the page, told so, does not fetch again
(`Failed`). `letDown` names the pages that were let down.

### PlayerSocket

A page's record holds its serving goroutine, writer, reader and channels; a goroutine
that carries a Danmaku goes through `Member`, `Allow`, `ListMembers`, `SendTo`, `Push`
(take `pc.out`) and `Put` (send after the unlock). A bucket counts units: one per
tick, `Cost` per Danmaku, so fractions of a token are kept. `Attach` and `Detach` are the
two ends of `serveWS`; a Viewer's page has its RTT loop as well (`rtt`, `RTTEnds`), which
ends after the serving goroutine closed `rttDone`. `newest` and `passed` are history variables.

## 3. Runs

| Run | Instance | Shows |
|---|---|---|
| `party_sync` | 1 Viewer, 2 changes, 2 joins, 1 transient disconnect, clock 0..1, RTT above the cap, fair | `Agreement`, `NoOutrun`, `MembersCatchUp`, refinement `PromiseKept` |
| `scrub_hold` | violation | the hold of a scrub is dropped by Viewers in sync |
| `swarm` | 1 peer, 2 segments, window of 1, 2 fetches, 2 uploads, cap 1 | `NoPoison`, `UploadSlots`, `EpochIdentifiesHave`, `CacheAdvertised` |
| `swarm_live` | 2 peers, 1 segment, 2 fetches one after the other, any Audience changes and cooldowns, fair | `FetchReturns` |
| `seat` | 2 Hosts, 2 concurrent requests, 3 joins | `ClosedOnce`, `LoopsHeld`, `EngineHearsItsHost` |
| `peer_session` | 2 requests, 1-frame files, high water 1, fair | `WholeTransfers`, `NoEntryLeft`, `BufferBounded`, `RequestsReturn` |
| `presence` | 2 Nodes, 3 connections, 1 relay, queues of 1, fair | `OpenIsRegistered`, `ViewsExplained`, `Converges` |
| `host_room` | 2 Viewers (1 allowed at first), 2 parties on 2 Titles, 5 moves of people and network | `RoomTypeOK`, `NoGhosts`, `AudienceSettles`, `EndTold`, `MembersSeated` |
| `dialing` | 2 Nodes that want each other, 1 API call, 2 faults, fair | `OneOffer`, `GlareOnlyByHand`, `SignedByRemote`, `EdgeComesUp` |
| `host_library` | 1 file, 2 contents, 3 stamps, 2 changes, 2 scans at once, 1 Segment, 1 restart, fair | `RowHonest`, `HashOfWholeSegment`, `IndexCatchesUp` |
| `access` | 2 Nodes (1 blocked), 2 calls, 1 page, buffers of 1, 1 other event, fair | `AccessTypeOK`, `GrantHonest`, `OnlyTheAllowedSee`, `OwnerSees`, `PumpsEnd` |
| `player_socket` | 1 Node, 2 pages, burst 3 at cost 2, queues of 1, 3 ticks, fair | `RateLimited`, `SinkIsNewest`, `FanOutEnds`, `PageFreed` |

The type invariants are proved; TLC checks those of `HostRoom` and `Access` as well. That engines never go back to an older
change (`SeqNeverGoesBack`) is part of `PromiseKept` for TLC and a theorem of its own.

Bounds. All are constants named in the modules. One Viewer is enough for
`PartySync` because Viewers share only the Host engine, which the other users'
steps already change at any time; the theorems hold for any number. Two changes
and two joins give an old state, a new one, and a state of an earlier stay. A
window of one segment and two concurrent fetches make every trim drop something.
Two Hosts and three joins let a replaced join and its replacement overlap with
a third. Two transfers of two frames (payload and last) against a high-water
mark of one make both wait. Three connections of two Nodes are one that watches and
two of the other Node that supersede or follow each other; queues of one drop. In
`host_room` five moves are, for instance, a join, a join, an end, a start and a re-join, or
a join caught between a disconnect and a failure; two Viewers make broadcasts overlap.
Two contents let a file be replaced under the same name, and two changes let it change
again between the stat and the Upsert of a scan that overlaps another; three stamps give
each version its own, or let the last have that of either earlier one. One Segment is enough
for it to be listed by one ffmpeg and under the hands of another, the only way in which
a listed Segment is not whole; the theorem is for any number. In `swarm_live` two peers can
take turns. In
`player_socket` a post counts one and a page two of the four inputs, so that two pages, or
one page and two posts, meet; a burst that is not a multiple of the cost leaves a
fraction in the bucket. Deadlock checking is off: each system may stop (users
stop, the bounds are reached).

Fairness. `party_sync`: runnable goroutines run and tickers fire; users, RTT
samples and disconnects are not fair. `swarm_live`: the session's steps and the
Host's answers are fair, and nothing is assumed of the peers, of the Audience or of when a
cooldown is over: the property itself excepts the calls whose pull hangs for good
or whose peers keep coming back (section 5). `peer_session`: goroutines, timers and the connection are fair;
no context is assumed to end, because `gossipLoop` calls with `context.Background()`;
the property is conditional on the connection staying up, because nothing wakes
requests on a dead one (a TODO in `Session.Close`). `presence`: the goroutines of
server and clients are fair, users and the network are not; the bounds make every
behaviour one in which connections stop coming, which `Converges` is about. `dialing`:
the mesh keeps asking (a ticker), goroutines run; API calls and faults are not fair. The
mesh asks from `gossipLoop`, so this leans on that loop not hanging in the Ping of another,
dead edge (`swarm_session.go:234`, a hazard no property covers).
`host_library`: scans and Watch run; the user, ffmpeg, playlist requests, the end of
`scanCtx` and the debounce timer's moment are free, but a timer that is set fires.
`access`: sessions, pumps, streams, fetches and started clicks go on; nobody has to ask,
to click or to close. `player_socket`: goroutines run, but no browser has to read,
post or leave; a loop whose stop channel is closed takes that branch in the end, because
`select` chooses among the ready ones at random, and its Ping returns on a live connection.

Symmetry is used over peers, fetches, uploads, Hosts and requests in the two
safety runs with an MC module; no property names one of them, and no liveness
is checked under it.

## 4. What is proved

Every invariant that a run checks is a theorem, and so is the refinement. All theorems
hold for every value of the constants that satisfies the modules' assumptions: bounds
and capacities are naturals (those the code makes non-zero are), sets the code holds in
memory are finite, and the names for "nobody" (`NoPeer`, `NoHost`, `"none"`, ...) are nobody's.
The large inductive invariants (those of `RoomProofs`, of the transfers and of the views) were
checked by TLC on small instances before they were proved.

* `PartySyncProofs`. The inductive invariant `SyncInv` ties every copy of a state
  (heartbeat, handler, channels, joiner, engine) to the Host's seq: a copy with the
  Host's current seq agrees with it and none is newer. From it: `TypeCorrect`, `AgreementHolds`, `NoOutrunHolds`,
  `SeqMonotone`, `PromiseImplemented` (initial states map to initial states, every
  step to a step or a stutter). For `NoOutrunHolds` a copy with the
  Host's seq lies ahead of the Host's clock by at most `slip`: a report that moves the
  position back by some amount adds at least that amount to `slip`, so their sum never falls. The Host's player may report
  any positions.
* `ViewerProofs`, seat. `TypeCorrect`, `EngineHearsOnlyItsHost` (an engine in a reader's
  hand belongs to that reader's Host), `SessionsClosedOnce` and `LoopsAccountedFor`
  from `HandInv`: each session is in at most one hand, and one that was closed is in
  none.
* `ViewerProofs`, swarm. `SwarmTypeCorrect`, `SlotsBounded` (the semaphore equals the number
  of uploads past the acquire), `PoisonNeverKept` (bytes are followed through fetch,
  cache and upload), `EpochsIdentify` (strengthened: no epoch in `sent` or in the
  gossip loop's hand is above `haveEpoch`, and the one equal to it is the present
  set), `CacheBounded` from `AdvertInv`: a cached Segment that is not
  advertised is accounted for by a store in progress, which either has yet to advertise it
  or has yet to run a trim that drops it.
* `RoomProofs`. `RoomBase` says what each goroutine can be doing, that nothing is known of
  a party before it was started, and that a Viewer whose connection failed is in the
  live Audience only while its callback is about to take it out; it gives
  `RoomTypeCorrect` and `NoGhostsHold`.
  - `AudiencesSettle` from `ListsFresh` and `ViewsFresh`. The property speaks of quiet
    states only; the invariant says it for all of them: unless broadcasts of the live
    party overlapped, a list being sent is the Audience (or a newer list is still to be
    taken), and for every member a broadcast is owed, or the last list of that party on
    its channel, else in its call, else in its view, is the Audience.
  - `EndsTold` and `MembersAreSeated` from `SeatInv`. `CallsMatched`: the ids of a
    Viewer's answered requests lie below that of the one being handled, and that below
    those on their way, each in order, so at most one answer is the one a call waits
    for. `SeatedAreMembers`: whoever the live party has seated, or will seat by a welcome
    that its call still waits for, is in the Audience. `EndComes`: once a party has ended,
    whoever it has seated is still to be told by `EndParty`, or an end lies on its channel
    behind that welcome. Both except Viewers whose leave was overtaken: it is on its way
    behind a join, and the Host takes it for a leave of the new seat. `MembersHeld`: a member that never gave up sits in the party, or
    its welcome is being made, on its way or in its call, or a leave is.
* `PeerSessionProofs`. `TypeCorrect`; `EntriesRemoved` (`NoEntryLeft`) from `EntryInv`: an
  entry of `pending` is a call in progress whose channel is empty, only bulk requests
  have sinks, and the loops hold ids of requests that were made, so a late answer or
  signal never lands in the channel of a call that is still pending;
  `BufferStaysBounded` (`BufferBounded`) from `FlowInv`: a transfer between its test
  and its send counts as one buffered frame, and no more of them run than `peak` says.
  - `TransfersWhole` (`WholeTransfers`) from `PipeInv`: send buffer and wire are one stream, in
    which the frames of a transfer lie in order whatever is interleaved with them
    (`StreamInv`); the frame in the bulk loop's hands is the next one to write (`InHand`);
    what was written are the first payloads (`WrittenInv`); and while a request has its
    sink, every payload sent is written, in hand or in the stream (`NothingLost`).
    `OnceInv`: a request starts one transfer. `OkInv`: "ok" is only ever signalled by a
    transfer whose last frame was handled, never by an answer on the control channel.
  - `LateFramesSafe`, an action property: once a request was told "ok" no step writes to
    its file, which is the "Late-frame safety" comment of `bindBulk`.
* `PresenceProofs`. `TypeCorrect` (with the capacities of the channels);
  `NewestStaysRegistered` (`OpenIsRegistered`), which needs only that a connection has
  an owner once it was made: `add` closes the connection it supersedes in the same
  critical section, and `remove` deletes nothing but its own entry; and
  `ViewsAreExplained` (`ViewsExplained`) from `ViewInv`: applying to a client's `Peers` the
  messages it has still to read (what is on the socket, or the snapshot about to be
  written, then its queue) gives the registry's answer about every Node that no handler
  still owes a broadcast about, and that is in neither of the two exceptions. `ShapeInv` adds
  that the snapshot comes first and that nothing is queued for a connection before
  `add`.
* `DialingProofs`. `TypeCorrect`, `OneOfferHolds`, `GlareHolds` and `SignaturesHold` from
  `DialInv`: per edge, a session still has its offer to make, is gathering it or has sent
  it, never two of these, and whoever is at any of them was called by hand or is the
  lower NodeID, so that of two ends that offered the higher one's session was made by
  hand; the mesh's Dials under way are the lower NodeID's; no Node is handed a
  relay in its own name, so no session is with itself. Any number of Nodes, API calls
  and faults.
* `PlayerSocketProofs`. `TypeCorrect`, `RateLimitHolds` and `SinkCorrect`. The rate limit is
  not inductive: `GateInv` adds that what passed since any earlier pass, plus what is
  in the bucket, is at most the burst plus the refill since then.
* `LibraryProofs`, Library and media. `TypeCorrect`; `RowsHonest` from `HonestInv`: the
  stamp that a scan carries from its stat on, and that of every row, is one the file had
  earlier (`seen`), or the file has it still and then the content is the file's; `HashesWhole`
  from `MediaInv`: a listed Segment lies behind the writer of its job and is whole, and a
  reader only hashes what it found listed, unless the directory had a playlist, or an
  earlier process's ffmpeg at work, when the job was made.
* `LibraryProofs`, access. `AccessTypeCorrect` (with the capacities of the hub's channels),
  `GrantsHonest` and `LibraryGuarded` from `AccessInv`: a handler that is past the policy's
  check would still pass it, because the allow-list only grows and the block-list has no
  caller that changes it; and the owner's call that is about to tell a Node has allowed
  it before.

Only model-checked: the liveness properties (`MembersCatchUp`, `FetchReturns`,
`RequestsReturn`, `Converges`, `EdgeComesUp`, `IndexCatchesUp`, `OwnerSees`, `PumpsEnd`,
`FanOutEnds`, `PageFreed`), which rest on fairness and on ENABLED and are out of the
prover's reach. They hold on the instances of section 3 and under the fairness stated
there.

## 5. Where code and documentation disagree

The run `scrub_hold` shows the one that changes what Viewers see: a scrubbing Host's
"paused" state carries the seq of the last change, so Viewers in sync drop it
(`host.go:117`, `viewer.go:31`), although the comment says "Hold viewers during a scrub".

Two more that change what people see have no run of their own:

* A Host that stalls. The slice-4 design (`docs/superpowers/specs/2026-06-04-slice-4-watch-party-sync-design.md:130`)
  says "host position stalls -> heartbeats reflect the stall -> viewers naturally wait. No
  viewer can outrun the host". The heartbeats do reflect it, but `OnReport` (`host.go:74`) moves
  the position back without a new seq, and `Viewer.OnState` (`viewer.go:31`) drops a state whose
  seq it has: Viewers go on extrapolating the state from before the stall, until the next play,
  pause or seek. The formula "a Viewer's expected position is never ahead by more than the
  cap of the delay" is violated by `PartySync` in a few steps (play, a Viewer joins, time passes,
  a report of the old position); `NoOutrun` says by how much, `slip`.
* A fetch that the Host does not backstop. ADR 0005 (line 38) says a failure or "timeout demotes
  the peer and the fetch retries the next candidate, then the Host. Liveness is always
  backstopped by the Host". `PullTimeout` is used nowhere (`swarm_session.go:139`), so a peer that
  takes a pull and stays silent keeps the fetch; and two peers whose pulls fail more slowly
  than the two seconds of `BusyCooldown` are eligible again in turn, and the loop of
  `swarm_session.go:130-160` alternates between them and never gets to the Host. Without either
  proviso `FetchReturns` is violated.

What else came up while modelling. Each item is either an exception that a property
names, and fails without, or follows from the lines given.

* `store` trims the cache after the unlock with a window that may be stale: a second
  store in between moves the window, and a Segment that is advertised is gone
  (`swarm_session.go:185`). "Everything in `have` is cached when no store is under way" is
  violated, and peers that ask for the Segment demote this Viewer; what `CacheAdvertised` says, that
  everything cached is advertised, is the direction that holds.
* PartyEnded inside a JoinParty leaves a session that LeaveParty forgets
  (`party.go:136`): the exception `dropped` of `LoopsHeld`.
* One wake-up token serves all transfers of a Session (`session.go:603`): of two that wait,
  one may sleep out its ten seconds beside an empty buffer and fail. `RequestsReturn`
  holds because the timeout is an answer too.
* Nothing replaces a session (`node.go:227`): after a lost signal, a gather timeout, a
  failed connection or a restart of the peer, the edge stays down until this Node
  restarts; the slice-4 design says a Viewer "may reconnect + rejoin". Glare caused by API
  calls is not resolved. A relay whose signature does not match still makes a
  session (`node.go:102`), which the real Node then finds in the way.
* `OnPartyEnded` and `OnPartyAudience` never compare the party (`party.go:272`): `misled` and
  `mixed` of `HostRoom`. What arrives between the welcome and the seat is lost (`raced`).
  A `JoinParty` that times out at the Viewer leaves it in the Audience (`gaveup`); a
  transient disconnect takes a Viewer out that does not know it (`dropped`). `LeaveParty` sends
  its message after the unlock (`party.go:135`, `party.go:140`): one that a re-join overtakes takes
  the Viewer out of the Audience it has just entered, and `EndParty` never tells it (`overtaken`).
* The hub drops an event for a full subscriber (`events.go:53`), a request that comes
  between a page's first fetch and its subscription reaches nobody, a stream that was
  reopened does not refetch, and two fetches may land in the wrong order: `letDown` of
  `Access`. Approving a blocked Node tells it so and opens nothing (`node.go:444`). When the grant cannot
  be sent the approval holds, but the API answers with an error, and the page reports
  "Approve failed" and does not fetch again (`node.go:446`, `RequestList.vue:18`).
* A file that changes after the start-up scan passed it and before Watch is registered,
  or that is probed after `scanCtx` has ended, is not indexed until it changes again
  (`cmd/node/main.go:96`): `missed` of `HostLibrary`. After a restart over a cache with a
  playlist, a Segment can be hashed while ffmpeg rewrites it, against the comment
  "immutable once written" (`hash.go:14`): `leftover`. An ffmpeg that outlives a killed Node
  (`ffmpeg.go:82`, under `context.Background()`) writes into the directory of the next one's.
* The index compares size and whole seconds (`scanner.go:92`, `scanner.go:106`): a file rewritten
  within the second at the same length, or copied over with its times, keeps the row of its
  earlier content, and no scan re-indexes it: `Blurred`. The comment at `scanner.go:89` claims no
  more than "path+size+mtime".
* With two watch pages, closing the newer one leaves the older one without Danmaku
  (`party.go:589`), although `pc.out` is said to be "nil when no watch page open". A Node
  that hosts and views drops its Host's Danmaku, and the Host's own are not
  rate-limited.

## 6. Not modelled, and the plan

Not modelled: cryptography (signatures are who signed), SDP and ICE, ffmpeg's argument
lists and the master playlist, SQLite, the parsing of names and of ffprobe's output,
HTTP routing, generated code, the layout of the web UI, the read-only queries of the
control API. `EvictCache`, `app/download.go`, `Store.Delete` and `Policy.AddBlock` have no
caller in the program. RTT values in peer selection, random tie-breaks and the bitmap
coding of have-sets are abstracted as said above.

Left, in this order:

1. Safety lemmas that the liveness properties rest on and that can be proved: in
   `Access`, that a page which was not let down has the event or a fetch for every pending
   request under way; in `Dialing`, that a wanted edge without a fault always has its
   next step pending.
2. A composition of `HostRoom` with the states of `PartySync`: a state of a replaced party
   that reaches an engine of the new one (`party.go:236`).
3. Two swarm sessions of one Viewer (epochs that start again, `peers.go:48`), and the
   gossip loop over a session that dies (`swarm_session.go:234`).
4. `Viewer.Decide`, the drift controller, as an operator with a reference definition.
