---------------------------- MODULE SwarmSession ----------------------------
(***************************************************************************)
(* One Viewer's swarm session: the pull seam FetchSegment, the cache and   *)
(* the advertised have-set that store keeps, the upload side SwarmSegment, *)
(* the gossip loop (internal/app/swarm_session.go, swarm_cache.go), and    *)
(* the decision engine under it (internal/swarm).                          *)
(*                                                                         *)
(* The other Viewers are the environment: they gossip any have-map, answer *)
(* a pull with any bytes or error, or never. Every critical section under  *)
(* swarmSession.mu or segCache.mu is one action. Bytes are abstracted to   *)
(* where they came from and whether they match the hash the Host publishes *)
(* for their index. Round-trip times only order eligible sources, so the   *)
(* choice among them is left open. The clock is abstracted to the two      *)
(* facts it decides: a busy cooldown is over, a have-map is stale.         *)
(***************************************************************************)
EXTENDS Integers, FiniteSets

CONSTANTS
    Peers,         \* the other Viewers of the party
    NoPeer,        \* no pull in progress
    LastSeg,       \* Segments are 0..LastSeg
    WindowLag,     \* Config.WindowLag
    WindowLead,    \* Config.WindowLead
    UploadCap,     \* Config.UploadCap
    Fetchers,      \* concurrent FetchSegment calls
    Servers,       \* concurrent GetSwarmSegment requests of peers
    MaxFetches,    \* bound: FetchSegment calls in all
    MaxPeerEpoch   \* bound: epochs peers gossip

ASSUME WindowAssumption ==
    /\ LastSeg \in Nat
    /\ WindowLag \in Nat
    /\ WindowLead \in Nat

ASSUME NoPeerAssumption == NoPeer \notin Peers

ASSUME CapAssumption ==
    /\ UploadCap \in Nat
    /\ IsFiniteSet(Servers)

ASSUME SwarmBoundAssumption ==
    /\ MaxFetches \in Nat
    /\ MaxPeerEpoch \in Nat

VARIABLES
    peer,        \* [Peers -> the engine's record of a peer]
    have,        \* Swarm.have: the Segments this Viewer advertises
    haveEpoch,   \* Swarm.haveEpoch
    cache,       \* segCache.data: [Segments -> bytes, or NoBytes]
    hashes,      \* swarmSession.hashes: Segments whose Host hash is known
    published,   \* Segments whose hash the Host's playlist lists so far
    lastIdx,     \* swarmSession.lastIdx
    fetch,       \* [Fetchers -> a FetchSegment call]
    serve,       \* [Servers -> a SwarmSegment call and its upload]
    uploadSem,   \* occupied slots of the upload semaphore
    gossip,      \* the gossip goroutine
    sent,        \* history: the have-maps gossiped so far
    fetches      \* FetchSegment calls so far

swarmVars == <<peer, have, haveEpoch, cache, hashes, published, lastIdx, fetch,
               serve, uploadSem, gossip, sent, fetches>>

Segments == 0..LastSeg

-----------------------------------------------------------------------------
\* Types of the state

Bytes == [origin : {"host", "peer"}, matches : BOOLEAN]
NoBytes == [origin |-> "none", matches |-> FALSE]

PeerRecords ==
    [known : BOOLEAN, have : SUBSET Segments, epoch : Nat,
     demoted : BOOLEAN, busy : BOOLEAN]

\* Not in Swarm.peers.
Absent == [known |-> FALSE, have |-> {}, epoch |-> 0,
           demoted |-> FALSE, busy |-> FALSE]

FetchCalls ==
    [pc : {"idle", "hash", "playlist", "select", "pull", "host", "put", "have", "retain"},
     idx : Segments, want : BOOLEAN, src : Peers \cup {NoPeer},
     data : Bytes \cup {NoBytes}, lo : Int, hi : Int]

FetchAt(pc, i) ==
    [pc |-> pc, idx |-> i, want |-> FALSE, src |-> NoPeer, data |-> NoBytes, lo |-> 0, hi |-> 0]

IdleFetch == FetchAt("idle", 0)

ServeCalls ==
    [pc : {"idle", "get", "send"}, idx : Segments, data : Bytes \cup {NoBytes}]

ServeAt(pc, i, data) == [pc |-> pc, idx |-> i, data |-> data]

IdleServe == ServeAt("idle", 0, NoBytes)

HaveMaps == [have : SUBSET Segments, epoch : Nat]

IdleGossip == [pc |-> "wait", map |-> [have |-> {}, epoch |-> 0], todo |-> {}]

-----------------------------------------------------------------------------
\* The engine (internal/swarm)

Cached == {i \in Segments : cache[i] # NoBytes}

\* SetPeers: reconcile with the Audience. A peer that stays keeps its record, a
\* new one starts empty, a departed one is dropped.
SetPeersOf(members) ==
    [p \in Peers |-> IF p \notin members THEN Absent
                     ELSE IF peer[p].known THEN peer[p]
                     ELSE [Absent EXCEPT !.known = TRUE]]

\* OnPeerHave: an unknown sender gets a record; a have-map no newer than the
\* last one is dropped, a newer one replaces the set.
Merged(r, h, e) ==
    IF e <= r.epoch /\ r.epoch # 0
    THEN [r EXCEPT !.known = TRUE]
    ELSE [known |-> TRUE, have |-> h, epoch |-> e, demoted |-> r.demoted, busy |-> r.busy]

\* Demote: nothing if the peer has left meanwhile.
Demote(p) ==
    peer' = IF peer[p].known
            THEN [peer EXCEPT ![p] = [@ EXCEPT !.demoted = TRUE, !.have = {}]]
            ELSE peer

\* A faulty variant: the failure leaves no trace.
MarkBusyForgotten(p) == peer' = peer

\* MarkBusy: nothing if the peer has left meanwhile.
MarkBusy(p) ==
    peer' = IF peer[p].known
            THEN [peer EXCEPT ![p] = [@ EXCEPT !.busy = TRUE]]
            ELSE peer

\* SelectSource's candidates; it returns the one with the lowest RTT.
Eligible(i) ==
    {p \in Peers : peer[p].known /\ ~peer[p].demoted /\ i \in peer[p].have /\ ~peer[p].busy}

\* Peers: the gossip candidates. GossipTargets takes all of them up to Fanout;
\* larger parties are not modelled.
GossipTargets == {p \in Peers : peer[p].known /\ ~peer[p].demoted}

\* ExpireStale, for the peers unheard-from beyond HaveTTL.
Expired(stale) ==
    [p \in Peers |-> IF p \in stale THEN [peer[p] EXCEPT !.have = {}, !.epoch = 0]
                                    ELSE peer[p]]

\* A faulty variant: a new Segment keeps the old epoch.
SetHaveUnnumbered(r, i) == [r EXCEPT !.have = @ \cup {i}]

\* SetHave: the epoch moves only if the set does.
SetHave(r, i) ==
    IF i \in r.have THEN r ELSE [have |-> r.have \cup {i}, epoch |-> r.epoch + 1]

\* Retain: drop what is outside the window; the epoch moves only if the set does.
Retain(r, lo, hi) ==
    LET kept == {i \in r.have : lo <= i /\ i <= hi}
    IN  IF kept = r.have THEN r ELSE [have |-> kept, epoch |-> r.epoch + 1]

-----------------------------------------------------------------------------
\* FetchSegment

\* Entry: the window follows the request; a cached Segment is returned at once.
FetchSegment(f, i) ==
    /\ fetch[f].pc = "idle"
    /\ fetches < MaxFetches
    /\ fetches' = fetches + 1
    /\ lastIdx' = i
    /\ fetch' = IF i \in Cached THEN fetch
                ELSE [fetch EXCEPT ![f] = FetchAt("hash", i)]
    /\ UNCHANGED <<peer, have, haveEpoch, cache, hashes, published, serve, uploadSem,
                   gossip, sent>>

\* expectedHash: known already, or ask the Host for its playlist.
LookUpHash(f) ==
    /\ fetch[f].pc = "hash"
    /\ fetch' = [fetch EXCEPT ![f] =
                    IF fetch[f].idx \in hashes
                    THEN [@ EXCEPT !.pc = "select", !.want = TRUE]
                    ELSE [@ EXCEPT !.pc = "playlist"]]
    /\ UNCHANGED <<peer, have, haveEpoch, cache, hashes, published, lastIdx, serve,
                   uploadSem, gossip, sent, fetches>>

\* The playlist arrives: merge its hashes. Without a hash, skip the peers.
PlaylistArrives(f) ==
    /\ fetch[f].pc = "playlist"
    /\ hashes' = hashes \cup published
    /\ fetch' = [fetch EXCEPT ![f] =
                    IF fetch[f].idx \in hashes'
                    THEN [@ EXCEPT !.pc = "select", !.want = TRUE]
                    ELSE [@ EXCEPT !.pc = "host"]]
    /\ UNCHANGED <<peer, have, haveEpoch, cache, published, lastIdx, serve, uploadSem,
                   gossip, sent, fetches>>

PlaylistFails(f) ==
    /\ fetch[f].pc = "playlist"
    /\ fetch' = [fetch EXCEPT ![f] = [@ EXCEPT !.pc = "host"]]
    /\ UNCHANGED <<peer, have, haveEpoch, cache, hashes, published, lastIdx, serve,
                   uploadSem, gossip, sent, fetches>>

\* The loop's SelectSource: a peer to pull from, else the Host.
SelectSource(f) ==
    /\ fetch[f].pc = "select"
    /\ \/ \E p \in Eligible(fetch[f].idx) :
             fetch' = [fetch EXCEPT ![f] = [@ EXCEPT !.pc = "pull", !.src = p]]
       \/ /\ Eligible(fetch[f].idx) = {}
          /\ fetch' = [fetch EXCEPT ![f] = [@ EXCEPT !.pc = "host"]]
    /\ UNCHANGED <<peer, have, haveEpoch, cache, hashes, published, lastIdx, serve,
                   uploadSem, gossip, sent, fetches>>

\* The pull fails: ErrNotFound demotes the peer as a liar, any other error
\* (busy, unavailable, session gone) puts it in cooldown; try the next.
PullNotFound(f) ==
    /\ fetch[f].pc = "pull"
    /\ Demote(fetch[f].src)
    /\ fetch' = [fetch EXCEPT ![f] = [@ EXCEPT !.pc = "select", !.src = NoPeer]]
    /\ UNCHANGED <<have, haveEpoch, cache, hashes, published, lastIdx, serve, uploadSem,
                   gossip, sent, fetches>>

PullFails(f) ==
    /\ fetch[f].pc = "pull"
    /\ MarkBusy(fetch[f].src)
    /\ fetch' = [fetch EXCEPT ![f] = [@ EXCEPT !.pc = "select", !.src = NoPeer]]
    /\ UNCHANGED <<have, haveEpoch, cache, hashes, published, lastIdx, serve, uploadSem,
                   gossip, sent, fetches>>

\* A faulty variant: any bytes pass.
VerifiedBlindly(data) == data # NoBytes

\* VerifySegment against the Host's hash.
Verified(data) == data.matches

\* The pull returns bytes: verified bytes go to store, others demote the peer.
PullReturns(f, data) ==
    /\ fetch[f].pc = "pull"
    /\ \/ /\ Verified(data)
          /\ fetch' = [fetch EXCEPT ![f] = [@ EXCEPT !.pc = "put", !.data = data,
                                                     !.src = NoPeer]]
          /\ UNCHANGED peer
       \/ /\ ~Verified(data)
          /\ Demote(fetch[f].src)
          /\ fetch' = [fetch EXCEPT ![f] = [@ EXCEPT !.pc = "select", !.src = NoPeer]]
    /\ UNCHANGED <<have, haveEpoch, cache, hashes, published, lastIdx, serve, uploadSem,
                   gossip, sent, fetches>>

\* The Host answers. With a hash its bytes must match too (ErrUnavailable
\* otherwise); without one they are taken raw.
HostReturns(f, data) ==
    /\ fetch[f].pc = "host"
    /\ fetch' = [fetch EXCEPT ![f] =
                    IF fetch[f].want /\ ~Verified(data)
                    THEN IdleFetch
                    ELSE [@ EXCEPT !.pc = "put", !.data = data]]
    /\ UNCHANGED <<peer, have, haveEpoch, cache, hashes, published, lastIdx, serve,
                   uploadSem, gossip, sent, fetches>>

HostFails(f) ==
    /\ fetch[f].pc = "host"
    /\ fetch' = [fetch EXCEPT ![f] = IdleFetch]
    /\ UNCHANGED <<peer, have, haveEpoch, cache, hashes, published, lastIdx, serve,
                   uploadSem, gossip, sent, fetches>>

\* store, first critical section: the bytes enter the cache.
StorePut(f) ==
    /\ fetch[f].pc = "put"
    /\ cache' = [cache EXCEPT ![fetch[f].idx] = fetch[f].data]
    /\ fetch' = [fetch EXCEPT ![f] = [@ EXCEPT !.pc = "have", !.data = NoBytes]]
    /\ UNCHANGED <<peer, have, haveEpoch, hashes, published, lastIdx, serve, uploadSem,
                   gossip, sent, fetches>>

\* The window around the last requested Segment.
WindowLo(i) == IF i - WindowLag < 0 THEN 0 ELSE i - WindowLag
WindowHi(i) == i + WindowLead

\* store, second critical section: advertise the Segment, forget what left the
\* window, and remember the window for the cache.
StoreHave(f) ==
    /\ fetch[f].pc = "have"
    /\ LET lo == WindowLo(lastIdx)
           hi == WindowHi(lastIdx)
           r  == Retain(SetHave([have |-> have, epoch |-> haveEpoch], fetch[f].idx), lo, hi)
       IN  /\ have' = r.have
           /\ haveEpoch' = r.epoch
           /\ fetch' = [fetch EXCEPT ![f] = [@ EXCEPT !.pc = "retain", !.lo = lo, !.hi = hi]]
    /\ UNCHANGED <<peer, cache, hashes, published, lastIdx, serve, uploadSem, gossip, sent,
                   fetches>>

\* A faulty variant: only what is behind the window goes.
RetainBytesAhead(c, lo, hi) ==
    [i \in Segments |-> IF i < lo THEN NoBytes ELSE c[i]]

\* segCache.retain.
RetainBytes(c, lo, hi) ==
    [i \in Segments |-> IF i < lo \/ i > hi THEN NoBytes ELSE c[i]]

\* store, third critical section, after the unlock: the cache drops what was
\* outside the window remembered. FetchSegment returns its bytes.
StoreRetain(f) ==
    /\ fetch[f].pc = "retain"
    /\ cache' = RetainBytes(cache, fetch[f].lo, fetch[f].hi)
    /\ fetch' = [fetch EXCEPT ![f] = IdleFetch]
    /\ UNCHANGED <<peer, have, haveEpoch, hashes, published, lastIdx, serve, uploadSem,
                   gossip, sent, fetches>>

-----------------------------------------------------------------------------
\* The upload side: one goroutine per GetSwarmSegment request

\* SwarmSegment: take a slot, or answer ErrBusy.
SwarmSegment(s, i) ==
    /\ serve[s].pc = "idle"
    /\ IF uploadSem < UploadCap
       THEN /\ uploadSem' = uploadSem + 1
            /\ serve' = [serve EXCEPT ![s] = ServeAt("get", i, NoBytes)]
       ELSE UNCHANGED <<uploadSem, serve>>
    /\ UNCHANGED <<peer, have, haveEpoch, cache, hashes, published, lastIdx, fetch, gossip,
                   sent, fetches>>

\* A faulty variant: a miss keeps the slot.
ServeFromCacheLeaks(s) ==
    /\ serve[s].pc = "get"
    /\ serve' = [serve EXCEPT ![s] =
                    IF serve[s].idx \in Cached
                    THEN ServeAt("send", 0, cache[serve[s].idx])
                    ELSE IdleServe]
    /\ UNCHANGED <<peer, have, haveEpoch, cache, hashes, published, lastIdx, fetch, uploadSem,
                   gossip, sent, fetches>>

\* The cache decides: bytes to send, or ErrNotFound and the slot back.
ServeFromCache(s) ==
    /\ serve[s].pc = "get"
    /\ IF serve[s].idx \in Cached
       THEN /\ serve' = [serve EXCEPT ![s] = ServeAt("send", 0, cache[serve[s].idx])]
            /\ UNCHANGED uploadSem
       ELSE /\ serve' = [serve EXCEPT ![s] = IdleServe]
            /\ uploadSem' = uploadSem - 1
    /\ UNCHANGED <<peer, have, haveEpoch, cache, hashes, published, lastIdx, fetch, gossip,
                   sent, fetches>>

\* The upload ends, well or not: handleGetSwarmSegment's deferred release.
Release(s) ==
    /\ serve[s].pc = "send"
    /\ serve' = [serve EXCEPT ![s] = IdleServe]
    /\ uploadSem' = uploadSem - 1
    /\ UNCHANGED <<peer, have, haveEpoch, cache, hashes, published, lastIdx, fetch, gossip,
                   sent, fetches>>

-----------------------------------------------------------------------------
\* Gossip

\* The ticker fires: one critical section expires stale have-maps, encodes this
\* Viewer's and picks the targets.
GossipRound(stale) ==
    /\ gossip.pc = "wait"
    /\ peer' = Expired(stale)
    /\ gossip' = IF GossipTargets = {} THEN IdleGossip
                 ELSE [pc |-> "send", map |-> [have |-> have, epoch |-> haveEpoch],
                       todo |-> GossipTargets]
    /\ UNCHANGED <<have, haveEpoch, cache, hashes, published, lastIdx, fetch, serve,
                   uploadSem, sent, fetches>>

\* sendTo one target and measure the round trip, which may take arbitrarily long.
GossipSend(p) ==
    /\ gossip.pc = "send"
    /\ p \in gossip.todo
    /\ sent' = sent \cup {gossip.map}
    /\ gossip' = IF gossip.todo = {p} THEN IdleGossip
                 ELSE [gossip EXCEPT !.todo = @ \ {p}]
    /\ UNCHANGED <<peer, have, haveEpoch, cache, hashes, published, lastIdx, fetch, serve,
                   uploadSem, fetches>>

\* A peer's have-map arrives.
OnSwarmHave(p, h, e) ==
    /\ peer' = [peer EXCEPT ![p] = Merged(@, h, e)]
    /\ peer' # peer
    /\ UNCHANGED <<have, haveEpoch, cache, hashes, published, lastIdx, fetch, serve,
                   uploadSem, gossip, sent, fetches>>

\* The Audience changes.
SetPeers(members) ==
    /\ peer' = SetPeersOf(members)
    /\ UNCHANGED <<have, haveEpoch, cache, hashes, published, lastIdx, fetch, serve,
                   uploadSem, gossip, sent, fetches>>

-----------------------------------------------------------------------------
\* The environment

\* A busy cooldown runs out.
CooldownOver(p) ==
    /\ peer[p].busy
    /\ peer' = [peer EXCEPT ![p] = [@ EXCEPT !.busy = FALSE]]
    /\ UNCHANGED <<have, haveEpoch, cache, hashes, published, lastIdx, fetch, serve,
                   uploadSem, gossip, sent, fetches>>

\* The Host's transcode produces the next Segment and its hash.
HostPublishes ==
    /\ Cardinality(published) \in Segments
    /\ published' = published \cup {Cardinality(published)}
    /\ UNCHANGED <<peer, have, haveEpoch, cache, hashes, lastIdx, fetch, serve, uploadSem,
                   gossip, sent, fetches>>

-----------------------------------------------------------------------------
SwarmInit ==
    /\ peer = [p \in Peers |-> Absent]
    /\ have = {}
    /\ haveEpoch = 0
    /\ cache = [i \in Segments |-> NoBytes]
    /\ hashes = {}
    /\ published = {}
    /\ lastIdx = 0
    /\ fetch = [f \in Fetchers |-> IdleFetch]
    /\ serve = [s \in Servers |-> IdleServe]
    /\ uploadSem = 0
    /\ gossip = IdleGossip
    /\ sent = {}
    /\ fetches = 0

\* The session's own steps of a FetchSegment call.
FetchStep(f) ==
    \/ LookUpHash(f)
    \/ SelectSource(f)
    \/ StorePut(f)
    \/ StoreHave(f)
    \/ StoreRetain(f)

\* The Host's answers to it, and the peers'.
HostAnswers(f) ==
    \/ PlaylistArrives(f)
    \/ PlaylistFails(f)
    \/ \E m \in BOOLEAN : HostReturns(f, [origin |-> "host", matches |-> m])
    \/ HostFails(f)

PeerAnswers(f) ==
    \/ PullNotFound(f)
    \/ PullFails(f)
    \/ \E m \in BOOLEAN : PullReturns(f, [origin |-> "peer", matches |-> m])

Serving(s) ==
    \/ \E i \in Segments : SwarmSegment(s, i)
    \/ ServeFromCache(s)
    \/ Release(s)

Gossiping ==
    \/ \E stale \in SUBSET Peers : GossipRound(stale)
    \/ \E p \in Peers : GossipSend(p)
    \/ \E p \in Peers, h \in SUBSET Segments, e \in 1..MaxPeerEpoch : OnSwarmHave(p, h, e)
    \/ \E members \in SUBSET Peers : SetPeers(members)

SwarmNext ==
    \/ \E f \in Fetchers :
          \/ \E i \in Segments : FetchSegment(f, i)
          \/ FetchStep(f) \/ HostAnswers(f) \/ PeerAnswers(f)
    \/ \E s \in Servers : Serving(s)
    \/ Gossiping
    \/ \E p \in Peers : CooldownOver(p)
    \/ HostPublishes

SwarmSpec == SwarmInit /\ [][SwarmNext]_swarmVars

\* Runnable goroutines run, and the Host answers every request, with bytes or an
\* error: without a Host there is no party.
HostFairness ==
    \A f \in Fetchers : WF_swarmVars(FetchStep(f)) /\ WF_swarmVars(HostAnswers(f))

\* Of the peers nothing is assumed: the code gives a pull no time limit of its
\* own (PullTimeout is not used).
FairSpec == SwarmSpec /\ HostFairness

-----------------------------------------------------------------------------
\* Type invariant: the engine's records, the cache, the calls in progress and
\* the counters stay in the sets their Go types and the protocol give them.
SwarmTypeOK ==
    /\ peer \in [Peers -> PeerRecords]
    /\ have \subseteq Segments
    /\ haveEpoch \in Nat
    /\ cache \in [Segments -> Bytes \cup {NoBytes}]
    /\ hashes \subseteq Segments
    /\ published \subseteq Segments
    /\ lastIdx \in Segments
    /\ fetch \in [Fetchers -> FetchCalls]
    /\ serve \in [Servers -> ServeCalls]
    /\ uploadSem \in Nat
    /\ gossip \in [pc : {"wait", "send"}, map : HaveMaps, todo : SUBSET Peers]
    /\ sent \subseteq HaveMaps
    /\ fetches \in Nat

\* Bytes that are cached, on their way to the cache and the player, or being
\* uploaded to another Viewer are the Host's own or match the hash the Host
\* published: no peer can get unverified bytes past FetchSegment, whatever it
\* advertises and answers and however two fetches and their stores interleave.
NoPoison ==
    /\ \A i \in Segments : cache[i].origin = "peer" => cache[i].matches
    /\ \A f \in Fetchers : fetch[f].data.origin = "peer" => fetch[f].data.matches
    /\ \A s \in Servers : serve[s].data.origin = "peer" => serve[s].data.matches

\* The upload semaphore counts exactly the uploads in progress and never exceeds
\* UploadCap: SwarmSegment and the deferred release lose no slot on any path,
\* the miss after the slot was taken included.
UploadSlots ==
    /\ uploadSem <= UploadCap
    /\ uploadSem = Cardinality({s \in Servers : serve[s].pc # "idle"})

\* An epoch stands for one have-set. Receivers drop a have-map whose epoch they
\* have seen, so two gossiped maps with one epoch and different sets would leave
\* them with the wrong one for good; SetHave and Retain renumber every change.
EpochIdentifiesHave ==
    \A a \in sent, b \in sent : a.epoch = b.epoch => a.have = b.have

\* When no store is in progress every cached Segment is advertised, and what is
\* advertised fits in one window, although each store trims the cache with the
\* window it computed before it unlocked: no bytes are kept that no peer will ask
\* for, and the memory of a long party is bounded by the window. (Not the other
\* way round: a late trim may drop a Segment that a newer window advertises.)
CacheAdvertised ==
    (\A f \in Fetchers : fetch[f].pc \notin {"have", "retain"})
        => /\ Cached \subseteq have
           /\ \A i \in have, j \in have : j - i <= WindowLag + WindowLead

\* Once a FetchSegment call f has failed over often enough no peer is offered
\* to it a second time: the peers it may still choose only become fewer.
NoSecondChance(f) ==
    <>[][Eligible(fetch[f].idx)' \subseteq Eligible(fetch[f].idx)]_swarmVars

\* Liveness: a FetchSegment call returns, from the Host if from no one else,
\* provided that none of its pulls hangs for good and that peers do not come out
\* of their cooldown, or announce the Segment anew, for ever while it goes
\* through them: MarkBusy and Demote take every source that failed out of
\* SelectSource's choice, so the loop ends. Both provisos are needed. A pull has
\* no time limit, and two peers that each take longer than BusyCooldown to fail
\* keep one call going between them for ever.
FetchReturns ==
    \A f \in Fetchers :
        ([]<>(fetch[f].pc # "pull") /\ NoSecondChance(f))
            => (fetch[f].pc # "idle" ~> fetch[f].pc = "idle")
=============================================================================
