------------------------- MODULE PlayerSocketProofs -------------------------
(***************************************************************************)
(* Proofs about PlayerSocket, for any Nodes, any number of watch pages and *)
(* any burst, cost and capacities: type correctness, the rate limit over   *)
(* every window, and where Danmaku are shown.                              *)
(***************************************************************************)
EXTENDS PlayerSocket, TLAPS

\* What the gate keeps for every Node: its bucket is no fuller than the burst and no
\* newer than the clock, and what it let pass since any earlier Danmaku, together
\* with what it could let pass now, is covered by the burst and the refill.
GateInv ==
    \A n \in Nodes :
        /\ bucket[n].tokens <= Burst /\ bucket[n].last <= now
        /\ ~bucket[n].known => passed[n] = <<>>
        /\ \A i \in DOMAIN passed[n] :
              (Len(passed[n]) - i + 1) * Cost + bucket[n].tokens
                  <= Burst + (bucket[n].last - passed[n][i])

-----------------------------------------------------------------------------
\* Type correctness

LEMMA ThreadRecords ==
    /\ Idle \in ThreadStates
    /\ \A pc \in {"idle", "member", "allow", "members", "send", "forward", "push", "put"} :
          /\ At(pc) \in ThreadStates
          /\ \A S \in SUBSET Nodes : [At(pc) EXCEPT !.todo = S] \in ThreadStates
          /\ \A p \in Pages : [At(pc) EXCEPT !.to = p] \in ThreadStates
    /\ \A r \in ThreadStates : r.to \in Pages \cup {NoPage} /\ r.todo \in SUBSET Nodes
BY DEF ThreadStates, Idle, At

\* A page's record after one of its steps.
PageOK(r) == r \in PageStates /\ r.out <= OutBuffer /\ r.reports <= ReportBuffer

LEMMA PageRecords ==
    ASSUME NEW r, PageOK(r)
    PROVE  /\ PageOK([r EXCEPT !.pc = "leaving", !.reader = FALSE])
           /\ PageOK([r EXCEPT !.pc = "leaving"])
           /\ PageOK([r EXCEPT !.lost = TRUE])
           /\ PageOK([r EXCEPT !.writer = FALSE])
           /\ PageOK([r EXCEPT !.rtt = FALSE])
           /\ \A d \in BOOLEAN : PageOK([r EXCEPT !.pc = "none", !.done = d, !.lost = TRUE])
           /\ \A c \in BOOLEAN, pc \in {"none", "open", "leaving"} :
                 PageOK([r EXCEPT !.reader = FALSE, !.closed = c, !.pc = pc])
           /\ \A k \in Nat : k <= ReportBuffer => PageOK([r EXCEPT !.reports = k])
           /\ \A k \in Nat : k <= OutBuffer => PageOK([r EXCEPT !.out = k])
           /\ \A k \in Nat, w \in BOOLEAN : k <= OutBuffer => PageOK([r EXCEPT !.out = k, !.writer = w])
           /\ r.pc \in {"none", "open", "leaving"} /\ r.lost \in BOOLEAN
           /\ r.out \in Nat /\ r.reports \in Nat
BY DEF PageOK, PageStates

LEMMA NewPage ==
    ASSUME NEW role \in {"host", "viewer"}
    PROVE  /\ PageOK(NoSocket)
           /\ PageOK([NoSocket EXCEPT !.pc = "open", !.role = role, !.reader = TRUE, !.writer = TRUE,
                            !.rtt = role = "viewer"])
<1>1. 0 <= OutBuffer /\ 0 <= ReportBuffer
  BY PlayerSocketAssumption
<1>2. NoSocket \in PageStates /\ NoSocket.out = 0 /\ NoSocket.reports = 0
  BY DEF PageStates, NoSocket
<1> DEFINE r == [NoSocket EXCEPT !.pc = "open", !.role = role, !.reader = TRUE, !.writer = TRUE,
                            !.rtt = role = "viewer"]
<1>3. r \in PageStates /\ r.out = 0 /\ r.reports = 0
  BY <1>2 DEF PageStates
<1> QED
  BY <1>1, <1>2, <1>3 DEF PageOK

\* One page changes, to a record that is well formed.
LEMMA PageUpdate ==
    ASSUME TypeOK, NEW p \in Pages, NEW r, PageOK(r), page' = [page EXCEPT ![p] = r]
    PROVE  /\ page' \in [Pages -> PageStates]
           /\ \A q \in Pages : page'[q].out <= OutBuffer /\ page'[q].reports <= ReportBuffer
BY DEF TypeOK, PageOK

LEMMA QueuedType ==
    ASSUME TypeOK, NEW p \in Pages \cup {NoPage}, page' = Queued(p)
    PROVE  /\ page' \in [Pages -> PageStates]
           /\ \A q \in Pages : page'[q].out <= OutBuffer /\ page'[q].reports <= ReportBuffer
<1>1. CASE p \in Pages
  <2> DEFINE k == IF GivesUp(p) THEN page[p].out ELSE page[p].out + 1
  <2>1. PageOK(page[p])
    BY <1>1 DEF TypeOK, PageOK
  <2>2. k \in Nat /\ k <= OutBuffer
    <3>1. page[p].out \in Nat /\ page[p].out <= OutBuffer
      BY <2>1, PageRecords DEF PageOK
    <3> QED
      BY <3>1, PlayerSocketAssumption DEF GivesUp
  <2>3. page' = [page EXCEPT ![p] = [page[p] EXCEPT !.out = k]]
    BY <1>1 DEF Queued
  <2>4. PageOK([page[p] EXCEPT !.out = k])
    BY <2>1, <2>2, PageRecords
  <2> QED
    BY <1>1, <2>3, <2>4, PageUpdate
<1>2. CASE p \notin Pages
  <2>1. page' = page
    BY <1>2 DEF Queued, TypeOK
  <2> QED
    BY <2>1 DEF TypeOK
<1> QED
  BY <1>1, <1>2

\* The parts of TypeOK that few actions change.
LEMMA InitType ==
    ASSUME Init
    PROVE  TypeOK
<1>1. /\ inbox \in [Nodes -> Seq({"text", "blank"})]
      /\ passed \in [Nodes -> Seq(Nat)]
  BY DEF Init
<1>2. thread \in [Threads -> ThreadStates]
  BY ThreadRecords DEF Init
<1>3. bucket \in [Nodes -> Buckets]
  BY DEF Init, Buckets
<1>4. /\ page \in [Pages -> PageStates]
      /\ \A p \in Pages : page[p].out <= OutBuffer /\ page[p].reports <= ReportBuffer
  BY NewPage DEF Init, PageOK
<1> QED
  BY <1>1, <1>2, <1>3, <1>4 DEF Init, TypeOK

LEMMA BucketRecord ==
    ASSUME NEW t \in Nat, NEW l \in Nat
    PROVE  /\ [known |-> TRUE, last |-> l, tokens |-> t] \in Buckets
           /\ [known |-> TRUE, last |-> l, tokens |-> t].tokens = t
           /\ [known |-> TRUE, last |-> l, tokens |-> t].last = l
           /\ [known |-> TRUE, last |-> l, tokens |-> t].known
BY DEF Buckets

\* The gate: a bucket's new record.
LEMMA AllowType ==
    ASSUME TypeOK, NEW n \in Nodes, Allow(n), \A m \in Nodes : bucket[m].last <= now
    PROVE  /\ bucket' \in [Nodes -> Buckets]
           /\ passed' \in [Nodes -> Seq(Nat)]
           /\ thread' \in [Threads -> ThreadStates]
<1> DEFINE T == Refilled(n)
<1>1. bucket[n] \in Buckets /\ now \in Nat /\ Burst \in Nat /\ Cost \in Nat
  BY PlayerSocketAssumption DEF TypeOK
<1>2. T \in Nat
  <2>1. bucket[n].tokens \in Nat /\ bucket[n].last \in Nat
    BY <1>1 DEF Buckets
  <2>2. bucket[n].tokens + (now - bucket[n].last) \in Nat
    BY <1>1, <2>1
  <2>3. Capped(bucket[n].tokens + (now - bucket[n].last)) \in Nat
    BY <1>1, <2>2 DEF Capped
  <2> QED
    BY <1>1, <2>3 DEF Refilled
<1>3. CASE T >= Cost
  <2>1. T - Cost \in Nat
    BY <1>1, <1>2, <1>3
  <2>2. /\ bucket' = [bucket EXCEPT ![n] = [known |-> TRUE, last |-> now, tokens |-> T - Cost]]
        /\ passed' = [passed EXCEPT ![n] = Append(passed[n], now)]
        /\ thread' = [thread EXCEPT ![n] = At("members")]
    BY <1>3 DEF Allow
  <2>3. Append(passed[n], now) \in Seq(Nat)
    BY <1>1 DEF TypeOK
  <2> HIDE DEF T
  <2> QED
    BY <1>1, <2>1, <2>2, <2>3, BucketRecord, ThreadRecords DEF TypeOK
<1>4. CASE ~(T >= Cost)
  <2>1. /\ bucket' = [bucket EXCEPT ![n] = [known |-> TRUE, last |-> now, tokens |-> T]]
        /\ passed' = passed
        /\ thread' = [thread EXCEPT ![n] = Idle]
    BY <1>4 DEF Allow
  <2> HIDE DEF T
  <2> QED
    BY <1>1, <1>2, <2>1, BucketRecord, ThreadRecords DEF TypeOK
<1> QED
  BY <1>3, <1>4

LEMMA TypeStep ==
    ASSUME TypeOK, \A m \in Nodes : bucket[m].last <= now, [Next]_vars
    PROVE  TypeOK'
<1> USE DEF partyVars
<1>1. CASE UNCHANGED vars
  BY <1>1 DEF vars, TypeOK
<1>2. CASE Tick
  BY <1>2 DEF Tick, TypeOK
<1>3. CASE EndParty \/ LeaveParty
  BY <1>3 DEF EndParty, LeaveParty, TypeOK
<1>4. ASSUME NEW n \in Nodes, Join(n) \/ Leave(n)
      PROVE  TypeOK'
  BY <1>4 DEF Join, Leave, TypeOK
<1>5. ASSUME NEW n \in Nodes, NEW text \in {"text", "blank"}, Post(n, text)
      PROVE  TypeOK'
  <2>1. Append(inbox[n], text) \in Seq({"text", "blank"})
    BY DEF TypeOK
  <2>2. inbox' \in [Nodes -> Seq({"text", "blank"})]
    BY <1>5, <2>1 DEF Post, TypeOK
  <2> QED
    BY <1>5, <2>2 DEF Post, TypeOK
<1>6. ASSUME NEW n \in Nodes, ReadLoop(n)
      PROVE  TypeOK'
  <2>0. n \in Threads
    BY DEF Threads
  <2>1. CASE OnPartyDanmaku(n)
    <3>1. inbox[n] \in Seq({"text", "blank"}) /\ inbox[n] # <<>>
      BY <2>1 DEF OnPartyDanmaku, TypeOK
    <3>2. Tail(inbox[n]) \in Seq({"text", "blank"})
      BY <3>1
    <3>3. inbox' \in [Nodes -> Seq({"text", "blank"})]
      BY <2>1, <3>2 DEF OnPartyDanmaku, TypeOK
    <3> DEFINE c == CapText(Head(inbox[n]))
               r == CASE c = "" -> Idle
                      [] c # "" /\ hosting -> At("member")
                      [] c # "" /\ ~hosting /\ viewerHost = n -> At("push")
                      [] OTHER -> Idle
    <3>4. r \in {Idle, At("member"), At("push")}
      <4> HIDE DEF c
      <4>1. CASE c = ""
        BY <4>1
      <4>2. CASE c # "" /\ hosting
        BY <4>2
      <4>3. CASE c # "" /\ ~hosting /\ viewerHost = n
        BY <4>3
      <4>4. CASE c # "" /\ ~hosting /\ viewerHost # n
        BY <4>4
      <4> QED
        BY <4>1, <4>2, <4>3, <4>4
    <3>5. r \in ThreadStates
      BY <3>4, ThreadRecords
    <3>6. thread' = [thread EXCEPT ![n] = r]
      BY <2>1 DEF OnPartyDanmaku
    <3> HIDE DEF r
    <3>7. thread' \in [Threads -> ThreadStates]
      BY <3>5, <3>6 DEF TypeOK
    <3> QED
      BY <2>1, <3>3, <3>7 DEF OnPartyDanmaku, TypeOK
  <2>2. CASE Member(n)
    <3>1. thread' \in [Threads -> ThreadStates]
      BY <2>2, ThreadRecords DEF Member, TypeOK
    <3> QED
      BY <2>2, <3>1 DEF Member, TypeOK
  <2>3. CASE Allow(n)
    BY <2>3, AllowType DEF Allow, TypeOK
  <2> QED
    BY <1>6, <2>1, <2>2, <2>3 DEF ReadLoop
<1>7. ASSUME NEW t \in Threads, FanOut(t)
      PROVE  TypeOK'
  <2>1. CASE ListMembers(t)
    <3>1. thread' \in [Threads -> ThreadStates]
      BY <2>1, ThreadRecords DEF ListMembers, TypeOK
    <3> QED
      BY <2>1, <3>1 DEF ListMembers, TypeOK
  <2>2. ASSUME NEW m \in Nodes, SendTo(t, m)
        PROVE  TypeOK'
    <3> DEFINE rest == thread[t].todo \ {m}
               r == IF rest = {} THEN At("push") ELSE [At("send") EXCEPT !.todo = rest]
    <3>0. thread' = [thread EXCEPT ![t] = r]
      BY <2>2 DEF SendTo
    <3>1. thread' \in [Threads -> ThreadStates]
      <4>1. rest \in SUBSET Nodes
        BY ThreadRecords DEF TypeOK
      <4>2. r \in ThreadStates
        BY <4>1, ThreadRecords
      <4> HIDE DEF r
      <4> QED
        BY <3>0, <4>2 DEF TypeOK
    <3> QED
      BY <2>2, <3>1 DEF SendTo, TypeOK
  <2>3. CASE Push(t)
    <3>1. thread' \in [Threads -> ThreadStates]
      BY <2>3, ThreadRecords DEF Push, TypeOK
    <3> QED
      BY <2>3, <3>1 DEF Push, TypeOK
  <2>4. CASE Put(t)
    <3>1. thread' \in [Threads -> ThreadStates]
      BY <2>4, ThreadRecords DEF Put, TypeOK
    <3>2. thread[t].to \in Pages \cup {NoPage} /\ page' = Queued(thread[t].to)
      BY <2>4, ThreadRecords DEF Put, TypeOK
    <3> QED
      BY <2>4, <3>1, <3>2, QueuedType DEF Put, TypeOK
  <2>5. CASE Forward(t)
    <3>1. thread' \in [Threads -> ThreadStates]
      BY <2>5, ThreadRecords DEF Forward, TypeOK
    <3> QED
      BY <2>5, <3>1 DEF Forward, TypeOK
  <2> QED
    BY <1>7, <2>1, <2>2, <2>3, <2>4, <2>5 DEF FanOut
<1>8. ASSUME NEW p \in Pages, Browser(p) \/ Serving(p) \/ SendAction(p) \/ Write(p) \/ WriterEnds(p) \/ RTTEnds(p)
      PROVE  TypeOK'
  <2>0. PageOK(page[p]) /\ p \in Threads
    BY DEF TypeOK, PageOK, Threads
  <2>1. ASSUME NEW role \in {"host", "viewer"}, Attach(p, role)
        PROVE  TypeOK'
    <3> DEFINE r == [NoSocket EXCEPT !.pc = "open", !.role = role, !.reader = TRUE, !.writer = TRUE,
                            !.rtt = role = "viewer"]
    <3>1. page' = [page EXCEPT ![p] = r] /\ PageOK(r)
      BY <2>1, NewPage DEF Attach
    <3> HIDE DEF r
    <3>2. /\ page' \in [Pages -> PageStates]
          /\ \A q \in Pages : page'[q].out <= OutBuffer /\ page'[q].reports <= ReportBuffer
      BY <3>1, PageUpdate
    <3>3. inputs' \in Nat /\ sink' = p /\ newest' = p
      BY <2>1 DEF Attach, TypeOK
    <3> QED
      BY <2>1, <3>2, <3>3 DEF Attach, TypeOK
  <2>2. CASE PagePost(p)
    <3> DEFINE r == CASE hosting -> At("members")
                      [] ~hosting /\ viewerHost # NoNode -> At("forward")
                      [] OTHER -> Idle
    <3>1. r \in {Idle, At("members"), At("forward")}
      OBVIOUS
    <3>2. r \in ThreadStates
      BY <3>1, ThreadRecords
    <3>3. thread' = [thread EXCEPT ![p] = r]
      BY <2>2 DEF PagePost
    <3> HIDE DEF r
    <3>4. thread' \in [Threads -> ThreadStates]
      BY <3>2, <3>3 DEF TypeOK
    <3> QED
      BY <2>2, <3>4 DEF PagePost, TypeOK
  <2>3. CASE PlayerEvent(p)
    <3>1. page' = page \/ page' = [page EXCEPT ![p] = [page[p] EXCEPT !.pc = "leaving", !.reader = FALSE]]
      BY <2>3 DEF PlayerEvent
    <3>2. PageOK([page[p] EXCEPT !.pc = "leaving", !.reader = FALSE])
      BY <2>0, PageRecords
    <3> QED
      BY <2>3, <3>1, <3>2, PageUpdate DEF PlayerEvent, TypeOK
  <2>4. CASE Report(p)
    <3> DEFINE k == IF page[p].reports < ReportBuffer THEN page[p].reports + 1 ELSE page[p].reports
    <3>1. k \in Nat /\ k <= ReportBuffer
      <4>1. page[p].reports \in Nat /\ page[p].reports <= ReportBuffer
        BY <2>0, PageRecords DEF PageOK
      <4> QED
        BY <4>1, PlayerSocketAssumption
    <3>2. page' = [page EXCEPT ![p] = [page[p] EXCEPT !.reports = k]]
      BY <2>4 DEF Report
    <3> HIDE DEF k
    <3>3. PageOK([page[p] EXCEPT !.reports = k])
      BY <2>0, <3>1, PageRecords
    <3> QED
      BY <2>4, <3>2, <3>3, PageUpdate DEF Report, TypeOK
  <2>5. CASE Disconnect(p)
    <3>1. page' = [page EXCEPT ![p] = [page[p] EXCEPT !.lost = TRUE]]
      BY <2>5 DEF Disconnect
    <3> QED
      BY <2>0, <2>5, <3>1, PageRecords, PageUpdate DEF Disconnect, TypeOK
  <2>6. CASE ReadFails(p)
    <3> DEFINE c == page[p].role = "viewer"
               q == IF page[p].role = "host" THEN "leaving" ELSE page[p].pc
    <3>1. c \in BOOLEAN
      OBVIOUS
    <3>2. q \in {"none", "open", "leaving"}
      BY <2>0, PageRecords
    <3>3. page' = [page EXCEPT ![p] = [page[p] EXCEPT !.reader = FALSE, !.closed = c, !.pc = q]]
      BY <2>0, <2>6 DEF ReadFails, TypeOK, PageStates
    <3> HIDE DEF c, q
    <3>4. PageOK([page[p] EXCEPT !.reader = FALSE, !.closed = c, !.pc = q])
      BY <2>0, <3>1, <3>2, PageRecords
    <3> QED
      BY <2>6, <3>3, <3>4, PageUpdate DEF ReadFails, TypeOK
  <2>7. CASE TakeReport(p)
    <3>1. page[p].reports - 1 \in Nat /\ page[p].reports - 1 <= ReportBuffer
      <4>1. page[p].reports \in Nat /\ page[p].reports <= ReportBuffer /\ page[p].reports > 0
        BY <2>0, <2>7, PageRecords DEF PageOK, TakeReport
      <4> QED
        BY <4>1, PlayerSocketAssumption
    <3>2. page' = [page EXCEPT ![p] = [page[p] EXCEPT !.reports = page[p].reports - 1]]
      BY <2>7 DEF TakeReport
    <3>3. PageOK([page[p] EXCEPT !.reports = page[p].reports - 1])
      BY <2>0, <3>1, PageRecords
    <3> QED
      BY <2>7, <3>2, <3>3, PageUpdate DEF TakeReport, TypeOK
  <2>8. CASE LeaveLoop(p)
    <3>1. page' = [page EXCEPT ![p] = [page[p] EXCEPT !.pc = "leaving"]]
      BY <2>8 DEF LeaveLoop
    <3> QED
      BY <2>0, <2>8, <3>1, PageRecords, PageUpdate DEF LeaveLoop, TypeOK
  <2>9. CASE Detach(p)
    <3>1. page' = [page EXCEPT ![p] = [page[p] EXCEPT !.pc = "none", !.done = DoneBy(p), !.lost = TRUE]]
      BY <2>9 DEF Detach
    <3>2. DoneBy(p) \in BOOLEAN
      BY DEF DoneBy
    <3>3. PageOK([page[p] EXCEPT !.pc = "none", !.done = DoneBy(p), !.lost = TRUE])
      BY <2>0, <3>2, PageRecords
    <3>4. sink' \in Pages \cup {NoPage}
      BY <2>9 DEF Detach, SinkAfter, TypeOK
    <3> QED
      BY <2>9, <3>1, <3>3, <3>4, PageUpdate DEF Detach, TypeOK
  <2>10. CASE SendAction(p)
    BY <2>10, QueuedType DEF SendAction, TypeOK
  <2>11. CASE Write(p)
    <3> DEFINE w == ~page[p].lost
    <3>1. page[p].out - 1 \in Nat /\ page[p].out - 1 <= OutBuffer
      <4>1. page[p].out \in Nat /\ page[p].out <= OutBuffer /\ page[p].out > 0
        BY <2>0, <2>11, PageRecords DEF PageOK, Write
      <4> QED
        BY <4>1, PlayerSocketAssumption
    <3>2. w \in BOOLEAN
      OBVIOUS
    <3>3. page' = [page EXCEPT ![p] = [page[p] EXCEPT !.out = page[p].out - 1, !.writer = w]]
      BY <2>11 DEF Write
    <3> HIDE DEF w
    <3>4. PageOK([page[p] EXCEPT !.out = page[p].out - 1, !.writer = w])
      BY <2>0, <3>1, <3>2, PageRecords
    <3> QED
      BY <2>11, <3>3, <3>4, PageUpdate DEF Write, TypeOK
  <2>12. CASE WriterEnds(p)
    <3>1. page' = [page EXCEPT ![p] = [page[p] EXCEPT !.writer = FALSE]]
      BY <2>12 DEF WriterEnds
    <3> QED
      BY <2>0, <2>12, <3>1, PageRecords, PageUpdate DEF WriterEnds, TypeOK
  <2>13. CASE RTTEnds(p)
    <3>1. page' = [page EXCEPT ![p] = [page[p] EXCEPT !.rtt = FALSE]]
      BY <2>13 DEF RTTEnds
    <3> QED
      BY <2>0, <2>13, <3>1, PageRecords, PageUpdate DEF RTTEnds, TypeOK
  <2> QED
    BY <1>8, <2>1, <2>2, <2>3, <2>4, <2>5, <2>6, <2>7, <2>8, <2>9, <2>10, <2>11, <2>12, <2>13
       DEF Browser, Serving
<1> QED
  BY <1>1, <1>2, <1>3, <1>4, <1>5, <1>6, <1>7, <1>8 DEF Next

-----------------------------------------------------------------------------
\* The rate limit

LEMMA GateInit ==
    ASSUME Init
    PROVE  GateInv
<1>1. Burst \in Nat
  BY PlayerSocketAssumption
<1> QED
  BY <1>1 DEF Init, GateInv

\* One more token in a window.
LEMMA OneMore ==
    ASSUME NEW k \in Nat
    PROVE  (k + 1) * Cost = k * Cost + Cost /\ k * Cost \in Nat
BY PlayerSocketAssumption

\* The sums of a window, with x for what was let pass in it before.
LEMMA WindowSums ==
    ASSUME NEW x \in Nat, NEW old \in Nat, NEW new \in Nat, NEW last \in Nat, NEW q \in Nat,
           NEW t \in Nat,
           new <= old + (t - last), x + old <= Burst + (last - q)
    PROVE  x + new <= Burst + (t - q)
BY PlayerSocketAssumption

LEMMA WindowEnd ==
    ASSUME NEW x \in Nat, NEW left \in Nat, NEW t \in Nat, NEW q \in Nat,
           x + left <= Burst + (t - q)
    PROVE  x <= Burst + (t - q)
BY PlayerSocketAssumption

\* A bucket that is refilled holds no more than before and the time since, and no
\* more than the burst.
LEMMA RefilledFacts ==
    ASSUME TypeOK, GateInv, NEW n \in Nodes
    PROVE  /\ Refilled(n) \in Nat /\ Refilled(n) <= Burst
           /\ bucket[n].known => Refilled(n) <= bucket[n].tokens + (now - bucket[n].last)
<1>1. /\ bucket[n].tokens \in Nat /\ bucket[n].last \in Nat /\ now \in Nat /\ Burst \in Nat
      /\ bucket[n].last <= now
  BY PlayerSocketAssumption DEF TypeOK, Buckets, GateInv
<1> QED
  BY <1>1 DEF Refilled, Capped

\* The gate's facts about the other Nodes stay.
LEMMA Untouched ==
    ASSUME GateInv, NEW n \in Nodes, now' = now,
           \A m \in Nodes \ {n} : bucket'[m] = bucket[m] /\ passed'[m] = passed[m],
           /\ bucket'[n].tokens <= Burst /\ bucket'[n].last <= now'
           /\ ~bucket'[n].known => passed'[n] = <<>>,
           \A i \in DOMAIN passed'[n] :
              (Len(passed'[n]) - i + 1) * Cost + bucket'[n].tokens
                  <= Burst + (bucket'[n].last - passed'[n][i])
    PROVE  GateInv'
BY DEF GateInv

LEMMA AllowGate ==
    ASSUME TypeOK, GateInv, RateLimited, NEW n \in Nodes, Allow(n)
    PROVE  GateInv' /\ RateLimited'
<1> DEFINE T == Refilled(n)
<1>0. /\ T \in Nat /\ T <= Burst
      /\ bucket[n].known => T <= bucket[n].tokens + (now - bucket[n].last)
  BY RefilledFacts
<1>1. /\ Burst \in Nat /\ Cost \in Nat /\ now \in Nat /\ now' = now
      /\ bucket[n].tokens \in Nat /\ bucket[n].last \in Nat /\ bucket[n].last <= now
      /\ bucket \in [Nodes -> Buckets] /\ passed \in [Nodes -> Seq(Nat)]
  BY PlayerSocketAssumption DEF TypeOK, Buckets, GateInv, Allow
<1>2. \A m \in Nodes \ {n} : bucket'[m] = bucket[m] /\ passed'[m] = passed[m]
  BY <1>1 DEF Allow
<1>3. CASE T >= Cost
  <2> DEFINE L == Len(passed[n])
  <2>0. T - Cost \in Nat
    BY <1>0, <1>1, <1>3
  <2>1. /\ bucket'[n] = [known |-> TRUE, last |-> now, tokens |-> T - Cost]
        /\ passed'[n] = Append(passed[n], now)
    BY <1>1, <1>3 DEF Allow
  <2>2. /\ L \in Nat /\ Len(passed'[n]) = L + 1 /\ DOMAIN passed[n] = 1..L
        /\ DOMAIN passed'[n] = 1..(L + 1) /\ passed'[n][L + 1] = now
        /\ \A i \in 1..L : passed'[n][i] = passed[n][i] /\ passed[n][i] \in Nat
    BY <1>1, <2>1
  <2>3. bucket'[n].tokens = T - Cost /\ bucket'[n].last = now /\ bucket'[n].known
    BY <1>1, <2>0, <2>1, BucketRecord
  <2>4. \A i \in 1..L : (L + 1 - i + 1) * Cost + (T - Cost) <= Burst + (now - passed[n][i])
    <3> TAKE i \in 1..L
    <3>1. bucket[n].known
      BY <2>2 DEF GateInv
    <3>2. (L - i + 1) * Cost + bucket[n].tokens <= Burst + (bucket[n].last - passed[n][i])
      BY <2>2 DEF GateInv
    <3>3. /\ L - i + 1 \in Nat
          /\ (L + 1 - i + 1) * Cost = (L - i + 1) * Cost + Cost /\ (L - i + 1) * Cost \in Nat
      <4>1. L - i + 1 \in Nat /\ L + 1 - i + 1 = (L - i + 1) + 1
        BY <2>2
      <4> QED
        BY <4>1, OneMore
    <3>4. passed[n][i] \in Nat
      BY <2>2
    <3> DEFINE x == (L - i + 1) * Cost
    <3>5. x \in Nat /\ x + bucket[n].tokens <= Burst + (bucket[n].last - passed[n][i])
      BY <3>2, <3>3
    <3>6. (L + 1 - i + 1) * Cost = x + Cost
      BY <3>3
    <3> HIDE DEF T, L, x
    <3>7. x + T <= Burst + (now - passed[n][i])
      BY <1>0, <1>1, <3>1, <3>4, <3>5, WindowSums
    <3>8. x + Cost + (T - Cost) = x + T
      BY <1>0, <1>1, <3>5
    <3> QED
      BY <3>6, <3>7, <3>8
  <2>5. ((L + 1) - (L + 1) + 1) * Cost + (T - Cost) <= Burst + (now - now)
    <3>1. (L + 1) - (L + 1) + 1 = 1
      BY <2>2
    <3>2. 1 * Cost = Cost
      BY <1>1
    <3> QED
      BY <1>0, <1>1, <3>1, <3>2
  <2>6. \A i \in 1..(L + 1) :
           (L + 1 - i + 1) * Cost + (T - Cost) <= Burst + (now - passed'[n][i])
    <3> TAKE i \in 1..(L + 1)
    <3>1. i \in 1..L \/ i = L + 1
      BY <2>2
    <3>2. CASE i \in 1..L
      <4>1. passed'[n][i] = passed[n][i]
        BY <2>2, <3>2
      <4> QED
        BY <2>4, <3>2, <4>1
    <3>3. CASE i = L + 1
      <4> HIDE DEF L, T
      <4> QED
        BY <2>2, <2>5, <3>3
    <3> QED
      BY <3>1, <3>2, <3>3
  <2>7. GateInv'
    <3>1. T - Cost <= Burst /\ T - Cost \in Nat
      BY <1>0, <1>1, <1>3
    <3> HIDE DEF T, L
    <3>2. /\ bucket'[n].tokens <= Burst /\ bucket'[n].last <= now'
          /\ ~bucket'[n].known => passed'[n] = <<>>
      BY <1>1, <2>3, <3>1
    <3>3. \A i \in DOMAIN passed'[n] :
             (Len(passed'[n]) - i + 1) * Cost + bucket'[n].tokens
                 <= Burst + (bucket'[n].last - passed'[n][i])
      BY <2>2, <2>3, <2>6
    <3> QED
      BY <1>1, <1>2, <3>2, <3>3, Untouched
  <2>8. RateLimited'
    <3>1. \A i, j \in 1..(L + 1) :
             i <= j => (j - i + 1) * Cost <= Burst + (passed'[n][j] - passed'[n][i])
      <4> SUFFICES ASSUME NEW i \in 1..(L + 1), NEW j \in 1..(L + 1), i <= j
                   PROVE  (j - i + 1) * Cost <= Burst + (passed'[n][j] - passed'[n][i])
        OBVIOUS
      <4>1. CASE j \in 1..L
        <5>1. i \in 1..L
          BY <2>2, <4>1
        <5> QED
          BY <2>2, <4>1, <5>1 DEF RateLimited
      <4>2. CASE j = L + 1
        <5>1. (L + 1 - i + 1) * Cost + (T - Cost) <= Burst + (now - passed'[n][i])
          BY <2>6
        <5>2. T - Cost \in Nat /\ passed'[n][j] = now
          BY <1>0, <1>1, <1>3, <2>2, <4>2
        <5>3. passed'[n][i] \in Nat
          <6>1. i \in 1..L \/ i = L + 1
            BY <2>2
          <6> QED
            BY <1>1, <2>2, <6>1
        <5>4. (L + 1 - i + 1) * Cost \in Nat
          <6>1. L + 1 - i + 1 \in Nat
            BY <2>2
          <6> QED
            BY <6>1, OneMore
        <5> DEFINE x == (L + 1 - i + 1) * Cost
        <5>6. (j - i + 1) * Cost = x
          BY <4>2
        <5> HIDE DEF T, L, x
        <5>5. x <= Burst + (now - passed'[n][i])
          BY <1>1, <5>1, <5>2, <5>3, <5>4, WindowEnd DEF x
        <5> QED
          BY <5>2, <5>5, <5>6
      <4> QED
        BY <2>2, <4>1, <4>2
    <3> QED
      BY <1>2, <2>2, <3>1 DEF RateLimited
  <2> QED
    BY <2>7, <2>8
<1>4. CASE ~(T >= Cost)
  <2>1. bucket'[n] = [known |-> TRUE, last |-> now, tokens |-> T] /\ passed' = passed
    BY <1>1, <1>4 DEF Allow
  <2>2. RateLimited'
    BY <2>1 DEF RateLimited
  <2>3. bucket'[n].tokens = T /\ bucket'[n].last = now /\ bucket'[n].known
    BY <1>0, <1>1, <2>1, BucketRecord
  <2>4. \A i \in DOMAIN passed[n] :
           (Len(passed[n]) - i + 1) * Cost + T <= Burst + (now - passed[n][i])
    <3> TAKE i \in DOMAIN passed[n]
    <3>1. bucket[n].known
      BY DEF GateInv
    <3>2. (Len(passed[n]) - i + 1) * Cost + bucket[n].tokens <= Burst + (bucket[n].last - passed[n][i])
      BY DEF GateInv
    <3>3. Len(passed[n]) - i + 1 \in Nat /\ passed[n][i] \in Nat
      BY <1>1
    <3>4. (Len(passed[n]) - i + 1) * Cost \in Nat
      BY <3>3, OneMore
    <3> DEFINE x == (Len(passed[n]) - i + 1) * Cost
    <3>5. x \in Nat /\ x + bucket[n].tokens <= Burst + (bucket[n].last - passed[n][i])
      BY <3>2, <3>4
    <3> HIDE DEF T, x
    <3>6. x + T <= Burst + (now - passed[n][i])
      BY <1>0, <1>1, <3>1, <3>3, <3>5, WindowSums
    <3> QED
      BY <3>6 DEF x
  <2> HIDE DEF T
  <2>5. GateInv'
    <3>1. /\ bucket'[n].tokens <= Burst /\ bucket'[n].last <= now'
          /\ ~bucket'[n].known => passed'[n] = <<>>
      BY <1>0, <1>1, <2>3
    <3>2. \A i \in DOMAIN passed'[n] :
             (Len(passed'[n]) - i + 1) * Cost + bucket'[n].tokens
                 <= Burst + (bucket'[n].last - passed'[n][i])
      BY <2>1, <2>3, <2>4
    <3> QED
      BY <1>1, <1>2, <3>1, <3>2, Untouched
  <2> QED
    BY <2>2, <2>5
<1> QED
  BY <1>3, <1>4

LEMMA GateStep ==
    ASSUME TypeOK, GateInv, RateLimited, [Next]_vars
    PROVE  GateInv' /\ RateLimited'
<1>1. ASSUME UNCHANGED <<bucket, passed, now>>
      PROVE  GateInv' /\ RateLimited'
  BY <1>1 DEF GateInv, RateLimited
<1>2. CASE Tick
  <2>1. UNCHANGED <<bucket, passed>> /\ now' = now + 1
    BY <1>2 DEF Tick
  <2>2. \A n \in Nodes : bucket[n].last <= now => bucket[n].last <= now + 1
    BY DEF TypeOK, Buckets
  <2> QED
    BY <2>1, <2>2 DEF GateInv, RateLimited
<1>3. ASSUME NEW n \in Nodes, Allow(n)
      PROVE  GateInv' /\ RateLimited'
  BY <1>3, AllowGate
<1>4. ASSUME NEW n \in Nodes, NEW text \in {"text", "blank"},
             Join(n) \/ Leave(n) \/ Post(n, text) \/ OnPartyDanmaku(n) \/ Member(n)
      PROVE  UNCHANGED <<bucket, passed, now>>
  BY <1>4 DEF Join, Leave, Post, OnPartyDanmaku, Member
<1>5. ASSUME NEW t \in Threads, FanOut(t)
      PROVE  UNCHANGED <<bucket, passed, now>>
  BY <1>5 DEF FanOut, ListMembers, SendTo, Push, Put, Forward
<1>6. ASSUME NEW p \in Pages, Browser(p)
      PROVE  UNCHANGED <<bucket, passed, now>>
  BY <1>6 DEF Browser, Attach, PagePost, PlayerEvent, Report, Disconnect
<1>7. ASSUME NEW p \in Pages, Serving(p) \/ SendAction(p) \/ Write(p) \/ WriterEnds(p) \/ RTTEnds(p)
      PROVE  UNCHANGED <<bucket, passed, now>>
  BY <1>7 DEF Serving, ReadFails, TakeReport, LeaveLoop, Detach, SendAction, Write, WriterEnds, RTTEnds
<1>8. CASE EndParty \/ LeaveParty \/ UNCHANGED vars
  BY <1>1, <1>8 DEF EndParty, LeaveParty, vars
<1> QED
  BY <1>1, <1>2, <1>3, <1>4, <1>5, <1>6, <1>7, <1>8 DEF Next, ReadLoop

\* The queues keep their capacities and every record its shape, whatever browsers,
\* sessions and the party do.
THEOREM TypeCorrect == Spec => []TypeOK
<1> DEFINE I == TypeOK /\ GateInv /\ RateLimited
<1>1. Init => I
  BY InitType, GateInit DEF Init, RateLimited
<1>2. I /\ [Next]_vars => I'
  BY TypeStep, GateStep DEF GateInv
<1> QED
  BY <1>1, <1>2, PTL DEF Spec

\* DanmakuGate keeps its limit over every window of every sender's Danmaku: the cap
\* on the refill is what an idle sender cannot get around.
THEOREM RateLimitHolds == Spec => []RateLimited
<1> DEFINE I == TypeOK /\ GateInv /\ RateLimited
<1>1. Init => I
  BY InitType, GateInit DEF Init, RateLimited
<1>2. I /\ [Next]_vars => I'
  BY TypeStep, GateStep DEF GateInv
<1> QED
  BY <1>1, <1>2, PTL DEF Spec

-----------------------------------------------------------------------------
\* Where Danmaku are shown

LEMMA SinkStep ==
    ASSUME TypeOK, SinkIsNewest, [Next]_vars
    PROVE  SinkIsNewest'
<1>0. NoPage \notin Pages
  BY PlayerSocketAssumption
<1>1. ASSUME UNCHANGED <<sink, newest>>,
             \A p \in Pages : /\ page'[p].pc = "open" => page[p].pc = "open"
                              /\ page[p].pc \in {"open", "leaving"} => page'[p].pc \in {"open", "leaving"}
      PROVE  SinkIsNewest'
  BY <1>1 DEF SinkIsNewest, TypeOK
<1>2. ASSUME UNCHANGED <<sink, newest, page>>
      PROVE  SinkIsNewest'
  BY <1>2 DEF SinkIsNewest
<1>3. ASSUME NEW p \in Pages, Serving(p) \/ SendAction(p) \/ Write(p) \/ WriterEnds(p) \/ RTTEnds(p)
      PROVE  SinkIsNewest'
  <2>1. CASE Detach(p)
    <3>1. /\ sink' = IF sink = p THEN NoPage ELSE sink
          /\ newest' = newest
          /\ page'[p].pc = "none" /\ \A q \in Pages \ {p} : page'[q] = page[q]
      BY <2>1 DEF Detach, SinkAfter, TypeOK, PageStates
    <3> QED
      BY <1>0, <3>1 DEF SinkIsNewest, TypeOK
  <2>2. CASE ReadFails(p)
    <3>1. /\ page[p].pc = "open" /\ page'[p].pc \in {"open", "leaving"}
          /\ \A q \in Pages \ {p} : page'[q] = page[q]
      BY <2>2 DEF ReadFails, Reads, TypeOK, PageStates
    <3> QED
      BY <1>1, <2>2, <3>1 DEF ReadFails
  <2>3. CASE TakeReport(p)
    BY <1>1, <2>3 DEF TakeReport, TypeOK, PageStates
  <2>4. CASE LeaveLoop(p)
    BY <1>1, <2>4 DEF LeaveLoop, TypeOK, PageStates
  <2>5. CASE SendAction(p)
    BY <1>1, <2>5 DEF SendAction, Queued, TypeOK, PageStates
  <2>6. CASE Write(p)
    <3>1. \A q \in Pages : page'[q].pc = page[q].pc
      BY <2>6 DEF Write, TypeOK, PageStates
    <3> QED
      BY <1>1, <2>6, <3>1 DEF Write
  <2>7. CASE WriterEnds(p)
    BY <1>1, <2>7 DEF WriterEnds, TypeOK, PageStates
  <2>8. CASE RTTEnds(p)
    BY <1>1, <2>8 DEF RTTEnds, TypeOK, PageStates
  <2> QED
    BY <1>3, <2>1, <2>2, <2>3, <2>4, <2>5, <2>6, <2>7, <2>8 DEF Serving
<1>4. ASSUME NEW p \in Pages, Browser(p)
      PROVE  SinkIsNewest'
  <2>1. ASSUME NEW role \in {"host", "viewer"}, Attach(p, role)
        PROVE  SinkIsNewest'
    <3>1. sink' = p /\ newest' = p /\ page'[p].pc = "open"
      BY <2>1 DEF Attach, TypeOK, NoSocket
    <3> QED
      BY <3>1 DEF SinkIsNewest
  <2>2. CASE PagePost(p)
    BY <1>2, <2>2 DEF PagePost
  <2>3. CASE PlayerEvent(p)
    BY <1>1, <2>3 DEF PlayerEvent, Reads, TypeOK, PageStates
  <2>4. CASE Report(p)
    BY <1>1, <2>4 DEF Report, TypeOK, PageStates
  <2>5. CASE Disconnect(p)
    BY <1>1, <2>5 DEF Disconnect, TypeOK, PageStates
  <2> QED
    BY <1>4, <2>1, <2>2, <2>3, <2>4, <2>5 DEF Browser
<1>5. ASSUME NEW t \in Threads, FanOut(t)
      PROVE  SinkIsNewest'
  <2>1. CASE Put(t)
    <3>1. \A q \in Pages : page'[q].pc = page[q].pc
      BY <2>1 DEF Put, Queued, TypeOK, PageStates
    <3> QED
      BY <1>1, <2>1, <3>1 DEF Put
  <2> QED
    BY <1>2, <1>5, <2>1 DEF FanOut, ListMembers, SendTo, Push, Forward
<1>6. ASSUME NEW n \in Nodes, NEW text \in {"text", "blank"},
             Join(n) \/ Leave(n) \/ Post(n, text) \/ ReadLoop(n)
      PROVE  SinkIsNewest'
  BY <1>2, <1>6 DEF Join, Leave, Post, ReadLoop, OnPartyDanmaku, Member, Allow
<1>7. CASE Tick \/ EndParty \/ LeaveParty \/ UNCHANGED vars
  BY <1>2, <1>7 DEF Tick, EndParty, LeaveParty, vars
<1> QED
  BY <1>3, <1>4, <1>5, <1>6, <1>7 DEF Next

\* Danmaku go to the watch page that attached last while it is there, and never to
\* the queue of a page whose serveWS has returned.
THEOREM SinkCorrect == Spec => []SinkIsNewest
<1>1. Init => SinkIsNewest
  BY DEF Init, SinkIsNewest
<1>2. TypeOK /\ SinkIsNewest /\ [Next]_vars => SinkIsNewest'
  BY SinkStep
<1> QED
  BY <1>1, <1>2, TypeCorrect, PTL DEF Spec

=============================================================================
