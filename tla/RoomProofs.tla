----------------------------- MODULE RoomProofs -----------------------------
(***************************************************************************)
(* Proofs about HostRoom, for every set of Viewers and every number of     *)
(* parties and moves: type correctness, no ghosts, and what the Viewers    *)
(* and the Host agree on when all is quiet: the Audience, the end of a     *)
(* party, and who is seated.                                               *)
(*                                                                         *)
(* RoomBase carries the types and what every proof needs. ListInv adds     *)
(* which list is on its way to whom; SeatInv adds how requests and their   *)
(* answers are numbered, and where each member and each seat comes from.   *)
(***************************************************************************)
EXTENDS HostRoom, SequenceTheorems, TLAPS

-----------------------------------------------------------------------------
\* HostRoom: the parts of the inductive invariant

Broadcasting == {"members", "send", "reply"}

\* What a goroutine answers fits where it is: only a read loop handles a join,
\* and it is a join that enters and is answered.
JobsFit ==
    \A t \in Threads :
        /\ thread[t].pc \in {"enter", "answer", "reply"} => thread[t].job = "join"
        /\ thread[t].pc = "leave" => thread[t].job = "leave"
        /\ thread[t].pc # "idle" /\ thread[t].job = "join" => t[2] = "read"

\* Nothing is known of a party before StartParty made it, and a party that ended
\* is not live again.
OnlyStarted ==
    /\ \A k \in Parties : k > started => audience[k] = {}
    /\ \A t \in Threads : thread[t].pc # "idle" => thread[t].of \in 1..started
    /\ ended \subseteq 1..started
    /\ host \notin ended
    /\ ender.pc # "idle" => ender.of \in ended
    /\ \A v \in Viewers :
         /\ seat[v] \in 0..started
         /\ call[v].of \in 0..started
         /\ \A i \in DOMAIN toViewer[v] :
              /\ toViewer[v][i].of \in 0..started
              /\ toViewer[v][i].kind = "ended" => toViewer[v][i].of \in ended

\* A failed connection has no handler but the leave its state change started, and
\* that one takes the Viewer out of the live party.
Dropped ==
    \A v \in Viewers :
        /\ conn[v] # "up" => "dropped" \in odd[v]
        /\ thread[<<v, "state">>].pc # "idle" => "dropped" \in odd[v]
        /\ conn[v] = "failed" =>
             /\ thread[<<v, "read">>].pc = "idle"
             /\ host # 0 /\ v \in audience[host] =>
                  thread[<<v, "state">>].pc = "leave" /\ thread[<<v, "state">>].of = host

RoomBase == RoomTypeOK /\ JobsFit /\ OnlyStarted /\ Dropped

\* Party k's Audience changed and the list of it is not taken yet.
Unlisted(k) == \E t \in Threads : thread[t].pc = "list" /\ thread[t].of = k

\* A broadcast of party k still has to reach v.
Owed(v, k) ==
    \E t \in Threads : /\ thread[t].of = k
                       /\ thread[t].pc = "members" \/ (thread[t].pc = "send" /\ v \in thread[t].todo)

\* Unless two broadcasts overlapped, what is being sent is the Audience.
ListsFresh ==
    \A t \in Threads :
        (thread[t].pc \in Broadcasting /\ thread[t].of \notin crossed /\ ~Unlisted(thread[t].of))
            => thread[t].list = audience[thread[t].of]

IsAudience(m, k) == m.kind = "audience" /\ m.of = k

\* The last list of party k on channel q is a.
FreshList(q, k, a) ==
    \A i \in DOMAIN q :
        (/\ q[i].kind \in {"audience", "welcome"}
         /\ q[i].of = k
         /\ \A j \in DOMAIN q : j > i => ~IsAudience(q[j], k))
           => q[i].list = a

NoneOf(q, k) == \A i \in DOMAIN q : ~IsAudience(q[i], k)

\* The last list of party k on its way to v is the Audience; with none on its way,
\* it is what v is about to seat itself with, or has.
FreshFor(v, k) ==
    /\ FreshList(toViewer[v], k, audience[k])
    /\ NoneOf(toViewer[v], k) =>
         /\ (call[v].pc = "seating" /\ call[v].of = k)
              => call[v].list = audience[k] \/ "raced" \in odd[v]
         /\ seat[v] = k => view[v] = audience[k] \/ odd[v] \cap {"raced", "mixed"} # {}

ViewsFresh ==
    \A v \in Viewers :
        (/\ host # 0 /\ conn[v] # "failed" /\ v \in audience[host]
         /\ host \notin crossed /\ ~Unlisted(host) /\ ~Owed(v, host))
            => FreshFor(v, host)

-----------------------------------------------------------------------------
\* HostRoom: requests and their answers

IsAnswer(m) == m.kind \in {"welcome", "refused"}

\* The read loop of v's session is handling a join.
Joining(v) == thread[<<v, "read">>].pc # "idle" /\ thread[<<v, "read">>].job = "join"

\* The read loop of v's session is handling a leave.
Leaving(v) == thread[<<v, "read">>].pc # "idle" /\ thread[<<v, "read">>].job = "leave"

\* The messages of q of the kinds K have rising ids above lo, up to hi.
Ascending(q, K, lo, hi) ==
    /\ \A i \in DOMAIN q : q[i].kind \in K => q[i].id > lo /\ q[i].id <= hi
    /\ \A i, j \in DOMAIN q : i < j /\ q[i].kind \in K /\ q[j].kind \in K => q[i].id < q[j].id

\* Requests up to a are answered, up to b handled, and the rest are on their way.
OrderedBy(v, a, b) ==
    /\ a <= b /\ b <= issued[v]
    /\ Ascending(toViewer[v], {"welcome", "refused"}, 0, a)
    /\ Joining(v) => thread[<<v, "read">>].id > a /\ thread[<<v, "read">>].id <= b
    /\ Ascending(toHost[v], {"join"}, b, issued[v])

\* Answered, handled and waiting requests are numbered in that order.
Ordered(v) == \E a, b \in 0..issued[v] : OrderedBy(v, a, b)

\* A waiting call was the last thing v sent, and nothing v sent before a seat it
\* has, or is about to take, takes it out of the Audience again; unless a leave
\* was overtaken by a join.
CallIsLast(v) ==
    LET in == toHost[v] IN
    /\ conn[v] = "failed" => in = <<>>
    /\ call[v].pc = "waiting" =>
         /\ call[v].id = issued[v]
         /\ "overtaken" \in odd[v] \/ in = <<>> \/ in[Len(in)].kind = "join"
         /\ "overtaken" \in odd[v] \/ ~Leaving(v) \/ in # <<>>
    /\ (seat[v] # 0 \/ call[v].pc = "seating") /\ "overtaken" \notin odd[v] =>
         /\ \A i \in DOMAIN in : in[i].kind = "join"
         /\ thread[<<v, "read">>].pc # "leave"

CallsMatched == \A v \in Viewers : Ordered(v) /\ CallIsLast(v)

-----------------------------------------------------------------------------
\* HostRoom: the end of a party

\* The welcome at i is the one v's call waits for.
Awaited(v, i) ==
    /\ toViewer[v][i].kind = "welcome"
    /\ call[v].pc = "waiting"
    /\ toViewer[v][i].id = call[v].id

SeatedIn(v, k) == seat[v] = k \/ (call[v].pc = "seating" /\ call[v].of = k)

Excused(v) == odd[v] \cap {"late", "raced", "dropped", "overtaken"} # {}

\* EndParty's loop has v still to tell of party k's end.
ToldYet(v, k) ==
    /\ ender.of = k
    /\ \/ ender.pc = "members" /\ v \in audience[k]
       \/ ender.pc = "send" /\ v \in ender.todo

EndOnItsWay(v, k, i) ==
    \E j \in DOMAIN toViewer[v] : j > i /\ toViewer[v][j].kind = "ended" /\ toViewer[v][j].of = k

\* A join that is past Host.Join is in the Audience.
JoinersIn ==
    \A v \in Viewers :
        Joining(v) /\ thread[<<v, "read">>].pc # "enter"
            => v \in audience[thread[<<v, "read">>].of] \/ "dropped" \in odd[v]

\* Whoever the live party has seated or will seat is in its Audience.
SeatedAreMembers ==
    \A v \in Viewers :
        (/\ host # 0
         /\ \/ SeatedIn(v, host)
            \/ \E i \in DOMAIN toViewer[v] : Awaited(v, i) /\ toViewer[v][i].of = host)
            => v \in audience[host] \/ Excused(v)

\* Whoever a party that ended has seated will be told, and after its welcome.
EndComes ==
    \A v \in Viewers, k \in ended :
        /\ SeatedIn(v, k) => Excused(v) \/ ToldYet(v, k) \/ EndOnItsWay(v, k, 0)
        /\ \A i \in DOMAIN toViewer[v] :
             Awaited(v, i) /\ toViewer[v][i].of = k
                => Excused(v) \/ ToldYet(v, k) \/ EndOnItsWay(v, k, i)

-----------------------------------------------------------------------------
\* HostRoom: the members of the live party

\* Request id of v is the one its call waits for.
Current(v, id) == call[v].pc = "waiting" /\ id = issued[v]

\* A Viewer that never gave up on a call has at most the one it waits for.
OneCall ==
    \A v \in Viewers :
        "gaveup" \notin odd[v] =>
            /\ \A i \in DOMAIN toHost[v] : toHost[v][i].kind = "join" => Current(v, toHost[v][i].id)
            /\ Joining(v) => Current(v, thread[<<v, "read">>].id)
            /\ \A i \in DOMAIN toViewer[v] :
                 IsAnswer(toViewer[v][i]) => Current(v, toViewer[v][i].id)

\* Goroutine t is about to take its Viewer out of the live party.
TakesOut(t) == thread[t].pc = "leave" /\ thread[t].of = host

MemberHeld(v) ==
    /\ Joining(v) => thread[<<v, "read">>].of = host
    /\ \A i \in DOMAIN toViewer[v] : toViewer[v][i].kind = "welcome" => toViewer[v][i].of = host
    /\ call[v].pc = "seating" => call[v].of = host
    /\ \/ Joining(v)
       \/ \E i \in DOMAIN toViewer[v] : toViewer[v][i].kind = "welcome"
       \/ call[v].pc = "seating"
       \/ seat[v] = host
       \/ leaving[v] > 0
       \/ \E i \in DOMAIN toHost[v] : toHost[v][i].kind = "leave"
       \/ TakesOut(<<v, "read">>)
       \/ TakesOut(<<v, "state">>)

\* A member of the live party is being welcomed, seated or taken out.
MembersHeld ==
    \A v \in Viewers :
        (/\ host # 0 /\ conn[v] # "failed" /\ v \in audience[host]
         /\ odd[v] \cap {"gaveup", "misled"} = {})
            => MemberHeld(v)

-----------------------------------------------------------------------------
\* HostRoom: facts about goroutines and channels

LEMMA ThreadNames ==
    /\ \A v \in Viewers : <<v, "read">> \in Threads /\ <<v, "state">> \in Threads
    /\ \A t \in Threads : t[1] \in Viewers /\ t[2] \in {"read", "state"} /\ t = <<t[1], t[2]>>
BY DEF Threads

\* A message at the end of a channel.
LEMMA Sent ==
    ASSUME NEW S, NEW q \in Seq(S), NEW m \in S
    PROVE  LET a == Append(q, m) IN
           /\ a \in Seq(S)
           /\ a # <<>>
           /\ Len(q) \in Nat /\ Len(a) = Len(q) + 1
           /\ DOMAIN a = DOMAIN q \cup {Len(q) + 1}
           /\ a[Len(q) + 1] = m
           /\ \A i \in DOMAIN q : i \in Nat /\ a[i] = q[i] /\ i < Len(q) + 1
OBVIOUS

\* A message taken from the front of a channel.
LEMMA Taken ==
    ASSUME NEW S, NEW q \in Seq(S), q # <<>>
    PROVE  LET r == Tail(q) IN
           /\ r \in Seq(S)
           /\ 1 \in DOMAIN q /\ Head(q) = q[1] /\ Head(q) \in S
           /\ \A i \in DOMAIN r : i \in Nat /\ i + 1 \in DOMAIN q /\ i + 1 > 1 /\ r[i] = q[i + 1]
           /\ \A i \in DOMAIN q : i \in Nat /\ (i > 1 => i - 1 \in DOMAIN r /\ r[i - 1] = q[i])
           /\ r # <<>> => Len(q) \in DOMAIN q /\ r[Len(r)] = q[Len(q)] /\ Len(q) > 1
           /\ Len(q) > 1 => r # <<>>
<1> DEFINE r == Tail(q)
<1>1. Len(q) \in Nat /\ Len(q) > 0 /\ DOMAIN q = 1..Len(q)
  OBVIOUS
<1>2. r \in Seq(S) /\ Len(r) = Len(q) - 1 /\ DOMAIN r = 1..(Len(q) - 1)
  OBVIOUS
<1>3. \A i \in 1..(Len(q) - 1) : r[i] = q[i + 1]
  OBVIOUS
<1>4. 1 \in DOMAIN q /\ Head(q) = q[1] /\ Head(q) \in S
  BY <1>1
<1>a. \A s \in Seq(S) : s = <<>> <=> Len(s) = 0
  BY EmptySeq
<1>e. r = <<>> <=> Len(r) = 0
  BY <1>2, <1>a
<1> HIDE DEF r
<1>5. \A i \in DOMAIN r : i \in Nat /\ i + 1 \in DOMAIN q /\ i + 1 > 1 /\ r[i] = q[i + 1]
  BY <1>1, <1>2, <1>3
<1>6. \A i \in DOMAIN q : i \in Nat /\ (i > 1 => i - 1 \in DOMAIN r /\ r[i - 1] = q[i])
  BY <1>1, <1>2, <1>3
<1>7. r # <<>> => Len(q) \in DOMAIN q /\ r[Len(r)] = q[Len(q)] /\ Len(q) > 1
  BY <1>1, <1>2, <1>3, <1>e
<1>8. Len(q) > 1 => r # <<>>
  BY <1>1, <1>2, <1>e
<1> QED BY <1>2, <1>4, <1>5, <1>6, <1>7, <1>8 DEF r

\* Every goroutine but t stays as it is.
OthersStay(t) == \A u \in Threads : u # t => thread'[u] = thread[u]

\* Goroutine t goes on with what it answers and the party it holds.
GoesOn(t) ==
    /\ OthersStay(t)
    /\ thread'[t].job = thread[t].job
    /\ thread'[t].id = thread[t].id
    /\ thread'[t].of = thread[t].of

\* Goroutine t has its broadcast out.
BroadcastOut(t) ==
    \/ thread[t].job = "join" /\ GoesOn(t) /\ thread'[t].pc = "answer"
    \/ thread[t].job = "leave" /\ OthersStay(t) /\ thread'[t] = Idle

ThreadT == thread \in [Threads -> ThreadStates]

LEMMA IdleTyped == Idle \in ThreadStates /\ Idle.pc = "idle" /\ Idle.job = "leave"
BY DEF Idle, ThreadStates

LEMMA ThreadTaken ==
    ASSUME ThreadT, NEW t \in Threads, NEW h \in ThreadStates, thread' = [thread EXCEPT ![t] = h]
    PROVE  ThreadT' /\ thread'[t] = h /\ OthersStay(t)
BY DEF ThreadT, OthersStay

LEMMA ThreadFields ==
    ASSUME NEW h \in ThreadStates
    PROVE  /\ h.pc \in {"idle", "enter", "leave", "list", "members", "send", "answer", "reply"}
           /\ h.job \in {"join", "leave"}
           /\ h.id \in Nat /\ h.of \in Nat /\ h.list \in SUBSET Viewers /\ h.todo \in SUBSET Viewers
BY DEF ThreadStates

LEMMA ThreadRecords ==
    ASSUME NEW h \in ThreadStates
    PROVE  /\ LET n == [h EXCEPT !.pc = "list"] IN
              n \in ThreadStates /\ n.pc = "list" /\ n.job = h.job /\ n.id = h.id /\ n.of = h.of
           /\ LET n == [h EXCEPT !.pc = "answer", !.list = {}, !.todo = {}] IN
              /\ n \in ThreadStates /\ n.pc = "answer"
              /\ n.job = h.job /\ n.id = h.id /\ n.of = h.of
BY DEF ThreadStates

LEMMA BroadcastDone ==
    ASSUME ThreadT, NEW t \in Threads, thread' = [thread EXCEPT ![t] = AfterBroadcast(@)]
    PROVE  ThreadT' /\ BroadcastOut(t)
<1>0. thread[t] \in ThreadStates /\ thread[t].job \in {"join", "leave"}
  BY ThreadFields DEF ThreadT
<1>1. CASE thread[t].job = "join"
  <2> DEFINE n == [thread[t] EXCEPT !.pc = "answer", !.list = {}, !.todo = {}]
  <2>1. thread' = [thread EXCEPT ![t] = n]
    BY <1>1 DEF AfterBroadcast
  <2>2. n \in ThreadStates /\ n.pc = "answer"
        /\ n.job = thread[t].job /\ n.id = thread[t].id /\ n.of = thread[t].of
    BY <1>0, ThreadRecords
  <2> HIDE DEF n
  <2> QED BY <1>1, <2>1, <2>2, ThreadTaken DEF BroadcastOut, GoesOn
<1>2. CASE thread[t].job = "leave"
  <2>1. thread' = [thread EXCEPT ![t] = Idle]
    BY <1>2 DEF AfterBroadcast
  <2> QED BY <1>2, <2>1, IdleTyped, ThreadTaken DEF BroadcastOut
<1> QED BY <1>0, <1>1, <1>2

\* What the steps of a handler do to its goroutine.
LEMMA ThreadSteps ==
    ASSUME RoomTypeOK, NEW t \in Threads
    PROVE  /\ Enter(t) \/ Leave(t) => ThreadT' /\ GoesOn(t) /\ thread'[t].pc = "list"
           /\ List(t) => /\ ThreadT' /\ GoesOn(t) /\ thread'[t].pc = "members"
                         /\ thread'[t].list = audience[thread[t].of]
           /\ Members(t) =>
                /\ ThreadT'
                /\ \/ audience[thread[t].of] = {} /\ BroadcastOut(t)
                   \/ /\ GoesOn(t) /\ thread'[t].pc = "send"
                      /\ thread'[t].todo = audience[thread[t].of]
                      /\ thread'[t].list = thread[t].list
           /\ \A v \in Viewers : SendAudience(t, v) =>
                /\ ThreadT'
                /\ \/ thread[t].todo = {v} /\ BroadcastOut(t)
                   \/ /\ GoesOn(t) /\ thread'[t].pc = "send"
                      /\ thread'[t].todo = thread[t].todo \ {v}
                      /\ thread'[t].list = thread[t].list
           /\ Answer(t) => /\ ThreadT' /\ GoesOn(t) /\ thread'[t].pc = "reply"
                           /\ thread'[t].list = audience[thread[t].of]
           /\ Reply(t) => ThreadT' /\ OthersStay(t) /\ thread'[t] = Idle
<1>0. ThreadT /\ thread[t] \in ThreadStates /\ thread \in [Threads -> ThreadStates]
  BY DEF RoomTypeOK, ThreadT
<1>a. thread[t].pc # "idle" => audience[thread[t].of] \in SUBSET Viewers
  BY DEF RoomTypeOK
<1>1. Enter(t) \/ Leave(t) => ThreadT' /\ GoesOn(t) /\ thread'[t].pc = "list"
  <2> SUFFICES ASSUME Enter(t) \/ Leave(t) PROVE ThreadT' /\ GoesOn(t) /\ thread'[t].pc = "list"
    OBVIOUS
  <2> DEFINE n == [thread[t] EXCEPT !.pc = "list"]
  <2>1. thread' = [thread EXCEPT ![t] = n]
    BY <1>0 DEF Enter, Leave, AfterEnter
  <2>2. n \in ThreadStates /\ n.pc = "list"
        /\ n.job = thread[t].job /\ n.id = thread[t].id /\ n.of = thread[t].of
    BY <1>0, ThreadRecords
  <2> HIDE DEF n
  <2> QED BY <1>0, <2>1, <2>2, ThreadTaken DEF GoesOn
<1>2. List(t) => /\ ThreadT' /\ GoesOn(t) /\ thread'[t].pc = "members"
                 /\ thread'[t].list = audience[thread[t].of]
  <2> SUFFICES ASSUME List(t)
               PROVE  /\ ThreadT' /\ GoesOn(t) /\ thread'[t].pc = "members"
                      /\ thread'[t].list = audience[thread[t].of]
    OBVIOUS
  <2> DEFINE h == thread[t]
             l == audience[thread[t].of]
             n == [h EXCEPT !.pc = "members", !.list = l]
  <2>1. thread' = [thread EXCEPT ![t] = n] /\ l \in SUBSET Viewers /\ h \in ThreadStates
    BY <1>0, <1>a DEF List
  <2> HIDE DEF h, l
  <2>2. n \in ThreadStates /\ n.pc = "members" /\ n.list = l
        /\ n.job = h.job /\ n.id = h.id /\ n.of = h.of
    BY <2>1 DEF ThreadStates
  <2> HIDE DEF n
  <2>3. ThreadT' /\ thread'[t] = n /\ OthersStay(t)
    BY <1>0, <2>1, <2>2, ThreadTaken
  <2> QED BY <2>2, <2>3 DEF GoesOn, h, l
<1>3. Members(t) =>
        /\ ThreadT'
        /\ \/ audience[thread[t].of] = {} /\ BroadcastOut(t)
           \/ /\ GoesOn(t) /\ thread'[t].pc = "send"
              /\ thread'[t].todo = audience[thread[t].of]
              /\ thread'[t].list = thread[t].list
  <2> SUFFICES ASSUME Members(t)
               PROVE  /\ ThreadT'
                      /\ \/ audience[thread[t].of] = {} /\ BroadcastOut(t)
                         \/ /\ GoesOn(t) /\ thread'[t].pc = "send"
                            /\ thread'[t].todo = audience[thread[t].of]
                            /\ thread'[t].list = thread[t].list
    OBVIOUS
  <2>1. CASE audience[thread[t].of] = {}
    BY <1>0, <2>1, BroadcastDone DEF Members
  <2>2. CASE audience[thread[t].of] # {}
    <3> DEFINE h == thread[t]
               d == audience[thread[t].of]
               n == [h EXCEPT !.pc = "send", !.todo = d]
    <3>1. thread' = [thread EXCEPT ![t] = n] /\ d \in SUBSET Viewers /\ h \in ThreadStates
      BY <1>0, <1>a, <2>2 DEF Members
    <3> HIDE DEF h, d
    <3>2. n \in ThreadStates /\ n.pc = "send" /\ n.todo = d /\ n.list = h.list
          /\ n.job = h.job /\ n.id = h.id /\ n.of = h.of
      BY <3>1 DEF ThreadStates
    <3> HIDE DEF n
    <3>3. ThreadT' /\ thread'[t] = n /\ OthersStay(t)
      BY <1>0, <3>1, <3>2, ThreadTaken
    <3> QED BY <3>2, <3>3 DEF GoesOn, h, d
  <2> QED BY <2>1, <2>2
<1>4. ASSUME NEW v \in Viewers, SendAudience(t, v)
      PROVE  /\ ThreadT'
             /\ \/ thread[t].todo = {v} /\ BroadcastOut(t)
                \/ /\ GoesOn(t) /\ thread'[t].pc = "send"
                   /\ thread'[t].todo = thread[t].todo \ {v}
                   /\ thread'[t].list = thread[t].list
  <2>1. CASE thread[t].todo = {v}
    BY <1>0, <1>4, <2>1, BroadcastDone DEF SendAudience
  <2>2. CASE thread[t].todo # {v}
    <3> DEFINE h == thread[t]
               d == thread[t].todo \ {v}
               n == [h EXCEPT !.todo = d]
    <3>1. d \in SUBSET Viewers /\ h \in ThreadStates
      BY <1>0, ThreadFields
    <3>a. thread' = [thread EXCEPT ![t] = IF thread[t].todo = {v} THEN AfterBroadcast(thread[t])
                                          ELSE [thread[t] EXCEPT !.todo = thread[t].todo \ {v}]]
      BY <1>4 DEF SendAudience
    <3>2. thread' = [thread EXCEPT ![t] = n] /\ h.pc = "send"
      BY <1>4, <2>2, <3>a DEF SendAudience
    <3> HIDE DEF h, d
    <3>3. n \in ThreadStates /\ n.pc = h.pc /\ n.todo = d /\ n.list = h.list
          /\ n.job = h.job /\ n.id = h.id /\ n.of = h.of
      BY <3>1 DEF ThreadStates
    <3> HIDE DEF n
    <3>4. ThreadT' /\ thread'[t] = n /\ OthersStay(t)
      BY <1>0, <3>2, <3>3, ThreadTaken
    <3> QED BY <3>2, <3>3, <3>4 DEF GoesOn, h, d
  <2> QED BY <2>1, <2>2
<1>5. Answer(t) => /\ ThreadT' /\ GoesOn(t) /\ thread'[t].pc = "reply"
                   /\ thread'[t].list = audience[thread[t].of]
  <2> SUFFICES ASSUME Answer(t)
               PROVE  /\ ThreadT' /\ GoesOn(t) /\ thread'[t].pc = "reply"
                      /\ thread'[t].list = audience[thread[t].of]
    OBVIOUS
  <2> DEFINE h == thread[t]
             l == audience[thread[t].of]
             n == [h EXCEPT !.pc = "reply", !.list = l]
  <2>1. thread' = [thread EXCEPT ![t] = n] /\ l \in SUBSET Viewers /\ h \in ThreadStates
    BY <1>0, <1>a DEF Answer
  <2> HIDE DEF h, l
  <2>2. n \in ThreadStates /\ n.pc = "reply" /\ n.list = l
        /\ n.job = h.job /\ n.id = h.id /\ n.of = h.of
    BY <2>1 DEF ThreadStates
  <2> HIDE DEF n
  <2>3. ThreadT' /\ thread'[t] = n /\ OthersStay(t)
    BY <1>0, <2>1, <2>2, ThreadTaken
  <2> QED BY <2>2, <2>3 DEF GoesOn, h, l
<1>6. Reply(t) => ThreadT' /\ OthersStay(t) /\ thread'[t] = Idle
  BY <1>0, IdleTyped, ThreadTaken DEF Reply
<1> QED BY <1>1, <1>2, <1>3, <1>4, <1>5, <1>6

\* OnLeaveParty on a goroutine of its own, idle before.
LEMMA LeaveBegins ==
    ASSUME RoomTypeOK, NEW t \in Threads, OnLeaveParty(t)
    PROVE  /\ ThreadT' /\ OthersStay(t)
           /\ \/ host = 0 /\ thread'[t] = Idle
              \/ /\ host # 0
                 /\ thread'[t].pc = "leave" /\ thread'[t].job = "leave" /\ thread'[t].of = host
<1>0. ThreadT /\ host \in Nat
  BY HostRoomAssumption DEF RoomTypeOK, ThreadT
<1>1. CASE host = 0
  BY <1>0, <1>1, IdleTyped, ThreadTaken DEF OnLeaveParty
<1>2. CASE host # 0
  <2> DEFINE n == [Idle EXCEPT !.pc = "leave", !.of = host]
  <2>1. n \in ThreadStates /\ n.pc = "leave" /\ n.job = "leave" /\ n.of = host
    BY <1>0 DEF Idle, ThreadStates
  <2>2. thread' = [thread EXCEPT ![t] = n]
    BY <1>2 DEF OnLeaveParty
  <2> HIDE DEF n
  <2> QED BY <1>0, <1>2, <2>1, <2>2, ThreadTaken
<1> QED BY <1>1, <1>2

LEMMA RequestFields ==
    ASSUME NEW x \in Requests
    PROVE  x.kind \in {"join", "leave"} /\ x.id \in Nat
BY DEF Requests

\* OnJoinParty, on an idle read loop.
LEMMA JoinBegins ==
    ASSUME RoomTypeOK, NEW v \in Viewers, OnJoinParty(v), Admits(v)
    PROVE  LET t == <<v, "read">> IN
           /\ ThreadT' /\ OthersStay(t)
           /\ thread'[t].pc = "enter" /\ thread'[t].job = "join" /\ thread'[t].of = host
           /\ thread'[t].id = toHost[v][1].id
<1>a. ThreadT /\ host \in Nat
  BY HostRoomAssumption DEF RoomTypeOK, ThreadT
<1>b. toHost[v] \in Seq(Requests)
  BY DEF RoomTypeOK
<1>c. toHost[v] # <<>>
  BY DEF OnJoinParty
<1>0. ThreadT /\ host \in Nat /\ toHost[v] \in Seq(Requests) /\ toHost[v] # <<>>
      /\ <<v, "read">> \in Threads
  BY <1>a, <1>b, <1>c, ThreadNames
<1>1. Head(toHost[v]) = toHost[v][1] /\ Head(toHost[v]).id \in Nat
  <2>1. Head(toHost[v]) = toHost[v][1] /\ Head(toHost[v]) \in Requests
    BY <1>0, Taken
  <2> QED BY <2>1, RequestFields
<1> DEFINE i == Head(toHost[v]).id
           n == [Idle EXCEPT !.pc = "enter", !.job = "join", !.id = i, !.of = host]
<1>2. thread' = [thread EXCEPT ![<<v, "read">>] = n]
  BY DEF OnJoinParty
<1>3. i \in Nat /\ i = toHost[v][1].id
  BY <1>1
<1> HIDE DEF i
<1>4. n \in ThreadStates /\ n.pc = "enter" /\ n.job = "join" /\ n.id = i /\ n.of = host
  BY <1>0, <1>3 DEF Idle, ThreadStates
<1> HIDE DEF n
<1> QED BY <1>0, <1>2, <1>3, <1>4, ThreadTaken

-----------------------------------------------------------------------------
\* HostRoom: types, step by step

\* The steps of a handler that runs on goroutine t.
HandlerMoves(t) ==
    \/ Enter(t) \/ Leave(t) \/ List(t) \/ Members(t)
    \/ \E v \in Viewers : SendAudience(t, v)
    \/ Answer(t) \/ Reply(t)

\* The steps that begin one on a goroutine of v's session.
HandlerBegins(v) == OnJoinParty(v) \/ LeaveArrives(v) \/ Disconnect(v) \/ Fail(v)

\* The owner's steps.
OwnerMoves == StartParty \/ EndParty \/ EnderMembers \/ \E v \in Viewers : EnderSend(v) \/ Approve(v)

\* A JoinParty call on some Title.
Joins(v) == \E title \in Titles : JoinParty(v, title)

\* A Viewer's.
ViewerMoves(v) ==
    Joins(v) \/ GiveUp(v) \/ Seat(v) \/ LeaveParty(v) \/ SendLeave(v) \/ Receive(v)

LEMMA RoomMoves ==
    ASSUME RoomNext
    PROVE  \/ OwnerMoves
           \/ \E v \in Viewers : HandlerBegins(v) \/ Reconnect(v) \/ ViewerMoves(v)
           \/ \E t \in Threads : HandlerMoves(t)
BY DEF RoomNext, HandlerMoves, HandlerBegins, OwnerMoves, ViewerMoves, Joins

\* Only handlers change what goroutines do.
LEMMA ThreadFrame ==
    /\ OwnerMoves => UNCHANGED thread
    /\ \A v \in Viewers : Reconnect(v) \/ ViewerMoves(v) => UNCHANGED thread
<1>1. OwnerMoves => UNCHANGED thread
  BY DEF OwnerMoves, StartParty, EndParty, EnderMembers, EnderSend, Approve
<1>2. \A v \in Viewers : Reconnect(v) \/ ViewerMoves(v) => UNCHANGED thread
  BY DEF ViewerMoves, Reconnect, Joins, JoinParty, GiveUp, Seat, LeaveParty, SendLeave, Receive
<1> QED BY <1>1, <1>2

\* Handlers change nothing of the parties but their Audiences, and nothing the
\* Viewers keep.
LEMMA HandlerFrame ==
    /\ \A t \in Threads : HandlerMoves(t) =>
         /\ UNCHANGED <<host, started, allow, ender, conn, moves, toHost, call, issued, seat, view, leaving,
                      ended>>
         /\ Enter(t) \/ Leave(t) \/ UNCHANGED audience
         /\ List(t) \/ Answer(t) \/ UNCHANGED crossed
         /\ Reply(t) \/ UNCHANGED odd
         /\ Reply(t) \/ (\E v \in Viewers : SendAudience(t, v)) \/ UNCHANGED toViewer
    /\ \A v \in Viewers : HandlerBegins(v) \/ Reconnect(v) =>
         /\ UNCHANGED <<host, started, audience, allow, ender, call, issued, seat, view, leaving,
                      crossed, ended>>
<1>1. ASSUME NEW t \in Threads, HandlerMoves(t)
      PROVE  /\ UNCHANGED <<host, started, allow, ender, conn, moves, toHost, call, issued, seat,
                            view, leaving, ended>>
             /\ Enter(t) \/ Leave(t) \/ UNCHANGED audience
             /\ List(t) \/ Answer(t) \/ UNCHANGED crossed
             /\ Reply(t) \/ UNCHANGED odd
             /\ Reply(t) \/ (\E v \in Viewers : SendAudience(t, v)) \/ UNCHANGED toViewer
  <2>1. CASE Enter(t)
    BY <2>1 DEF Enter, viewerVars, auxVars
  <2>2. CASE Leave(t)
    BY <2>2 DEF Leave, viewerVars, auxVars
  <2>3. CASE List(t)
    BY <2>3 DEF List, viewerVars, roomVars
  <2>4. CASE Members(t)
    BY <2>4 DEF Members, viewerVars, roomVars, auxVars
  <2>5. CASE \E v \in Viewers : SendAudience(t, v)
    BY <2>5 DEF SendAudience, viewerVars, roomVars, auxVars
  <2>6. CASE Answer(t)
    BY <2>6 DEF Answer, viewerVars, roomVars
  <2>7. CASE Reply(t)
    BY <2>7 DEF Reply, viewerVars, roomVars
  <2> QED BY <1>1, <2>1, <2>2, <2>3, <2>4, <2>5, <2>6, <2>7 DEF HandlerMoves
<1>2. ASSUME NEW v \in Viewers, HandlerBegins(v) \/ Reconnect(v)
      PROVE  UNCHANGED <<host, started, audience, allow, ender, call, issued, seat, view, leaving, crossed,
                        ended>>
  BY <1>2 DEF HandlerBegins, OnJoinParty, LeaveArrives, Disconnect, Fail, Reconnect, viewerVars,
              roomVars, auxVars
<1> QED BY <1>1, <1>2

\* A goroutine at work holds a party that was started.
HoldsStarted == \A t \in Threads : thread[t].pc # "idle" => thread[t].of \in 1..started

\* started only grows.
LEMMA StartedGrows ==
    ASSUME RoomTypeOK, [RoomNext]_hostRoomVars
    PROVE  /\ started \in Nat /\ started' \in Nat /\ started <= started'
           /\ started' = started \/ (StartParty /\ started' = started + 1 /\ host' = started + 1)
<1>0. started \in Nat
  BY HostRoomAssumption DEF RoomTypeOK
<1>1. StartParty \/ started' = started
  <2>1. CASE OwnerMoves
    BY <2>1 DEF OwnerMoves, EndParty, EnderMembers, EnderSend, Approve, roomVars
  <2>2. ASSUME NEW v \in Viewers, HandlerBegins(v) \/ Reconnect(v) PROVE started' = started
    BY <2>2, HandlerFrame
  <2>3. ASSUME NEW v \in Viewers, ViewerMoves(v) PROVE started' = started
    BY <2>3 DEF ViewerMoves, Joins, JoinParty, GiveUp, Seat, LeaveParty, SendLeave, Receive, roomVars
  <2>4. ASSUME NEW t \in Threads, HandlerMoves(t) PROVE started' = started
    BY <2>4, HandlerFrame
  <2>5. CASE UNCHANGED hostRoomVars
    BY <2>5 DEF hostRoomVars, roomVars
  <2> QED BY <2>1, <2>2, <2>3, <2>4, <2>5, RoomMoves
<1> QED BY <1>0, <1>1 DEF StartParty

\* A goroutine that goes on, or ends, or begins, fits its job.
LEMMA ThreadStep ==
    ASSUME RoomTypeOK, JobsFit, HoldsStarted, [RoomNext]_hostRoomVars
    PROVE  ThreadT' /\ JobsFit' /\ HoldsStarted'
<1>0. ThreadT /\ host \in 0..started /\ started \in Nat
  BY HostRoomAssumption DEF RoomTypeOK, ThreadT
<1>s. started \in Nat /\ started' \in Nat /\ started <= started' /\ 1..started \subseteq 1..started'
  <2>1. started \in Nat /\ started' \in Nat /\ started <= started'
    BY StartedGrows
  <2> QED BY <2>1
<1>u. UNCHANGED thread => ThreadT' /\ JobsFit' /\ HoldsStarted'
  BY <1>0, <1>s DEF ThreadT, JobsFit, HoldsStarted
<1>t. ASSUME NEW t \in Threads, ThreadT', OthersStay(t),
             thread'[t].pc \in {"enter", "answer", "reply"} => thread'[t].job = "join",
             thread'[t].pc = "leave" => thread'[t].job = "leave",
             thread'[t].pc # "idle" /\ thread'[t].job = "join" => t[2] = "read",
             thread'[t].pc # "idle" => thread'[t].of \in 1..started
      PROVE  JobsFit' /\ HoldsStarted'
  <2>1. JobsFit'
    BY <1>t DEF JobsFit, OthersStay
  <2>2. HoldsStarted'
    BY <1>t, <1>s DEF HoldsStarted, OthersStay
  <2> QED BY <2>1, <2>2
<1>1. ASSUME NEW t \in Threads, HandlerMoves(t)
      PROVE  ThreadT' /\ JobsFit' /\ HoldsStarted'
  <2>0. /\ thread[t].pc # "idle"
        /\ thread[t].pc \in {"enter", "leave", "list", "members", "send", "answer", "reply"}
        /\ Answer(t) => thread[t].pc = "answer"
    BY <1>1 DEF HandlerMoves, Enter, Leave, List, Members, SendAudience, Answer, Reply
  <2>1. thread[t].of \in 1..started /\ (thread[t].job = "join" => t[2] = "read")
    BY <2>0 DEF JobsFit, HoldsStarted
  <2>2. /\ ThreadT'
        /\ \/ GoesOn(t) /\ thread'[t].pc \in {"list", "members", "send"}
           \/ GoesOn(t) /\ thread'[t].pc = "answer" /\ thread[t].job = "join"
           \/ GoesOn(t) /\ thread'[t].pc = "reply" /\ Answer(t)
           \/ OthersStay(t) /\ thread'[t] = Idle
    BY <1>1, ThreadSteps DEF HandlerMoves, BroadcastOut
  <2>3. thread'[t].pc \in {"enter", "answer", "reply"} => thread'[t].job = "join"
    BY <2>0, <2>2, IdleTyped DEF GoesOn, JobsFit
  <2>4. /\ OthersStay(t) /\ thread'[t].pc # "leave"
        /\ thread'[t].pc # "idle" => thread'[t].of = thread[t].of /\ thread'[t].job = thread[t].job
    BY <2>2, IdleTyped DEF GoesOn
  <2>5. JobsFit' /\ HoldsStarted'
    BY <2>1, <2>2, <2>3, <2>4, <1>t
  <2> QED BY <2>2, <2>5
<1>2. ASSUME NEW t \in Threads, OnLeaveParty(t)
      PROVE  ThreadT' /\ JobsFit' /\ HoldsStarted'
  <2>1. /\ ThreadT' /\ OthersStay(t)
        /\ \/ host = 0 /\ thread'[t] = Idle
           \/ /\ host # 0
              /\ thread'[t].pc = "leave" /\ thread'[t].job = "leave" /\ thread'[t].of = host
    BY <1>2, LeaveBegins
  <2>2. host # 0 => host \in 1..started
    BY <1>0
  <2> QED BY <2>1, <2>2, <1>t, IdleTyped
<1>3. ASSUME NEW v \in Viewers, OnJoinParty(v)
      PROVE  ThreadT' /\ JobsFit' /\ HoldsStarted'
  <2>1. CASE Admits(v)
    <3>1. LET t == <<v, "read">> IN
          /\ ThreadT' /\ OthersStay(t) /\ t \in Threads /\ t[2] = "read"
          /\ thread'[t].pc = "enter" /\ thread'[t].job = "join" /\ thread'[t].of = host
      BY <1>3, <2>1, JoinBegins, ThreadNames
    <3>2. host \in 1..started
      BY <1>0, <2>1 DEF Admits
    <3> QED BY <3>1, <3>2, <1>t
  <2>2. CASE ~Admits(v)
    BY <1>3, <2>2, <1>u DEF OnJoinParty
  <2> QED BY <2>1, <2>2
<1>4. ASSUME NEW v \in Viewers, LeaveArrives(v) \/ Disconnect(v) \/ Fail(v)
      PROVE  ThreadT' /\ JobsFit' /\ HoldsStarted'
  BY <1>4, <1>2, ThreadNames DEF LeaveArrives, Disconnect, Fail, Reported
<1>5. CASE UNCHANGED hostRoomVars
  BY <1>5, <1>u DEF hostRoomVars
<1> QED BY <1>u, <1>1, <1>3, <1>4, <1>5, RoomMoves, ThreadFrame DEF HandlerBegins

\* The parties, their Audiences and the EndParty call.
PartiesOK ==
    /\ host \in 0..started
    /\ started \in 0..MaxParties
    /\ audience \in [Parties -> SUBSET Viewers]
    /\ allow \in SUBSET Viewers
    /\ moves \in 0..MaxMoves
    /\ crossed \in SUBSET Parties
    /\ ender \in EnderStates
    /\ ender.pc # "idle" => ender.of \in ended
    /\ \A k \in Parties : k > started => audience[k] = {}
    /\ ended \subseteq 1..started
    /\ host \notin ended

LEMMA PartiesStep ==
    ASSUME RoomTypeOK, JobsFit, OnlyStarted, [RoomNext]_hostRoomVars
    PROVE  PartiesOK'
<1>0. PartiesOK /\ HoldsStarted
  BY DEF PartiesOK, RoomTypeOK, OnlyStarted, HoldsStarted
<1>n. MaxParties \in Nat /\ MaxMoves \in Nat /\ started \in Nat /\ started <= MaxParties /\ moves \in Nat
  BY <1>0, HostRoomAssumption DEF PartiesOK
<1>m. Move => moves' \in 0..MaxMoves
  BY <1>n DEF Move
<1>e. NoEnder \in EnderStates /\ NoEnder.pc = "idle"
  BY DEF NoEnder, EnderStates
<1>p. Parties = 1..MaxParties /\ 1..started \subseteq Parties
  BY <1>n DEF Parties
<1>1. CASE StartParty
  <2>1. /\ started' = started + 1 /\ host' = started + 1 /\ started < MaxParties /\ moves' \in 0..MaxMoves
        /\ UNCHANGED <<audience, allow, crossed, ender, ended>>
    BY <1>1, <1>m DEF StartParty, auxVars
  <2>2. host' \in 0..started' /\ started' \in 0..MaxParties /\ ended \subseteq 1..(started + 1)
        /\ started + 1 \notin ended
    BY <1>0, <1>n, <2>1 DEF PartiesOK
  <2>3. \A k \in Parties : k > started' => audience'[k] = {}
    BY <1>0, <1>n, <1>p, <2>1 DEF PartiesOK
  <2> QED BY <1>0, <2>1, <2>2, <2>3 DEF PartiesOK
<1>2. CASE EndParty
  <2>1. /\ host' = 0 /\ host # 0 /\ moves' \in 0..MaxMoves /\ ended' = ended \cup {host}
        /\ ender' = [pc |-> "members", of |-> host, todo |-> {}]
        /\ UNCHANGED <<audience, allow, crossed, started>>
    BY <1>2, <1>m DEF EndParty, HostAfterEnd
  <2>2. host \in 1..started /\ host \in Nat
    BY <1>0, <1>n, <2>1 DEF PartiesOK
  <2>3. ender' \in EnderStates /\ ender'.of \in ended'
    BY <2>1, <2>2 DEF EnderStates
  <2>4. host' \in 0..started' /\ host' \notin ended' /\ ended' \subseteq 1..started'
    BY <1>0, <1>n, <2>1, <2>2 DEF PartiesOK
  <2> QED BY <1>0, <2>1, <2>3, <2>4 DEF PartiesOK
<1>3. CASE EnderMembers
  <2>1. UNCHANGED <<host, started, audience, allow, moves, crossed, ended>>
    BY <1>3 DEF EnderMembers, roomVars, auxVars
  <2>2. ender.pc = "members" /\ ender \in EnderStates /\ audience[ender.of] \in SUBSET Viewers
        /\ ender.of \in ended
    BY <1>0, <1>3, <1>p DEF PartiesOK, EnderMembers
  <2>3. ender' = NoEnder \/ ender' = [ender EXCEPT !.pc = "send", !.todo = audience[ender.of]]
    BY <1>3 DEF EnderMembers
  <2>4. ender' \in EnderStates /\ (ender'.pc # "idle" => ender'.of \in ended)
    <3> DEFINE a == audience[ender.of]
    <3>1. a \in SUBSET Viewers /\ (ender' = NoEnder \/ ender' = [ender EXCEPT !.pc = "send", !.todo = a])
      BY <2>2, <2>3
    <3> HIDE DEF a
    <3> QED BY <3>1, <2>2, <1>e DEF EnderStates
  <2> QED BY <1>0, <2>1, <2>4 DEF PartiesOK
<1>4. ASSUME NEW v \in Viewers, EnderSend(v)
      PROVE  PartiesOK'
  <2>1. UNCHANGED <<host, started, audience, allow, moves, crossed, ended>>
    BY <1>4 DEF EnderSend, roomVars, auxVars
  <2>2. ender.pc = "send" /\ ender \in EnderStates /\ ender.of \in ended
    BY <1>0, <1>4 DEF PartiesOK, EnderSend
  <2>3. ender' = NoEnder \/ ender' = [ender EXCEPT !.todo = ender.todo \ {v}]
    BY <1>4 DEF EnderSend, StillToTell
  <2>4. ender' \in EnderStates /\ (ender'.pc # "idle" => ender'.of \in ended)
    <3>1. ender.todo \in SUBSET Viewers
      BY <2>2 DEF EnderStates
    <3> DEFINE d == ender.todo \ {v}
    <3>2. d \in SUBSET Viewers /\ (ender' = NoEnder \/ ender' = [ender EXCEPT !.todo = d])
      BY <2>3, <3>1
    <3> HIDE DEF d
    <3> QED BY <3>2, <2>2, <1>e DEF EnderStates
  <2> QED BY <1>0, <2>1, <2>4 DEF PartiesOK
<1>5. ASSUME NEW v \in Viewers, Approve(v)
      PROVE  PartiesOK'
  BY <1>0, <1>5, <1>m DEF PartiesOK, Approve, auxVars
<1>6. ASSUME NEW v \in Viewers, HandlerBegins(v) \/ Reconnect(v)
      PROVE  PartiesOK'
  <2>1. UNCHANGED <<host, started, audience, allow, ender, crossed, ended>>
    BY <1>6, HandlerFrame
  <2>2. moves' \in 0..MaxMoves
    BY <1>0, <1>6, <1>m DEF PartiesOK, HandlerBegins, OnJoinParty, LeaveArrives, Disconnect, Fail, Reconnect
  <2> QED BY <1>0, <2>1, <2>2 DEF PartiesOK
<1>7. ASSUME NEW v \in Viewers, ViewerMoves(v)
      PROVE  PartiesOK'
  <2>1. UNCHANGED <<host, started, audience, allow, ender, crossed, ended>>
    BY <1>7 DEF ViewerMoves, Joins, JoinParty, GiveUp, Seat, LeaveParty, SendLeave, Receive, roomVars, auxVars
  <2>2. moves' \in 0..MaxMoves
    BY <1>0, <1>7, <1>m DEF PartiesOK, ViewerMoves, Joins, JoinParty, GiveUp, Seat, LeaveParty, SendLeave, Receive
  <2> QED BY <1>0, <2>1, <2>2 DEF PartiesOK
<1>8. ASSUME NEW t \in Threads, HandlerMoves(t)
      PROVE  PartiesOK'
  <2>1. UNCHANGED <<host, started, allow, ender, moves, ended>>
    BY <1>8, HandlerFrame
  <2>2. thread[t].of \in 1..started /\ thread[t].of \in Parties /\ t[1] \in Viewers
    <3>1. thread[t].pc # "idle"
      BY <1>8 DEF HandlerMoves, Enter, Leave, List, Members, SendAudience, Answer, Reply
    <3> QED BY <3>1, <1>0, <1>p, ThreadNames DEF HoldsStarted
  <2>3. crossed' \in SUBSET Parties
    BY <1>0, <1>8, <2>2, HandlerFrame DEF PartiesOK, List, Answer
  <2>4. \/ UNCHANGED audience
        \/ audience' = [audience EXCEPT ![thread[t].of] = @ \cup {t[1]}]
        \/ audience' = [audience EXCEPT ![thread[t].of] = @ \ {t[1]}]
    BY <1>8, HandlerFrame DEF Enter, Leave
  <2>5. audience' \in [Parties -> SUBSET Viewers] /\ \A k \in Parties : k > started => audience'[k] = {}
    <3>1. thread[t].of <= started
      BY <2>2
    <3>2. audience \in [Parties -> SUBSET Viewers] /\ \A k \in Parties : k > started => audience[k] = {}
      BY <1>0 DEF PartiesOK
    <3>3. audience' \in [Parties -> SUBSET Viewers]
      BY <2>2, <2>4, <3>2
    <3>4. ASSUME NEW k \in Parties, k > started PROVE audience'[k] = {}
      <4>1. k # thread[t].of
        BY <2>2, <3>1, <3>4, <1>n, <1>p
      <4> QED BY <2>4, <3>2, <3>4, <4>1
    <3> QED BY <3>3, <3>4
  <2> QED BY <1>0, <2>1, <2>3, <2>5 DEF PartiesOK
<1>9. CASE UNCHANGED hostRoomVars
  BY <1>0, <1>9 DEF PartiesOK, hostRoomVars, roomVars, auxVars
<1> QED BY <1>1, <1>2, <1>3, <1>4, <1>5, <1>6, <1>7, <1>8, <1>9, RoomMoves DEF OwnerMoves

\* m is at the end of v's channel, unless its connection has failed.
Posts(v, m) ==
    /\ \A w \in Viewers : w # v => toViewer'[w] = toViewer[w]
    /\ \/ conn[v] = "failed" /\ toViewer'[v] = toViewer[v]
       \/ conn[v] # "failed" /\ toViewer'[v] = Append(toViewer[v], m)

LEMMA SendPosts ==
    ASSUME RoomTypeOK, NEW v \in Viewers, NEW m \in Messages, Send(v, m)
    PROVE  toViewer' \in [Viewers -> Seq(Messages)] /\ Posts(v, m)
<1>0. toViewer \in [Viewers -> Seq(Messages)]
  BY DEF RoomTypeOK
<1>1. Append(toViewer[v], m) \in Seq(Messages)
  BY <1>0
<1> QED BY <1>0, <1>1 DEF Send, Posts

LEMMA MessageTyped ==
    ASSUME NEW kind \in {"audience", "welcome", "refused", "ended"}, NEW id \in Nat, NEW k \in Nat,
           NEW list \in SUBSET Viewers
    PROVE  LET m == Message(kind, id, k, list) IN
           m \in Messages /\ m.kind = kind /\ m.id = id /\ m.of = k /\ m.list = list
BY DEF Message, Messages

\* What the Host's steps send, and to whom.
LEMMA WhatIsSent ==
    ASSUME RoomTypeOK
    PROVE  /\ \A v \in Viewers : EnderSend(v) =>
                \E m \in Messages : /\ m.kind = "ended" /\ m.of = ender.of /\ Posts(v, m)
                                    /\ toViewer' \in [Viewers -> Seq(Messages)]
           /\ \A t \in Threads, v \in Viewers : SendAudience(t, v) =>
                \E m \in Messages : /\ m.kind = "audience" /\ m.of = thread[t].of
                                    /\ m.list = thread[t].list /\ Posts(v, m)
                                    /\ toViewer' \in [Viewers -> Seq(Messages)]
           /\ \A t \in Threads : Reply(t) =>
                \E m \in Messages : /\ m.kind = "welcome" /\ m.of = thread[t].of
                                    /\ m.id = thread[t].id /\ m.list = thread[t].list
                                    /\ Posts(t[1], m)
                                    /\ toViewer' \in [Viewers -> Seq(Messages)]
           /\ \A v \in Viewers : OnJoinParty(v) /\ ~Admits(v) =>
                \E m \in Messages : /\ m.kind = "refused" /\ m.id = toHost[v][1].id /\ m.of = 0
                                    /\ Posts(v, m)
                                    /\ toViewer' \in [Viewers -> Seq(Messages)]
<1>1. ASSUME NEW v \in Viewers, EnderSend(v)
      PROVE  \E m \in Messages : /\ m.kind = "ended" /\ m.of = ender.of /\ Posts(v, m)
                                 /\ toViewer' \in [Viewers -> Seq(Messages)]
  <2>1. ender.of \in Nat
    BY DEF RoomTypeOK, EnderStates
  <2> DEFINE m == Message("ended", 0, ender.of, {})
  <2>2. m \in Messages /\ m.kind = "ended" /\ m.of = ender.of
    BY <2>1, MessageTyped
  <2>3. Send(v, m)
    BY <1>1 DEF EnderSend
  <2> HIDE DEF m
  <2> QED BY <2>2, <2>3, SendPosts
<1>2. ASSUME NEW t \in Threads, NEW v \in Viewers, SendAudience(t, v)
      PROVE  \E m \in Messages : /\ m.kind = "audience" /\ m.of = thread[t].of
                                 /\ m.list = thread[t].list /\ Posts(v, m)
                                 /\ toViewer' \in [Viewers -> Seq(Messages)]
  <2>1. thread[t].of \in Nat /\ thread[t].list \in SUBSET Viewers
    BY ThreadFields DEF RoomTypeOK
  <2> DEFINE m == Message("audience", 0, thread[t].of, thread[t].list)
  <2>2. m \in Messages /\ m.kind = "audience" /\ m.of = thread[t].of /\ m.list = thread[t].list
    BY <2>1, MessageTyped
  <2>3. Send(v, m)
    BY <1>2 DEF SendAudience
  <2> HIDE DEF m
  <2> QED BY <2>2, <2>3, SendPosts
<1>3. ASSUME NEW t \in Threads, Reply(t)
      PROVE  \E m \in Messages : /\ m.kind = "welcome" /\ m.of = thread[t].of
                                 /\ m.id = thread[t].id /\ m.list = thread[t].list
                                 /\ Posts(t[1], m)
                                 /\ toViewer' \in [Viewers -> Seq(Messages)]
  <2>1. thread[t].of \in Nat /\ thread[t].id \in Nat /\ thread[t].list \in SUBSET Viewers
        /\ t[1] \in Viewers
    BY ThreadFields, ThreadNames DEF RoomTypeOK
  <2> DEFINE m == Message("welcome", thread[t].id, thread[t].of, thread[t].list)
  <2>2. m \in Messages /\ m.kind = "welcome" /\ m.of = thread[t].of /\ m.id = thread[t].id
        /\ m.list = thread[t].list
    BY <2>1, MessageTyped
  <2>3. Send(t[1], m)
    BY <1>3 DEF Reply
  <2> HIDE DEF m
  <2> QED BY <2>1, <2>2, <2>3, SendPosts
<1>4. ASSUME NEW v \in Viewers, OnJoinParty(v), ~Admits(v)
      PROVE  \E m \in Messages : /\ m.kind = "refused" /\ m.id = toHost[v][1].id /\ m.of = 0
                                 /\ Posts(v, m)
                                 /\ toViewer' \in [Viewers -> Seq(Messages)]
  <2>1. toHost[v] \in Seq(Requests)
    BY DEF RoomTypeOK
  <2>2. toHost[v] # <<>>
    BY <1>4 DEF OnJoinParty
  <2>3. Head(toHost[v]) = toHost[v][1] /\ Head(toHost[v]) \in Requests
    BY <2>1, <2>2, Taken
  <2> DEFINE i == Head(toHost[v]).id
             m == Message("refused", i, 0, {})
  <2>4. i \in Nat /\ i = toHost[v][1].id
    BY <2>3, RequestFields
  <2>5. Send(v, m)
    BY <1>4 DEF OnJoinParty
  <2> HIDE DEF i
  <2>6. m \in Messages /\ m.kind = "refused" /\ m.id = i /\ m.of = 0
    BY <2>4, MessageTyped
  <2> HIDE DEF m
  <2> QED BY <2>4, <2>5, <2>6, SendPosts
<1> QED BY <1>1, <1>2, <1>3, <1>4

\* Nothing else sends to a Viewer; the other steps leave its channel alone, take
\* from it or lose it.
LEMMA ViewerChannel ==
    ASSUME RoomTypeOK, [RoomNext]_hostRoomVars
    PROVE  \/ UNCHANGED toViewer
           \/ \E v \in Viewers : EnderSend(v)
           \/ \E t \in Threads, v \in Viewers : SendAudience(t, v)
           \/ \E t \in Threads : Reply(t)
           \/ \E v \in Viewers : OnJoinParty(v) /\ ~Admits(v)
           \/ \E v \in Viewers : Receive(v)
           \/ \E v \in Viewers : Fail(v)
<1>1. CASE OwnerMoves
  BY <1>1 DEF OwnerMoves, StartParty, EndParty, EnderMembers, Approve
<1>2. ASSUME NEW v \in Viewers, HandlerBegins(v) \/ Reconnect(v)
      PROVE  UNCHANGED toViewer \/ (OnJoinParty(v) /\ ~Admits(v)) \/ Fail(v)
  BY <1>2 DEF HandlerBegins, OnJoinParty, LeaveArrives, Disconnect, Reconnect
<1>3. ASSUME NEW v \in Viewers, ViewerMoves(v)
      PROVE  UNCHANGED toViewer \/ Receive(v)
  BY <1>3 DEF ViewerMoves, Joins, JoinParty, GiveUp, Seat, LeaveParty, SendLeave
<1>4. ASSUME NEW t \in Threads, HandlerMoves(t)
      PROVE  UNCHANGED toViewer \/ Reply(t) \/ \E v \in Viewers : SendAudience(t, v)
  BY <1>4, HandlerFrame
<1>5. CASE UNCHANGED hostRoomVars
  BY <1>5 DEF hostRoomVars
<1> QED BY <1>1, <1>2, <1>3, <1>4, <1>5, RoomMoves

\* What Viewers other than v keep, and what is on its way from them.
OtherViewers(v) ==
    \A w \in Viewers : w # v =>
        /\ call'[w] = call[w] /\ issued'[w] = issued[w] /\ seat'[w] = seat[w] /\ view'[w] = view[w]
        /\ leaving'[w] = leaving[w] /\ odd'[w] = odd[w] /\ toHost'[w] = toHost[w] /\ toViewer'[w] = toViewer[w]

Odds == {"late", "dropped", "gaveup", "raced", "misled", "mixed", "overtaken"}

\* What the Viewers keep.
SeatsT ==
    /\ call \in [Viewers -> Calls]
    /\ issued \in [Viewers -> Nat]
    /\ seat \in [Viewers -> Nat]
    /\ view \in [Viewers -> SUBSET Viewers]
    /\ leaving \in [Viewers -> Nat]
    /\ odd \in [Viewers -> SUBSET Odds]

ToHostT == toHost \in [Viewers -> Seq(Requests)]
ToViewerT == toViewer \in [Viewers -> Seq(Messages)]

LEMMA ViewerTypes == RoomTypeOK => SeatsT /\ ToHostT /\ ToViewerT
BY DEF RoomTypeOK, SeatsT, ToHostT, ToViewerT, Odds

LEMMA CallRecords ==
    /\ NoCall \in Calls /\ NoCall.pc = "idle" /\ NoCall.of = 0
    /\ \A i \in Nat : LET c == [NoCall EXCEPT !.pc = "waiting", !.id = i] IN
         c \in Calls /\ c.pc = "waiting" /\ c.id = i /\ c.of = 0
    /\ \A c \in Calls : /\ c.pc \in {"idle", "waiting", "seating"} /\ c.id \in Nat /\ c.of \in Nat
                        /\ c.list \in SUBSET Viewers
<1>1. NoCall \in Calls /\ NoCall.pc = "idle" /\ NoCall.of = 0
  BY DEF NoCall, Calls
<1>2. ASSUME NEW i \in Nat
      PROVE  LET c == [NoCall EXCEPT !.pc = "waiting", !.id = i] IN
             c \in Calls /\ c.pc = "waiting" /\ c.id = i /\ c.of = 0
  BY DEF NoCall, Calls
<1>3. \A c \in Calls : /\ c.pc \in {"idle", "waiting", "seating"} /\ c.id \in Nat /\ c.of \in Nat
                       /\ c.list \in SUBSET Viewers
  BY DEF Calls
<1> QED BY <1>1, <1>2, <1>3

\* JoinParty.
LEMMA JoinEffect ==
    ASSUME RoomTypeOK, NEW v \in Viewers, Joins(v)
    PROVE  /\ SeatsT' /\ ToHostT' /\ OtherViewers(v)
           /\ call[v].pc = "idle" /\ call'[v].pc = "waiting" /\ call'[v].of = 0
           /\ call'[v].id = issued'[v] /\ issued'[v] = issued[v] + 1
           /\ \/ conn[v] = "failed" /\ toHost'[v] = toHost[v]
              \/ /\ conn[v] # "failed"
                 /\ \E r \in Requests : /\ r.kind = "join" /\ r.id = issued'[v]
                                        /\ toHost'[v] = Append(toHost[v], r)
           /\ UNCHANGED <<roomVars, thread, ender, conn, toViewer, seat, view, leaving, auxVars>>
<1>0. SeatsT /\ ToHostT /\ toHost[v] \in Seq(Requests)
  BY ViewerTypes DEF ToHostT
<1>p. PICK title \in Titles : JoinParty(v, title)
  BY DEF Joins
<1>1. issued[v] + 1 \in Nat /\ issued' = [issued EXCEPT ![v] = issued[v] + 1]
  BY <1>0, <1>p DEF JoinParty, SeatsT
<1> DEFINE n == issued[v] + 1
           c == [NoCall EXCEPT !.pc = "waiting", !.id = n]
           r == [kind |-> "join", id |-> n, title |-> title]
<1>2. /\ call' = [call EXCEPT ![v] = c] /\ call[v].pc = "idle"
      /\ toHost' = IF conn[v] = "failed" THEN toHost ELSE [toHost EXCEPT ![v] = Append(@, r)]
      /\ UNCHANGED <<roomVars, thread, ender, conn, toViewer, seat, view, leaving, auxVars>>
  BY <1>p DEF JoinParty, Request
<1>3. n \in Nat /\ issued' = [issued EXCEPT ![v] = n] /\ n = issued[v] + 1
  BY <1>1
<1> HIDE DEF n
<1>4. c \in Calls /\ c.pc = "waiting" /\ c.id = n /\ c.of = 0
  BY <1>3, CallRecords
<1>5. r \in Requests /\ r.kind = "join" /\ r.id = n
  BY <1>3 DEF Requests
<1> HIDE DEF c, r
<1>6. Append(toHost[v], r) \in Seq(Requests)
  BY <1>0, <1>5
<1>7. issued'[v] = n /\ call'[v] = c /\ \A w \in Viewers : w # v =>
        call'[w] = call[w] /\ issued'[w] = issued[w] /\ toHost'[w] = toHost[w]
  BY <1>0, <1>2, <1>3 DEF SeatsT, ToHostT
<1>8. SeatsT' /\ ToHostT'
  BY <1>0, <1>2, <1>3, <1>4, <1>6 DEF SeatsT, ToHostT, auxVars
<1>9. OtherViewers(v)
  BY <1>2, <1>7 DEF OtherViewers, auxVars
<1>10. \/ conn[v] = "failed" /\ toHost'[v] = toHost[v]
       \/ /\ conn[v] # "failed"
          /\ \E q \in Requests : /\ q.kind = "join" /\ q.id = n /\ toHost'[v] = Append(toHost[v], q)
  BY <1>0, <1>2, <1>5 DEF ToHostT
<1> QED BY <1>2, <1>3, <1>4, <1>7, <1>8, <1>9, <1>10

\* GiveUp.
LEMMA GiveUpEffect ==
    ASSUME RoomTypeOK, NEW v \in Viewers, GiveUp(v)
    PROVE  /\ SeatsT' /\ OtherViewers(v)
           /\ call'[v] = NoCall /\ odd'[v] = odd[v] \cup {"gaveup"}
           /\ UNCHANGED <<roomVars, thread, ender, conn, toHost, toViewer, issued, seat, view,
                          leaving, crossed, ended>>
<1>0. SeatsT
  BY ViewerTypes
<1>1. /\ call' = [call EXCEPT ![v] = NoCall] /\ odd' = [odd EXCEPT ![v] = @ \cup {"gaveup"}]
      /\ UNCHANGED <<roomVars, thread, ender, conn, toHost, toViewer, issued, seat, view,
                     leaving, crossed, ended>>
  BY DEF GiveUp
<1>2. SeatsT'
  BY <1>0, <1>1, CallRecords DEF SeatsT, Odds
<1>3. OtherViewers(v) /\ call'[v] = NoCall /\ odd'[v] = odd[v] \cup {"gaveup"}
  BY <1>0, <1>1 DEF SeatsT, OtherViewers
<1> QED BY <1>1, <1>2, <1>3

\* beginViewer and the swarm session.
LEMMA SeatEffect ==
    ASSUME RoomTypeOK, NEW v \in Viewers, Seat(v)
    PROVE  /\ SeatsT' /\ OtherViewers(v)
           /\ call[v].pc = "seating" /\ call'[v] = NoCall
           /\ seat'[v] = call[v].of /\ view'[v] = call[v].list
           /\ UNCHANGED <<roomVars, thread, ender, conn, toHost, toViewer, issued, leaving, auxVars>>
<1>0. SeatsT /\ call[v].of \in Nat /\ call[v].list \in SUBSET Viewers
  <2>1. SeatsT /\ call[v] \in Calls
    BY ViewerTypes DEF SeatsT
  <2> QED BY <2>1, CallRecords
<1>1. /\ call[v].pc = "seating" /\ call' = [call EXCEPT ![v] = NoCall]
      /\ seat' = [seat EXCEPT ![v] = call[v].of] /\ view' = [view EXCEPT ![v] = call[v].list]
      /\ UNCHANGED <<roomVars, thread, ender, conn, toHost, toViewer, issued, leaving, auxVars>>
  BY DEF Seat
<1>2. SeatsT'
  BY <1>0, <1>1, CallRecords DEF SeatsT, auxVars
<1>3. /\ OtherViewers(v) /\ call'[v] = NoCall /\ seat'[v] = call[v].of /\ view'[v] = call[v].list
  BY <1>0, <1>1 DEF SeatsT, OtherViewers, auxVars
<1> QED BY <1>1, <1>2, <1>3

\* LeaveParty gives up the seat; its message is still to be sent.
LEMMA LeaveEffect ==
    ASSUME RoomTypeOK, NEW v \in Viewers, LeaveParty(v)
    PROVE  /\ SeatsT' /\ OtherViewers(v)
           /\ seat[v] # 0 /\ seat'[v] = 0 /\ leaving'[v] > 0
           /\ UNCHANGED <<roomVars, thread, ender, conn, toHost, toViewer, call, issued, auxVars>>
<1>0. SeatsT /\ leaving[v] \in Nat
  BY ViewerTypes DEF SeatsT
<1> DEFINE n == leaving[v] + 1
<1>1. n \in Nat /\ n > 0
  BY <1>0
<1>2. /\ seat[v] # 0 /\ seat' = [seat EXCEPT ![v] = 0] /\ view' = [view EXCEPT ![v] = {}]
      /\ leaving' = [leaving EXCEPT ![v] = n]
      /\ UNCHANGED <<roomVars, thread, ender, conn, toHost, toViewer, call, issued, auxVars>>
  BY DEF LeaveParty
<1> HIDE DEF n
<1>3. SeatsT'
  BY <1>0, <1>1, <1>2 DEF SeatsT, auxVars
<1>4. OtherViewers(v) /\ seat'[v] = 0 /\ leaving'[v] = n
  BY <1>0, <1>2 DEF SeatsT, OtherViewers, auxVars
<1> QED BY <1>1, <1>2, <1>3, <1>4

\* LeaveParty's message; a JoinParty that began before it has overtaken it.
LEMMA SendLeaveEffect ==
    ASSUME RoomTypeOK, NEW v \in Viewers, SendLeave(v)
    PROVE  /\ SeatsT' /\ ToHostT' /\ OtherViewers(v)
           /\ odd[v] \subseteq odd'[v] /\ odd'[v] \subseteq odd[v] \cup {"overtaken"}
           /\ call[v].pc # "idle" \/ seat[v] # 0 => "overtaken" \in odd'[v]
           /\ \/ conn[v] = "failed" /\ toHost'[v] = toHost[v]
              \/ /\ conn[v] # "failed"
                 /\ \E r \in Requests : r.kind = "leave" /\ toHost'[v] = Append(toHost[v], r)
           /\ UNCHANGED <<roomVars, thread, ender, conn, toViewer, call, issued, seat, view,
                          crossed, ended>>
<1>0. SeatsT /\ ToHostT /\ toHost[v] \in Seq(Requests) /\ leaving[v] \in Nat
  BY ViewerTypes DEF ToHostT, SeatsT
<1> DEFINE n == leaving[v] - 1
           r == [kind |-> "leave", id |-> 0]
<1>1. n \in Nat
  BY <1>0 DEF SendLeave
<1>2. /\ leaving' = [leaving EXCEPT ![v] = n]
      /\ toHost' = IF conn[v] = "failed" THEN toHost ELSE [toHost EXCEPT ![v] = Append(@, r)]
      /\ UNCHANGED <<roomVars, thread, ender, conn, toViewer, call, issued, seat, view,
                     crossed, ended>>
  BY DEF SendLeave, Request
<1>3. odd' = IF call[v].pc = "idle" /\ seat[v] = 0 THEN odd
             ELSE [odd EXCEPT ![v] = @ \cup {"overtaken"}]
  BY DEF SendLeave
<1>4. r \in Requests /\ r.kind = "leave"
  BY DEF Requests
<1> HIDE DEF n, r
<1>5. Append(toHost[v], r) \in Seq(Requests)
  BY <1>0, <1>4
<1>6. /\ odd' \in [Viewers -> SUBSET Odds] /\ \A w \in Viewers : w # v => odd'[w] = odd[w]
      /\ odd[v] \subseteq odd'[v] /\ odd'[v] \subseteq odd[v] \cup {"overtaken"}
      /\ call[v].pc # "idle" \/ seat[v] # 0 => "overtaken" \in odd'[v]
  BY <1>0, <1>3 DEF SeatsT, Odds
<1>7. SeatsT' /\ ToHostT'
  BY <1>0, <1>1, <1>2, <1>5, <1>6 DEF SeatsT, ToHostT
<1>8. OtherViewers(v)
  BY <1>0, <1>2, <1>6 DEF SeatsT, ToHostT, OtherViewers
<1>9. \/ conn[v] = "failed" /\ toHost'[v] = toHost[v]
      \/ /\ conn[v] # "failed"
         /\ \E q \in Requests : q.kind = "leave" /\ toHost'[v] = Append(toHost[v], q)
  BY <1>0, <1>2, <1>4 DEF ToHostT
<1> QED BY <1>2, <1>6, <1>7, <1>8, <1>9

LEMMA MessageFields ==
    ASSUME NEW m \in Messages
    PROVE  /\ m.kind \in {"audience", "welcome", "refused", "ended"}
           /\ m.id \in Nat /\ m.of \in Nat /\ m.list \in SUBSET Viewers
BY DEF Messages

\* A message in the Viewer's read loop: what deliver, OnPartyAudience and
\* OnPartyEnded do with the head of the channel.
LEMMA ReceiveEffect ==
    ASSUME RoomTypeOK, NEW v \in Viewers, Receive(v)
    PROVE  LET m == toViewer[v][1] IN
           /\ SeatsT' /\ ToViewerT' /\ OtherViewers(v)
           /\ conn[v] = "up" /\ toViewer[v] # <<>> /\ toViewer'[v] = Tail(toViewer[v]) /\ m \in Messages
           /\ \/ /\ call[v].pc = "waiting" /\ m.id = call[v].id /\ m.kind = "welcome"
                 /\ call'[v].pc = "seating" /\ call'[v].of = m.of /\ call'[v].list = m.list
              \/ /\ call[v].pc = "waiting" /\ m.id = call[v].id /\ m.kind = "refused"
                 /\ call'[v] = NoCall
              \/ /\ call'[v] = call[v]
                 /\ ~(call[v].pc = "waiting" /\ m.id = call[v].id /\ IsAnswer(m))
           /\ m.kind = "audience" /\ seat[v] # 0 => view'[v] = m.list
           /\ m.kind \notin {"audience", "ended"} => view'[v] = view[v]
           /\ m.kind = "ended" => seat'[v] = 0
           /\ m.kind # "ended" => seat'[v] = seat[v]
           /\ odd[v] \subseteq odd'[v]
           /\ m.kind \in {"audience", "ended"} /\ call[v].pc = "seating" => "raced" \in odd'[v]
           /\ m.kind = "ended" /\ seat[v] \notin {0, m.of} => "misled" \in odd'[v]
           /\ m.kind = "audience" /\ seat[v] \notin {0, m.of} => "mixed" \in odd'[v]
           /\ odd'[v] \subseteq odd[v] \cup {"raced", "misled", "mixed"}
           /\ UNCHANGED <<roomVars, thread, ender, conn, toHost, issued, leaving, crossed, ended>>
<1>0. SeatsT /\ ToViewerT /\ toViewer[v] \in Seq(Messages)
  BY ViewerTypes DEF ToViewerT
<1>1. toViewer[v] # <<>> /\ conn[v] = "up"
  BY DEF Receive
<1>2. /\ Head(toViewer[v]) = toViewer[v][1] /\ Head(toViewer[v]) \in Messages
      /\ Tail(toViewer[v]) \in Seq(Messages)
  BY <1>0, <1>1, Taken
<1> DEFINE m == toViewer[v][1]
           forCall == m.id = call[v].id /\ call[v].pc = "waiting"
           more == (IF m.kind \in {"audience", "ended"} /\ call[v].pc = "seating" THEN {"raced"} ELSE {})
                   \cup (IF m.kind = "ended" /\ seat[v] \notin {0, m.of} THEN {"misled"} ELSE {})
                   \cup (IF m.kind = "audience" /\ seat[v] \notin {0, m.of} THEN {"mixed"} ELSE {})
<1>3. /\ toViewer' = [toViewer EXCEPT ![v] = Tail(@)]
      /\ call' = CASE forCall /\ m.kind = "welcome" ->
                        [call EXCEPT ![v] = [@ EXCEPT !.pc = "seating", !.of = m.of, !.list = m.list]]
                   [] forCall /\ m.kind = "refused" -> [call EXCEPT ![v] = NoCall]
                   [] OTHER -> call
      /\ view' = CASE m.kind = "audience" /\ seat[v] # 0 -> [view EXCEPT ![v] = m.list]
                   [] m.kind = "ended" -> [view EXCEPT ![v] = {}]
                   [] OTHER -> view
      /\ seat' = IF m.kind = "ended" THEN [seat EXCEPT ![v] = 0] ELSE seat
      /\ UNCHANGED <<roomVars, thread, ender, conn, toHost, issued, leaving, crossed, ended>>
  BY <1>2 DEF Receive
<1>4. odd' = [odd EXCEPT ![v] = @ \cup more]
  BY <1>2 DEF Receive
<1>5. more \subseteq {"raced", "misled", "mixed"}
  OBVIOUS
<1>6. /\ m.kind \in {"audience", "ended"} /\ call[v].pc = "seating" => "raced" \in more
      /\ m.kind = "ended" /\ seat[v] \notin {0, m.of} => "misled" \in more
      /\ m.kind = "audience" /\ seat[v] \notin {0, m.of} => "mixed" \in more
  OBVIOUS
<1> HIDE DEF more
<1>7. m \in Messages
  BY <1>2
<1> HIDE DEF m
<1>8. /\ m.kind \in {"audience", "welcome", "refused", "ended"}
      /\ m.of \in Nat /\ m.list \in SUBSET Viewers
  BY <1>7, MessageFields
<1>9. /\ call' \in [Viewers -> Calls] /\ \A w \in Viewers : w # v => call'[w] = call[w]
      /\ \/ /\ forCall /\ m.kind = "welcome"
            /\ call'[v].pc = "seating" /\ call'[v].of = m.of /\ call'[v].list = m.list
         \/ forCall /\ m.kind = "refused" /\ call'[v] = NoCall
         \/ call'[v] = call[v] /\ ~(forCall /\ IsAnswer(m))
  <2>0. call \in [Viewers -> Calls] /\ call[v] \in Calls
    BY <1>0 DEF SeatsT
  <2>1. CASE forCall /\ m.kind = "welcome"
    <3> DEFINE o == m.of
               l == m.list
               c == [call[v] EXCEPT !.pc = "seating", !.of = o, !.list = l]
    <3>1. call' = [call EXCEPT ![v] = c]
      BY <1>3, <2>1
    <3>2. o \in Nat /\ l \in SUBSET Viewers
      BY <1>8
    <3> HIDE DEF o, l
    <3>3. c \in Calls /\ c.pc = "seating" /\ c.of = o /\ c.list = l
      BY <2>0, <3>2 DEF Calls
    <3> HIDE DEF c
    <3>4. call' \in [Viewers -> Calls] /\ call'[v] = c /\ \A w \in Viewers : w # v => call'[w] = call[w]
      BY <2>0, <3>1, <3>3
    <3> QED BY <2>1, <3>3, <3>4 DEF o, l
  <2>2. CASE forCall /\ m.kind = "refused"
    <3>1. call' = [call EXCEPT ![v] = NoCall]
      BY <1>3, <2>2
    <3> QED BY <2>0, <2>2, <3>1, CallRecords
  <2>3. CASE ~(forCall /\ m.kind \in {"welcome", "refused"})
    <3>1. call' = call
      BY <1>3, <2>3
    <3> QED BY <2>0, <2>3, <3>1 DEF IsAnswer
  <2> QED BY <2>1, <2>2, <2>3
<1>10. /\ view' \in [Viewers -> SUBSET Viewers] /\ \A w \in Viewers : w # v => view'[w] = view[w]
       /\ m.kind = "audience" /\ seat[v] # 0 => view'[v] = m.list
       /\ m.kind \notin {"audience", "ended"} => view'[v] = view[v]
  <2>0. view \in [Viewers -> SUBSET Viewers]
    BY <1>0 DEF SeatsT
  <2>1. CASE m.kind = "audience" /\ seat[v] # 0
    <3>1. view' = [view EXCEPT ![v] = m.list]
      BY <1>3, <2>1
    <3> QED BY <2>0, <2>1, <3>1, <1>8
  <2>2. CASE m.kind = "ended"
    <3>1. view' = [view EXCEPT ![v] = {}]
      BY <1>3, <2>2
    <3> QED BY <2>0, <2>2, <3>1
  <2>3. CASE ~(m.kind = "audience" /\ seat[v] # 0) /\ m.kind # "ended"
    <3>1. view' = view
      BY <1>3, <2>3
    <3> QED BY <2>0, <2>3, <3>1
  <2> QED BY <2>1, <2>2, <2>3
<1>11. /\ seat' \in [Viewers -> Nat] /\ \A w \in Viewers : w # v => seat'[w] = seat[w]
       /\ m.kind = "ended" => seat'[v] = 0
       /\ m.kind # "ended" => seat'[v] = seat[v]
  BY <1>0, <1>3 DEF SeatsT
<1>12. /\ odd' \in [Viewers -> SUBSET Odds] /\ odd'[v] = odd[v] \cup more
       /\ \A w \in Viewers : w # v => odd'[w] = odd[w]
  BY <1>0, <1>4, <1>5 DEF SeatsT, Odds
<1>13. /\ ToViewerT' /\ toViewer'[v] = Tail(toViewer[v])
       /\ \A w \in Viewers : w # v => toViewer'[w] = toViewer[w]
  BY <1>0, <1>2, <1>3 DEF ToViewerT
<1>14. SeatsT'
  BY <1>0, <1>3, <1>9, <1>10, <1>11, <1>12 DEF SeatsT
<1>15. OtherViewers(v)
  BY <1>3, <1>9, <1>10, <1>11, <1>12, <1>13 DEF OtherViewers
<1>16. /\ odd[v] \subseteq odd'[v]
       /\ m.kind \in {"audience", "ended"} /\ call[v].pc = "seating" => "raced" \in odd'[v]
       /\ m.kind = "ended" /\ seat[v] \notin {0, m.of} => "misled" \in odd'[v]
       /\ m.kind = "audience" /\ seat[v] \notin {0, m.of} => "mixed" \in odd'[v]
       /\ odd'[v] \subseteq odd[v] \cup {"raced", "misled", "mixed"}
  BY <1>5, <1>6, <1>12
<1>17. UNCHANGED <<roomVars, thread, ender, conn, toHost, issued, leaving, crossed, ended>>
  BY <1>3
<1> QED BY <1>1, <1>7, <1>9, <1>10, <1>11, <1>13, <1>14, <1>15, <1>16, <1>17 DEF m

Conns == {"up", "disconnected", "failed"}
ConnT == conn \in [Viewers -> Conns]

\* A read loop takes a request.
LEMMA RequestTaken ==
    ASSUME RoomTypeOK, NEW v \in Viewers, OnJoinParty(v) \/ LeaveArrives(v)
    PROVE  /\ ToHostT' /\ toHost[v] # <<>> /\ toHost'[v] = Tail(toHost[v])
           /\ \A w \in Viewers : w # v => toHost'[w] = toHost[w]
           /\ toHost[v][1] \in Requests
           /\ OnJoinParty(v) => toHost[v][1].kind = "join"
           /\ LeaveArrives(v) => toHost[v][1].kind = "leave" /\ UNCHANGED toViewer
           /\ conn[v] # "failed" /\ thread[<<v, "read">>].pc = "idle"
           /\ UNCHANGED <<conn, odd>>
<1>0. ToHostT /\ toHost[v] \in Seq(Requests)
  BY ViewerTypes DEF ToHostT
<1>1. /\ toHost[v] # <<>> /\ toHost' = [toHost EXCEPT ![v] = Tail(@)]
      /\ OnJoinParty(v) => Head(toHost[v]).kind = "join"
      /\ LeaveArrives(v) => Head(toHost[v]).kind = "leave" /\ UNCHANGED toViewer
      /\ conn[v] # "failed" /\ thread[<<v, "read">>].pc = "idle"
      /\ UNCHANGED <<conn, odd>>
  BY DEF OnJoinParty, LeaveArrives, auxVars
<1>2. Head(toHost[v]) = toHost[v][1] /\ Head(toHost[v]) \in Requests /\ Tail(toHost[v]) \in Seq(Requests)
  BY <1>0, <1>1, Taken
<1>3. /\ ToHostT' /\ toHost'[v] = Tail(toHost[v])
      /\ \A w \in Viewers : w # v => toHost'[w] = toHost[w]
  BY <1>0, <1>1, <1>2 DEF ToHostT
<1> QED BY <1>1, <1>2, <1>3

\* The connection's states.
LEMMA ConnEffect ==
    ASSUME RoomTypeOK, NEW v \in Viewers
    PROVE  /\ Disconnect(v) =>
                /\ ConnT' /\ conn[v] = "up" /\ conn'[v] = "disconnected"
                /\ \A w \in Viewers : w # v => conn'[w] = conn[w] /\ odd'[w] = odd[w]
                /\ odd'[v] = odd[v] \cup {"dropped"}
                /\ thread[<<v, "state">>].pc = "idle" /\ OnLeaveParty(<<v, "state">>)
                /\ UNCHANGED <<toHost, toViewer>>
           /\ Reconnect(v) =>
                /\ ConnT' /\ conn[v] = "disconnected" /\ conn'[v] = "up"
                /\ \A w \in Viewers : w # v => conn'[w] = conn[w]
                /\ UNCHANGED <<toHost, toViewer, odd, thread>>
           /\ Fail(v) =>
                /\ ConnT' /\ conn[v] = "disconnected" /\ conn'[v] = "failed"
                /\ ToHostT' /\ ToViewerT' /\ toHost'[v] = <<>> /\ toViewer'[v] = <<>>
                /\ \A w \in Viewers : w # v =>
                     conn'[w] = conn[w] /\ toHost'[w] = toHost[w] /\ toViewer'[w] = toViewer[w]
                /\ thread[<<v, "read">>].pc = "idle"
                /\ thread[<<v, "state">>].pc = "idle" /\ OnLeaveParty(<<v, "state">>)
                /\ UNCHANGED odd
<1>0. ToHostT /\ ToViewerT /\ ConnT /\ odd \in [Viewers -> SUBSET Odds]
  BY ViewerTypes DEF ConnT, Conns, RoomTypeOK, Odds
<1>1. Disconnect(v) =>
        /\ ConnT' /\ conn[v] = "up" /\ conn'[v] = "disconnected"
        /\ \A w \in Viewers : w # v => conn'[w] = conn[w] /\ odd'[w] = odd[w]
        /\ odd'[v] = odd[v] \cup {"dropped"}
        /\ thread[<<v, "state">>].pc = "idle" /\ OnLeaveParty(<<v, "state">>)
        /\ UNCHANGED <<toHost, toViewer>>
  BY <1>0 DEF Disconnect, ConnT, Conns
<1>2. Reconnect(v) =>
        /\ ConnT' /\ conn[v] = "disconnected" /\ conn'[v] = "up"
        /\ \A w \in Viewers : w # v => conn'[w] = conn[w]
        /\ UNCHANGED <<toHost, toViewer, odd, thread>>
  BY <1>0 DEF Reconnect, ConnT, Conns, auxVars
<1>3. Fail(v) =>
        /\ ConnT' /\ conn[v] = "disconnected" /\ conn'[v] = "failed"
        /\ ToHostT' /\ ToViewerT' /\ toHost'[v] = <<>> /\ toViewer'[v] = <<>>
        /\ \A w \in Viewers : w # v =>
             conn'[w] = conn[w] /\ toHost'[w] = toHost[w] /\ toViewer'[w] = toViewer[w]
        /\ thread[<<v, "read">>].pc = "idle"
        /\ thread[<<v, "state">>].pc = "idle" /\ OnLeaveParty(<<v, "state">>)
        /\ UNCHANGED odd
  BY <1>0 DEF Fail, ConnT, Conns, ToHostT, ToViewerT, auxVars, Reported
<1> QED BY <1>1, <1>2, <1>3

\* Reply marks a Viewer whose welcome leaves for a party that is not live.
LEMMA ReplyMarks ==
    ASSUME RoomTypeOK, NEW t \in Threads, Reply(t)
    PROVE  /\ odd' \in [Viewers -> SUBSET Odds]
           /\ odd'[t[1]] = IF host = thread[t].of THEN odd[t[1]] ELSE odd[t[1]] \cup {"late"}
           /\ \A w \in Viewers : w # t[1] => odd'[w] = odd[w]
<1>0. odd \in [Viewers -> SUBSET Odds] /\ t[1] \in Viewers
  BY ViewerTypes, ThreadNames DEF SeatsT
<1>1. odd' = IF host = thread[t].of THEN odd ELSE [odd EXCEPT ![t[1]] = @ \cup {"late"}]
  BY DEF Reply
<1> QED BY <1>0, <1>1 DEF Odds

\* The owner's steps change nothing of a Viewer's but its incoming channel.
LEMMA OwnerFrame ==
    OwnerMoves => /\ UNCHANGED <<thread, conn, toHost, call, issued, seat, view, leaving,
                                crossed, odd>>
                  /\ UNCHANGED toViewer \/ \E v \in Viewers : EnderSend(v)
BY DEF OwnerMoves, StartParty, EndParty, EnderMembers, EnderSend, Approve, viewerVars, auxVars

LEMMA ViewerStep ==
    ASSUME RoomTypeOK, [RoomNext]_hostRoomVars
    PROVE  SeatsT' /\ ToHostT' /\ ToViewerT' /\ ConnT'
<1>0. SeatsT /\ ToHostT /\ ToViewerT /\ ConnT
  BY ViewerTypes DEF ConnT, Conns, RoomTypeOK
<1>u. /\ UNCHANGED <<call, issued, seat, view, leaving, odd>> => SeatsT'
      /\ UNCHANGED toHost => ToHostT'
      /\ UNCHANGED toViewer => ToViewerT'
      /\ UNCHANGED conn => ConnT'
  BY <1>0 DEF SeatsT, ToHostT, ToViewerT, ConnT
<1>1. CASE OwnerMoves
  <2>1. ToViewerT'
    BY <1>1, <1>u, OwnerFrame, WhatIsSent DEF ToViewerT
  <2> QED BY <1>1, <1>u, <2>1, OwnerFrame
<1>2. ASSUME NEW v \in Viewers, HandlerBegins(v) \/ Reconnect(v)
      PROVE  SeatsT' /\ ToHostT' /\ ToViewerT' /\ ConnT'
  <2>0. UNCHANGED <<call, issued, seat, view, leaving>>
    BY <1>2, HandlerFrame
  <2>1. CASE OnJoinParty(v)
    <3>1. ToViewerT'
      BY <2>1, <1>u, WhatIsSent DEF ToViewerT, OnJoinParty
    <3> QED BY <2>0, <2>1, <3>1, <1>u, RequestTaken
  <2>2. CASE LeaveArrives(v)
    BY <2>0, <2>2, <1>u, RequestTaken
  <2>3. CASE Disconnect(v)
    <3>1. odd' \in [Viewers -> SUBSET Odds]
      BY <1>0, <2>3 DEF Disconnect, SeatsT, Odds
    <3>2. SeatsT'
      BY <1>0, <2>0, <3>1 DEF SeatsT
    <3> QED BY <2>3, <3>2, <1>u, ConnEffect
  <2>4. CASE Fail(v)
    BY <2>0, <2>4, <1>u, ConnEffect
  <2>5. CASE Reconnect(v)
    BY <2>0, <2>5, <1>u, ConnEffect
  <2> QED BY <1>2, <2>1, <2>2, <2>3, <2>4, <2>5 DEF HandlerBegins
<1>3. ASSUME NEW v \in Viewers, ViewerMoves(v)
      PROVE  SeatsT' /\ ToHostT' /\ ToViewerT' /\ ConnT'
  <2>1. CASE Joins(v)
    BY <2>1, <1>u, JoinEffect
  <2>2. CASE GiveUp(v)
    BY <2>2, <1>u, GiveUpEffect
  <2>3. CASE Seat(v)
    BY <2>3, <1>u, SeatEffect
  <2>4. CASE LeaveParty(v)
    BY <2>4, <1>u, LeaveEffect
  <2>5. CASE Receive(v)
    BY <2>5, <1>u, ReceiveEffect
  <2>6. CASE SendLeave(v)
    BY <2>6, <1>u, SendLeaveEffect
  <2> QED BY <1>3, <2>1, <2>2, <2>3, <2>4, <2>5, <2>6 DEF ViewerMoves
<1>4. ASSUME NEW t \in Threads, HandlerMoves(t)
      PROVE  SeatsT' /\ ToHostT' /\ ToViewerT' /\ ConnT'
  <2>0. UNCHANGED <<conn, toHost, call, issued, seat, view, leaving>>
    BY <1>4, HandlerFrame
  <2>1. ToViewerT'
    BY <1>4, <1>u, HandlerFrame, WhatIsSent DEF ToViewerT
  <2>2. odd' \in [Viewers -> SUBSET Odds]
    BY <1>0, <1>4, HandlerFrame, ReplyMarks DEF SeatsT
  <2>3. SeatsT'
    BY <1>0, <2>0, <2>2 DEF SeatsT
  <2> QED BY <1>u, <2>0, <2>1, <2>3
<1>5. CASE UNCHANGED hostRoomVars
  BY <1>5, <1>u DEF hostRoomVars, viewerVars, auxVars
<1> QED BY <1>1, <1>2, <1>3, <1>4, <1>5, RoomMoves

\* A party that ended stays ended, and only EndParty ends one.
LEMMA EndedGrows ==
    ASSUME [RoomNext]_hostRoomVars
    PROVE  UNCHANGED ended \/ EndParty
<1>1. CASE OwnerMoves
  BY <1>1 DEF OwnerMoves, StartParty, EnderMembers, EnderSend, Approve, auxVars
<1>2. ASSUME NEW v \in Viewers, ViewerMoves(v) PROVE UNCHANGED ended
  BY <1>2 DEF ViewerMoves, Joins, JoinParty, GiveUp, Seat, LeaveParty, SendLeave, Receive, auxVars
<1>3. CASE UNCHANGED hostRoomVars
  BY <1>3 DEF hostRoomVars, auxVars
<1> QED BY <1>1, <1>2, <1>3, RoomMoves, HandlerFrame

\* Message m is of one of n parties, and an end is of one of those that ended.
MessageOf(m, n, e) == m.of \in 0..n /\ (m.kind = "ended" => m.of \in e)

\* Seats, calls and messages are of parties that were started.
SeatsStarted ==
    \A v \in Viewers :
        /\ seat[v] \in 0..started
        /\ call[v].of \in 0..started
        /\ \A i \in DOMAIN toViewer[v] : MessageOf(toViewer[v][i], started, ended)

LEMMA StartedParts ==
    OnlyStarted /\ RoomTypeOK <=> RoomTypeOK /\ PartiesOK /\ HoldsStarted /\ SeatsStarted
BY DEF OnlyStarted, RoomTypeOK, PartiesOK, HoldsStarted, SeatsStarted, MessageOf

\* A message posted, one received, and a channel lost: what holds of each message
\* and of the new one holds of the channel.
LEMMA QueueStep ==
    ASSUME RoomTypeOK, [RoomNext]_hostRoomVars, NEW w \in Viewers
    PROVE  \/ toViewer'[w] = toViewer[w]
           \/ toViewer'[w] = <<>> /\ conn'[w] = "failed" /\ Fail(w)
           \/ /\ Receive(w) /\ toViewer[w] \in Seq(Messages) /\ toViewer[w] # <<>>
              /\ toViewer'[w] = Tail(toViewer[w])
           \/ \E m \in Messages :
                /\ conn[w] # "failed" /\ toViewer[w] \in Seq(Messages)
                /\ toViewer'[w] = Append(toViewer[w], m)
                /\ \/ EnderSend(w) /\ m.kind = "ended" /\ m.of = ender.of
                   \/ \E t \in Threads : /\ SendAudience(t, w) /\ m.kind = "audience"
                                         /\ m.of = thread[t].of /\ m.list = thread[t].list
                   \/ \E t \in Threads : /\ Reply(t) /\ t[1] = w /\ m.kind = "welcome"
                                         /\ m.of = thread[t].of /\ m.id = thread[t].id
                                         /\ m.list = thread[t].list
                   \/ /\ OnJoinParty(w) /\ ~Admits(w) /\ m.kind = "refused"
                      /\ m.id = toHost[w][1].id /\ m.of = 0
<1>0. toViewer[w] \in Seq(Messages)
  BY DEF RoomTypeOK
<1> DEFINE Other == toViewer'[w] = toViewer[w]
<1>1. ASSUME NEW v \in Viewers, EnderSend(v)
      PROVE  \/ Other
             \/ \E m \in Messages : /\ conn[w] # "failed" /\ toViewer'[w] = Append(toViewer[w], m)
                                    /\ EnderSend(w) /\ m.kind = "ended" /\ m.of = ender.of
  <2>1. PICK m \in Messages : m.kind = "ended" /\ m.of = ender.of /\ Posts(v, m)
    BY <1>1, WhatIsSent
  <2> QED BY <1>1, <2>1 DEF Posts
<1>2. ASSUME NEW t \in Threads, NEW v \in Viewers, SendAudience(t, v)
      PROVE  \/ Other
             \/ \E m \in Messages : /\ conn[w] # "failed" /\ toViewer'[w] = Append(toViewer[w], m)
                                    /\ SendAudience(t, w) /\ m.kind = "audience"
                                    /\ m.of = thread[t].of /\ m.list = thread[t].list
  <2>1. PICK m \in Messages : /\ m.kind = "audience" /\ m.of = thread[t].of
                              /\ m.list = thread[t].list /\ Posts(v, m)
    BY <1>2, WhatIsSent
  <2> QED BY <1>2, <2>1 DEF Posts
<1>3. ASSUME NEW t \in Threads, Reply(t)
      PROVE  \/ Other
             \/ \E m \in Messages : /\ conn[w] # "failed" /\ toViewer'[w] = Append(toViewer[w], m)
                                    /\ t[1] = w /\ m.kind = "welcome"
                                    /\ m.of = thread[t].of /\ m.id = thread[t].id
                                    /\ m.list = thread[t].list
  <2>1. PICK m \in Messages : /\ m.kind = "welcome" /\ m.of = thread[t].of /\ m.id = thread[t].id
                              /\ m.list = thread[t].list /\ Posts(t[1], m)
    BY <1>3, WhatIsSent
  <2> QED BY <1>3, <2>1 DEF Posts
<1>4. ASSUME NEW v \in Viewers, OnJoinParty(v), ~Admits(v)
      PROVE  \/ Other
             \/ \E m \in Messages : /\ conn[w] # "failed" /\ toViewer'[w] = Append(toViewer[w], m)
                                    /\ OnJoinParty(w) /\ ~Admits(w) /\ m.kind = "refused"
                                    /\ m.id = toHost[w][1].id /\ m.of = 0
  <2>1. PICK m \in Messages : /\ m.kind = "refused" /\ m.id = toHost[v][1].id /\ m.of = 0
                              /\ Posts(v, m)
    BY <1>4, WhatIsSent
  <2> QED BY <1>4, <2>1 DEF Posts
<1>5. ASSUME NEW v \in Viewers, Receive(v)
      PROVE  Other \/ (Receive(w) /\ toViewer[w] # <<>> /\ toViewer'[w] = Tail(toViewer[w]))
  BY <1>5, ReceiveEffect DEF OtherViewers
<1>6. ASSUME NEW v \in Viewers, Fail(v)
      PROVE  Other \/ (toViewer'[w] = <<>> /\ conn'[w] = "failed" /\ Fail(w))
  BY <1>6, ConnEffect
<1>7. UNCHANGED toViewer => Other
  OBVIOUS
<1> HIDE DEF Other
<1> QED BY <1>0, <1>1, <1>2, <1>3, <1>4, <1>5, <1>6, <1>7, ViewerChannel DEF Other

\* Who changes what a Viewer keeps: only its own steps.
LEMMA KeepsFrame ==
    ASSUME RoomTypeOK, [RoomNext]_hostRoomVars, NEW w \in Viewers
    PROVE  \/ ViewerMoves(w)
           \/ /\ call'[w] = call[w] /\ issued'[w] = issued[w] /\ seat'[w] = seat[w]
              /\ view'[w] = view[w] /\ leaving'[w] = leaving[w]
<1>1. CASE OwnerMoves
  BY <1>1, OwnerFrame
<1>2. ASSUME NEW v \in Viewers, HandlerBegins(v) \/ Reconnect(v)
      PROVE  UNCHANGED <<call, issued, seat, view, leaving>>
  BY <1>2, HandlerFrame
<1>3. ASSUME NEW t \in Threads, HandlerMoves(t)
      PROVE  UNCHANGED <<call, issued, seat, view, leaving>>
  BY <1>3, HandlerFrame
<1>4. ASSUME NEW v \in Viewers, ViewerMoves(v)
      PROVE  v = w \/ OtherViewers(v)
  BY <1>4, JoinEffect, GiveUpEffect, SeatEffect, LeaveEffect, SendLeaveEffect, ReceiveEffect DEF ViewerMoves
<1>5. CASE UNCHANGED hostRoomVars
  BY <1>5 DEF hostRoomVars, viewerVars
<1> QED BY <1>1, <1>2, <1>3, <1>4, <1>5, RoomMoves DEF OtherViewers

LEMMA SeatsStep ==
    ASSUME RoomTypeOK, OnlyStarted, [RoomNext]_hostRoomVars
    PROVE  SeatsStarted'
<1>0. SeatsStarted /\ PartiesOK /\ HoldsStarted
  BY StartedParts
<1>s. /\ started \in Nat /\ started' \in Nat /\ started <= started'
      /\ 0..started \subseteq 0..started' /\ 0 \in 0..started'
  <2>1. started \in Nat /\ started' \in Nat /\ started <= started'
    BY StartedGrows
  <2> QED BY <2>1
<1>e. ended \subseteq ended' /\ ended \subseteq 0..started
  <2>1. ended \subseteq ended'
    BY EndedGrows DEF EndParty
  <2>2. ended \subseteq 1..started
    BY <1>0 DEF PartiesOK
  <2> QED BY <2>1, <2>2, <1>s
<1>g. \A m : MessageOf(m, started, ended) => MessageOf(m, started', ended')
  BY <1>s, <1>e DEF MessageOf
<1> SUFFICES ASSUME NEW w \in Viewers
             PROVE  /\ seat'[w] \in 0..started'
                    /\ call'[w].of \in 0..started'
                    /\ \A i \in DOMAIN toViewer'[w] : MessageOf(toViewer'[w][i], started', ended')
  BY DEF SeatsStarted
<1>w. /\ seat[w] \in 0..started /\ call[w].of \in 0..started
      /\ \A i \in DOMAIN toViewer[w] : MessageOf(toViewer[w][i], started, ended)
  BY <1>0 DEF SeatsStarted
<1>1. \A i \in DOMAIN toViewer'[w] : MessageOf(toViewer'[w][i], started', ended')
  <2>1. CASE toViewer'[w] = toViewer[w]
    BY <2>1, <1>w, <1>g
  <2>2. CASE toViewer'[w] = <<>>
    BY <2>2
  <2>3. CASE toViewer[w] \in Seq(Messages) /\ toViewer[w] # <<>> /\ toViewer'[w] = Tail(toViewer[w])
    <3>1. \A i \in DOMAIN toViewer'[w] : i + 1 \in DOMAIN toViewer[w]
                                         /\ toViewer'[w][i] = toViewer[w][i + 1]
      BY <2>3, Taken
    <3> QED BY <3>1, <1>w, <1>g
  <2>4. ASSUME NEW m \in Messages, toViewer[w] \in Seq(Messages), MessageOf(m, started, ended),
               toViewer'[w] = Append(toViewer[w], m)
        PROVE  \A i \in DOMAIN toViewer'[w] : MessageOf(toViewer'[w][i], started', ended')
    <3>1. \A i \in DOMAIN toViewer'[w] :
            toViewer'[w][i] = m \/ (i \in DOMAIN toViewer[w] /\ toViewer'[w][i] = toViewer[w][i])
      BY <2>4, Sent
    <3> QED BY <2>4, <3>1, <1>w, <1>g
  <2>5. EnderSend(w) => ender.of \in ended
    BY <1>0 DEF EnderSend, PartiesOK
  <2>6. \A t \in Threads : SendAudience(t, w) \/ Reply(t) => thread[t].of \in 0..started
    <3>1. \A t \in Threads : SendAudience(t, w) \/ Reply(t) => thread[t].of \in 1..started
      BY <1>0 DEF HoldsStarted, SendAudience, Reply
    <3> QED BY <3>1, <1>s
  <2>7. 0 \in 0..started
    BY <1>s
  <2>8. ASSUME NEW m \in Messages,
               \/ EnderSend(w) /\ m.kind = "ended" /\ m.of = ender.of
               \/ \E t \in Threads : SendAudience(t, w) /\ m.kind = "audience" /\ m.of = thread[t].of
               \/ \E t \in Threads : Reply(t) /\ m.kind = "welcome" /\ m.of = thread[t].of
               \/ m.kind = "refused" /\ m.of = 0
        PROVE  MessageOf(m, started, ended)
    BY <2>5, <2>6, <2>7, <2>8, <1>e DEF MessageOf
  <2> QED BY <2>1, <2>2, <2>3, <2>4, <2>8, QueueStep
<1>2. seat'[w] \in 0..started' /\ call'[w].of \in 0..started'
  <2>0. NoCall.of = 0
    BY CallRecords
  <2>1. CASE Joins(w)
    BY <2>1, <1>w, <1>s, JoinEffect
  <2>2. CASE GiveUp(w)
    BY <2>0, <2>2, <1>w, <1>s, GiveUpEffect
  <2>3. CASE Seat(w)
    BY <2>0, <2>3, <1>w, <1>s, SeatEffect
  <2>4. CASE LeaveParty(w) \/ SendLeave(w)
    BY <2>4, <1>w, <1>s, LeaveEffect, SendLeaveEffect
  <2>5. CASE Receive(w)
    <3>1. LET m == toViewer[w][1] IN
          /\ toViewer[w] # <<>>
          /\ call'[w].of = m.of \/ call'[w] = NoCall \/ call'[w] = call[w]
          /\ seat'[w] = 0 \/ seat'[w] = seat[w]
      BY <2>5, ReceiveEffect
    <3>2. toViewer[w] \in Seq(Messages)
      BY DEF RoomTypeOK
    <3>3. 1 \in DOMAIN toViewer[w]
      BY <3>1, <3>2, Taken
    <3>4. toViewer[w][1].of \in 0..started
      BY <3>3, <1>w DEF MessageOf
    <3> QED BY <2>0, <3>1, <3>4, <1>w, <1>s
  <2>6. CASE ~ViewerMoves(w)
    BY <2>6, <1>w, <1>s, KeepsFrame
  <2> QED BY <2>1, <2>2, <2>3, <2>4, <2>5, <2>6 DEF ViewerMoves
<1> QED BY <1>1, <1>2

-----------------------------------------------------------------------------
\* HostRoom: which step changes what

\* The marks of a Viewer's races stay.
LEMMA OddGrows ==
    ASSUME RoomTypeOK, [RoomNext]_hostRoomVars, NEW w \in Viewers
    PROVE  odd[w] \subseteq odd'[w]
<1>1. CASE OwnerMoves
  BY <1>1, OwnerFrame
<1>2. ASSUME NEW v \in Viewers, HandlerBegins(v) \/ Reconnect(v)
      PROVE  odd[w] \subseteq odd'[w]
  <2>1. CASE OnJoinParty(v) \/ LeaveArrives(v)
    BY <2>1, RequestTaken
  <2>2. CASE Disconnect(v)
    BY <2>2, ConnEffect
  <2>3. CASE Reconnect(v) \/ Fail(v)
    BY <2>3, ConnEffect
  <2> QED BY <1>2, <2>1, <2>2, <2>3 DEF HandlerBegins
<1>3. ASSUME NEW t \in Threads, HandlerMoves(t)
      PROVE  odd[w] \subseteq odd'[w]
  <2>1. CASE Reply(t)
    BY <2>1, ReplyMarks
  <2> QED BY <1>3, <2>1, HandlerFrame
<1>4. ASSUME NEW v \in Viewers, ViewerMoves(v)
      PROVE  odd[w] \subseteq odd'[w]
  <2>1. CASE Joins(v)
    BY <2>1, JoinEffect DEF auxVars
  <2>2. CASE GiveUp(v)
    BY <2>2, GiveUpEffect DEF OtherViewers
  <2>3. CASE Seat(v)
    BY <2>3, SeatEffect DEF auxVars
  <2>4. CASE LeaveParty(v)
    BY <2>4, LeaveEffect DEF auxVars
  <2>5. CASE SendLeave(v)
    BY <2>5, SendLeaveEffect DEF OtherViewers
  <2>6. CASE Receive(v)
    BY <2>6, ReceiveEffect DEF OtherViewers
  <2> QED BY <1>4, <2>1, <2>2, <2>3, <2>4, <2>5, <2>6 DEF ViewerMoves
<1>5. CASE UNCHANGED hostRoomVars
  BY <1>5 DEF hostRoomVars, auxVars
<1> QED BY <1>1, <1>2, <1>3, <1>4, <1>5, RoomMoves

\* The connection of a Viewer changes only by its own state changes.
LEMMA ConnMoves ==
    ASSUME RoomTypeOK, [RoomNext]_hostRoomVars, NEW w \in Viewers
    PROVE  conn'[w] = conn[w] \/ Disconnect(w) \/ Reconnect(w) \/ Fail(w)
<1>1. CASE OwnerMoves
  BY <1>1, OwnerFrame
<1>2. ASSUME NEW v \in Viewers, HandlerBegins(v) \/ Reconnect(v)
      PROVE  conn'[w] = conn[w] \/ Disconnect(w) \/ Reconnect(w) \/ Fail(w)
  <2>1. CASE OnJoinParty(v) \/ LeaveArrives(v)
    BY <2>1, RequestTaken
  <2>2. CASE Disconnect(v) \/ Reconnect(v) \/ Fail(v)
    BY <2>2, ConnEffect
  <2> QED BY <1>2, <2>1, <2>2 DEF HandlerBegins
<1>3. ASSUME NEW t \in Threads, HandlerMoves(t)
      PROVE  UNCHANGED conn
  BY <1>3, HandlerFrame
<1>4. ASSUME NEW v \in Viewers, ViewerMoves(v)
      PROVE  UNCHANGED conn
  BY <1>4, JoinEffect, GiveUpEffect, SeatEffect, LeaveEffect, SendLeaveEffect, ReceiveEffect DEF ViewerMoves
<1>5. CASE UNCHANGED hostRoomVars
  BY <1>5 DEF hostRoomVars
<1> QED BY <1>1, <1>2, <1>3, <1>4, <1>5, RoomMoves

\* A goroutine is started by its own session, and moves by its own steps.
LEMMA ThreadMoves ==
    ASSUME RoomTypeOK, [RoomNext]_hostRoomVars, NEW w \in Viewers
    PROVE  LET r == <<w, "read">>
               s == <<w, "state">>
           IN
           /\ \/ thread'[r] = thread[r]
              \/ HandlerMoves(r)
              \/ OnJoinParty(w) /\ Admits(w)
              \/ LeaveArrives(w)
           /\ \/ thread'[s] = thread[s]
              \/ HandlerMoves(s)
              \/ Disconnect(w)
              \/ Fail(w)
<1> DEFINE r == <<w, "read">>
           s == <<w, "state">>
           R == thread'[r] = thread[r] \/ HandlerMoves(r) \/ (OnJoinParty(w) /\ Admits(w)) \/ LeaveArrives(w)
           S == thread'[s] = thread[s] \/ HandlerMoves(s) \/ Disconnect(w) \/ Fail(w)
<1>0. r \in Threads /\ s \in Threads /\ r # s
  BY ThreadNames
<1>v. \A v \in Viewers : /\ <<v, "read">> \in Threads /\ <<v, "state">> \in Threads
                         /\ v # w => <<v, "read">> # r
                         /\ v # w => <<v, "state">> # s
                         /\ <<v, "read">> # s /\ <<v, "state">> # r
  BY ThreadNames
<1> HIDE DEF r, s
<1>1. ASSUME OwnerMoves PROVE R /\ S
  BY <1>1, ThreadFrame
<1>2. ASSUME NEW v \in Viewers, OnJoinParty(v) PROVE R /\ S
  <2>1. CASE Admits(v)
    <3>1. OthersStay(<<v, "read">>)
      BY <1>2, <2>1, JoinBegins
    <3> QED BY <1>2, <2>1, <3>1, <1>0, <1>v DEF OthersStay
  <2>2. CASE ~Admits(v)
    BY <1>2, <2>2 DEF OnJoinParty
  <2> QED BY <2>1, <2>2
<1>3. ASSUME NEW v \in Viewers, LeaveArrives(v) PROVE R /\ S
  <2>1. OthersStay(<<v, "read">>)
    BY <1>3, <1>v, LeaveBegins DEF LeaveArrives
  <2> QED BY <1>3, <2>1, <1>0, <1>v DEF OthersStay
<1>4. ASSUME NEW v \in Viewers, Disconnect(v) \/ Fail(v) PROVE R /\ S
  <2>1. OnLeaveParty(<<v, "state">>)
    BY <1>4, ConnEffect
  <2>2. OthersStay(<<v, "state">>)
    BY <2>1, <1>v, LeaveBegins
  <2> QED BY <1>4, <2>2, <1>0, <1>v DEF OthersStay
<1>5. ASSUME NEW t \in Threads, HandlerMoves(t) PROVE R /\ S
  <2>1. OthersStay(t)
    BY <1>5, ThreadSteps DEF HandlerMoves, GoesOn, BroadcastOut
  <2> QED BY <1>5, <2>1, <1>0 DEF OthersStay
<1>6. ASSUME NEW v \in Viewers, Reconnect(v) \/ ViewerMoves(v) PROVE R /\ S
  BY <1>6, ThreadFrame
<1>7. ASSUME UNCHANGED hostRoomVars PROVE R /\ S
  BY <1>7 DEF hostRoomVars
<1>8. R /\ S
  <2> HIDE DEF R, S
  <2> QED BY <1>1, <1>2, <1>3, <1>4, <1>5, <1>6, <1>7, RoomMoves DEF HandlerBegins
<1> QED BY <1>8 DEF r, s

\* An Audience changes by a join that enters and a leave.
LEMMA AudienceMoves ==
    ASSUME RoomTypeOK, [RoomNext]_hostRoomVars, NEW k \in Parties
    PROVE  \/ audience'[k] = audience[k]
           \/ \E t \in Threads : /\ Enter(t) /\ thread[t].of = k
                                 /\ audience'[k] = audience[k] \cup {t[1]}
           \/ \E t \in Threads : /\ Leave(t) /\ thread[t].of = k
                                 /\ audience'[k] = audience[k] \ {t[1]}
<1>0. audience \in [Parties -> SUBSET Viewers]
  BY DEF RoomTypeOK
<1>1. CASE OwnerMoves
  BY <1>1 DEF OwnerMoves, StartParty, EndParty, EnderMembers, EnderSend, Approve, roomVars
<1>2. ASSUME NEW v \in Viewers, HandlerBegins(v) \/ Reconnect(v) PROVE UNCHANGED audience
  BY <1>2, HandlerFrame
<1>3. ASSUME NEW t \in Threads, HandlerMoves(t)
      PROVE  \/ audience'[k] = audience[k]
             \/ /\ Enter(t) /\ thread[t].of = k
                /\ audience'[k] = audience[k] \cup {t[1]}
             \/ /\ Leave(t) /\ thread[t].of = k
                /\ audience'[k] = audience[k] \ {t[1]}
  <2>1. CASE Enter(t)
    BY <1>0, <2>1 DEF Enter
  <2>2. CASE Leave(t)
    BY <1>0, <2>2 DEF Leave
  <2> QED BY <1>3, <2>1, <2>2, HandlerFrame
<1>4. ASSUME NEW v \in Viewers, ViewerMoves(v) PROVE UNCHANGED audience
  BY <1>4, JoinEffect, GiveUpEffect, SeatEffect, LeaveEffect, SendLeaveEffect, ReceiveEffect DEF ViewerMoves, roomVars
<1>5. CASE UNCHANGED hostRoomVars
  BY <1>5 DEF hostRoomVars, roomVars
<1> QED BY <1>1, <1>2, <1>3, <1>4, <1>5, RoomMoves

\* The live party changes by StartParty, and then it has no Audience, or by EndParty.
LEMMA HostMoves ==
    ASSUME RoomTypeOK, OnlyStarted, [RoomNext]_hostRoomVars
    PROVE  \/ host' = host
           \/ /\ StartParty /\ host' \in Parties /\ audience'[host'] = {} /\ host' = started + 1
              /\ UNCHANGED <<audience, thread, ender, conn, toHost, toViewer, call, issued, seat,
                             view, leaving, crossed, ended, odd>>
           \/ /\ EndParty /\ host' = 0 /\ ended' = ended \cup {host}
              /\ ender'.pc = "members" /\ ender'.of = host
              /\ UNCHANGED <<audience, thread, conn, toHost, toViewer, call, issued, seat,
                             view, leaving, crossed, odd>>
<1>1. CASE StartParty
  <2>1. started \in Nat /\ started < MaxParties /\ MaxParties \in Nat
    BY <1>1, HostRoomAssumption DEF StartParty, RoomTypeOK
  <2>2. started + 1 \in Parties /\ started + 1 > started
    BY <2>1 DEF Parties
  <2> QED BY <1>1, <2>2 DEF StartParty, OnlyStarted, viewerVars, auxVars
<1>2. CASE EndParty
  BY <1>2 DEF EndParty, HostAfterEnd, viewerVars
<1>3. CASE EnderMembers \/ \E v \in Viewers : EnderSend(v) \/ Approve(v)
  BY <1>3 DEF EnderMembers, EnderSend, Approve, roomVars
<1>4. ASSUME NEW v \in Viewers, HandlerBegins(v) \/ Reconnect(v) PROVE UNCHANGED host
  BY <1>4, HandlerFrame
<1>5. ASSUME NEW t \in Threads, HandlerMoves(t) PROVE UNCHANGED host
  BY <1>5, HandlerFrame
<1>6. ASSUME NEW v \in Viewers, ViewerMoves(v) PROVE UNCHANGED host
  BY <1>6, JoinEffect, GiveUpEffect, SeatEffect, LeaveEffect, SendLeaveEffect, ReceiveEffect DEF ViewerMoves, roomVars
<1>7. CASE UNCHANGED hostRoomVars
  BY <1>7 DEF hostRoomVars, roomVars
<1> QED BY <1>1, <1>2, <1>3, <1>4, <1>5, <1>6, <1>7, RoomMoves DEF OwnerMoves

LEMMA HostParty ==
    ASSUME RoomTypeOK, host # 0
    PROVE  host \in Parties
<1>1. MaxParties \in Nat /\ started \in 0..MaxParties /\ host \in 0..started
  BY HostRoomAssumption DEF RoomTypeOK
<1> QED BY <1>1 DEF Parties

\* A handler's step is one of the step its goroutine is at.
LEMMA HandlerAt ==
    ASSUME NEW t \in Threads, HandlerMoves(t)
    PROVE  /\ thread[t].pc # "idle"
           /\ thread[t].pc = "leave" => Leave(t)
           /\ thread[t].pc = "enter" => Enter(t)
BY DEF HandlerMoves, Enter, Leave, List, Members, SendAudience, Answer, Reply

\* Only one goroutine takes a step.
LEMMA HandlerAlone ==
    ASSUME RoomTypeOK, NEW t \in Threads, HandlerMoves(t)
    PROVE  OthersStay(t)
BY ThreadSteps DEF HandlerMoves, GoesOn, BroadcastOut

LEMMA DroppedStep ==
    ASSUME RoomBase, [RoomNext]_hostRoomVars
    PROVE  Dropped'
<1>0. RoomTypeOK /\ JobsFit /\ OnlyStarted
  BY DEF RoomBase
<1> SUFFICES ASSUME NEW w \in Viewers
             PROVE  LET s == <<w, "state">> IN
                    /\ conn'[w] # "up" => "dropped" \in odd'[w]
                    /\ thread'[s].pc # "idle" => "dropped" \in odd'[w]
                    /\ conn'[w] = "failed" =>
                         /\ thread'[<<w, "read">>].pc = "idle"
                         /\ host' # 0 /\ w \in audience'[host'] =>
                              thread'[s].pc = "leave" /\ thread'[s].of = host'
  BY DEF Dropped
<1> DEFINE r == <<w, "read">>
           s == <<w, "state">>
<1>n. /\ r \in Threads /\ s \in Threads /\ r # s
      /\ \A t \in Threads : t[1] = w => t = r \/ t = s
  BY ThreadNames
<1>t. s[1] = w /\ s[2] = "state" /\ r[1] = w
  OBVIOUS
<1>d. /\ conn[w] # "up" => "dropped" \in odd[w]
      /\ thread[s].pc # "idle" => "dropped" \in odd[w]
      /\ conn[w] = "failed" =>
           /\ thread[r].pc = "idle"
           /\ host # 0 /\ w \in audience[host] => thread[s].pc = "leave" /\ thread[s].of = host
  BY DEF RoomBase, Dropped
<1>m. /\ thread'[r] = thread[r] \/ HandlerMoves(r) \/ OnJoinParty(w) \/ LeaveArrives(w)
      /\ thread'[s] = thread[s] \/ HandlerMoves(s) \/ Disconnect(w) \/ Fail(w)
  BY <1>0, ThreadMoves
<1>j. thread[s].pc # "enter"
  BY <1>0, <1>n, <1>t DEF JobsFit
<1> HIDE DEF r, s
<1>1. conn'[w] # "up" => "dropped" \in odd'[w]
  BY <1>0, <1>d, OddGrows, ConnMoves, ConnEffect
<1>2. thread'[s].pc # "idle" => "dropped" \in odd'[w]
  <2>1. CASE thread'[s] = thread[s] \/ HandlerMoves(s)
    BY <1>0, <1>n, <1>d, <2>1, OddGrows, HandlerAt
  <2>2. CASE Disconnect(w)
    BY <1>0, <2>2, ConnEffect
  <2>3. CASE Fail(w)
    BY <1>0, <1>d, <2>3, ConnEffect
  <2> QED BY <1>m, <2>1, <2>2, <2>3
<1>3. ASSUME Fail(w)
      PROVE  /\ thread'[r].pc = "idle"
             /\ host' # 0 => thread'[s].pc = "leave" /\ thread'[s].of = host'
  <2>1. OnLeaveParty(s) /\ thread[r].pc = "idle" /\ host' = host
    BY <1>0, <1>3, ConnEffect, HandlerFrame DEF s, r, HandlerBegins
  <2>2. OthersStay(s) /\ (host # 0 => thread'[s].pc = "leave" /\ thread'[s].of = host)
    BY <1>0, <1>n, <2>1, LeaveBegins
  <2> QED BY <2>1, <2>2, <1>n DEF OthersStay
<1>4. ASSUME conn[w] = "failed"
      PROVE  /\ thread'[r].pc = "idle"
             /\ host' # 0 /\ w \in audience'[host'] =>
                  thread'[s].pc = "leave" /\ thread'[s].of = host'
  <2>1. thread[r].pc = "idle" /\ ~Disconnect(w) /\ ~Fail(w) /\ ~OnJoinParty(w) /\ ~LeaveArrives(w)
    BY <1>4, <1>d DEF Disconnect, Fail, OnJoinParty, LeaveArrives
  <2>2. thread'[r].pc = "idle"
    BY <2>1, <1>m, <1>n, HandlerAt
  <2>3. ASSUME host' = host, host # 0, w \in audience'[host]
        PROVE  thread'[s].pc = "leave" /\ thread'[s].of = host
    <3>0. host \in Parties
      BY <1>0, <2>3, HostParty
    <3>1. CASE audience'[host] = audience[host]
      <4>1. thread[s].pc = "leave" /\ thread[s].of = host
        BY <1>4, <1>d, <2>3, <3>1
      <4>2. ~HandlerMoves(s)
        <5> SUFFICES ASSUME HandlerMoves(s) PROVE FALSE
          OBVIOUS
        <5>1. Leave(s)
          BY <4>1, <1>n, HandlerAt
        <5>2. audience'[host] = audience[host] \ {w}
          BY <1>0, <3>0, <4>1, <5>1, <1>t DEF Leave, RoomTypeOK, s
        <5> QED BY <2>3, <5>2
      <4> QED BY <4>1, <4>2, <1>m, <2>1
    <3>2. CASE \E t \in Threads : Enter(t) /\ audience'[host] = audience[host] \cup {t[1]}
      <4> PICK t \in Threads : Enter(t) /\ audience'[host] = audience[host] \cup {t[1]}
        BY <3>2
      <4>1. t # r /\ t # s
        BY <2>1, <1>j DEF Enter
      <4>2. OthersStay(t)
        BY <1>0, HandlerAlone DEF HandlerMoves
      <4>3. w \in audience[host] /\ thread'[s] = thread[s]
        BY <4>1, <4>2, <1>n, <2>3 DEF OthersStay
      <4> QED BY <4>3, <1>4, <1>d, <2>3
    <3>3. CASE \E t \in Threads : Leave(t) /\ audience'[host] = audience[host] \ {t[1]}
      <4> PICK t \in Threads : Leave(t) /\ audience'[host] = audience[host] \ {t[1]}
        BY <3>3
      <4>1. t[1] # w /\ t # s
        BY <2>3, <1>t DEF s
      <4>2. OthersStay(t)
        BY <1>0, HandlerAlone DEF HandlerMoves
      <4>3. w \in audience[host] /\ thread'[s] = thread[s]
        BY <4>1, <4>2, <1>n, <2>3 DEF OthersStay
      <4> QED BY <4>3, <1>4, <1>d, <2>3
    <3> QED BY <1>0, <3>0, <3>1, <3>2, <3>3, AudienceMoves
  <2> QED BY <1>0, <2>2, <2>3, HostMoves
<1>5. conn'[w] = "failed" => conn[w] = "failed" \/ Fail(w)
  BY <1>0, ConnMoves, ConnEffect
<1> QED BY <1>1, <1>2, <1>3, <1>4, <1>5 DEF r, s

LEMMA RoomBaseInit ==
    ASSUME RoomInit
    PROVE  RoomBase
<1>1. RoomTypeOK
  <2>1. thread \in [Threads -> ThreadStates] /\ \A t \in Threads : thread[t].pc = "idle"
    BY IdleTyped DEF RoomInit
  <2>2. ender \in EnderStates /\ ender.pc = "idle"
    BY DEF RoomInit, NoEnder, EnderStates
  <2>3. call \in [Viewers -> Calls]
    BY CallRecords DEF RoomInit
  <2>4. toHost \in [Viewers -> Seq(Requests)] /\ toViewer \in [Viewers -> Seq(Messages)]
    BY DEF RoomInit
  <2>5. host \in 0..started /\ started \in 0..MaxParties /\ moves \in 0..MaxMoves
    BY HostRoomAssumption DEF RoomInit
  <2> QED BY <2>1, <2>2, <2>3, <2>4, <2>5, HostRoomAssumption DEF RoomInit, RoomTypeOK
<1>2. JobsFit
  BY IdleTyped DEF RoomInit, JobsFit
<1>3. OnlyStarted
  <2>1. \A t \in Threads : thread[t].pc = "idle"
    BY IdleTyped DEF RoomInit
  <2>2. ender.pc = "idle" /\ host = 0 /\ ended = {} /\ started = 0
    BY DEF RoomInit, NoEnder
  <2>3. \A v \in Viewers : seat[v] = 0 /\ call[v].of = 0 /\ toViewer[v] = <<>>
    BY CallRecords DEF RoomInit
  <2>4. \A k \in Parties : audience[k] = {}
    BY DEF RoomInit
  <2> QED BY <2>1, <2>2, <2>3, <2>4 DEF OnlyStarted
<1>4. Dropped
  BY IdleTyped, ThreadNames DEF RoomInit, Dropped
<1> QED BY <1>1, <1>2, <1>3, <1>4 DEF RoomBase

LEMMA RoomBaseStep ==
    ASSUME RoomBase, [RoomNext]_hostRoomVars
    PROVE  RoomBase'
<1>0. RoomTypeOK /\ JobsFit /\ OnlyStarted
  BY DEF RoomBase
<1>h. HoldsStarted
  BY <1>0, StartedParts
<1>1. ThreadT' /\ JobsFit' /\ HoldsStarted'
  BY <1>0, <1>h, ThreadStep
<1>2. PartiesOK'
  BY <1>0, PartiesStep
<1>3. SeatsT' /\ ToHostT' /\ ToViewerT' /\ ConnT'
  BY <1>0, ViewerStep
<1>4. SeatsStarted'
  BY <1>0, SeatsStep
<1>5. Dropped'
  BY DroppedStep
<1>6. RoomTypeOK'
  <2>1. started' \in 0..MaxParties /\ MaxParties \in Nat
    BY <1>2, HostRoomAssumption DEF PartiesOK
  <2>2. 1..started' \subseteq Parties
    BY <2>1 DEF Parties
  <2>3. \A t \in Threads : thread'[t].pc # "idle" => thread'[t].of \in Parties
    BY <1>1, <2>2 DEF HoldsStarted
  <2>4. ended' \subseteq Parties /\ (ender'.pc # "idle" => ender'.of \in Parties)
    BY <1>2, <2>2 DEF PartiesOK
  <2> QED BY <1>1, <1>2, <1>3, <2>3, <2>4
        DEF RoomTypeOK, PartiesOK, ThreadT, SeatsT, ToHostT, ToViewerT, ConnT, Conns, Odds
<1>7. OnlyStarted'
  BY <1>1, <1>2, <1>4, <1>6 DEF OnlyStarted, PartiesOK, HoldsStarted, SeatsStarted, MessageOf
<1> QED BY <1>1, <1>5, <1>6, <1>7 DEF RoomBase

LEMMA RoomBaseHolds == RoomSpec => []RoomBase
BY RoomBaseInit, RoomBaseStep, PTL DEF RoomSpec

\* Type correctness of the room: for any Viewers, parties and moves, the Audiences,
\* the handler goroutines, the channels and the seats keep their types, and no
\* handler holds a Host engine that StartParty did not make.
THEOREM RoomTypeCorrect == RoomSpec => []RoomTypeOK
BY RoomBaseHolds, PTL DEF RoomBase

\* No ghosts: however the state callback's OnLeaveParty interleaves with the read
\* loop's OnJoinParty and with StartParty and EndParty, a Viewer whose connection
\* has failed is out of the live party once that callback is done.
THEOREM NoGhostsHold == RoomSpec => []NoGhosts
<1>1. RoomBase => NoGhosts
  BY DEF RoomBase, Dropped, NoGhosts
<1> QED BY <1>1, RoomBaseHolds, PTL

-----------------------------------------------------------------------------
\* HostRoom: the lists of a party

\* What a step may do to any goroutine.
LEMMA AnyThreadMoves ==
    ASSUME RoomTypeOK, [RoomNext]_hostRoomVars, NEW t \in Threads
    PROVE  \/ thread'[t] = thread[t]
           \/ HandlerMoves(t)
           \/ thread[t].pc = "idle" /\ thread'[t].pc \in {"idle", "enter", "leave"}
<1>0. t[1] \in Viewers /\ t \in {<<t[1], "read">>, <<t[1], "state">>}
  BY ThreadNames
<1> DEFINE w == t[1]
<1>1. ASSUME OnJoinParty(w), Admits(w)
      PROVE  thread[<<w, "read">>].pc = "idle" /\ thread'[<<w, "read">>].pc = "enter"
  BY <1>0, <1>1, JoinBegins DEF OnJoinParty
<1>2. ASSUME LeaveArrives(w)
      PROVE  thread[<<w, "read">>].pc = "idle" /\ thread'[<<w, "read">>].pc \in {"idle", "leave"}
  BY <1>0, <1>2, LeaveBegins, IdleTyped, ThreadNames DEF LeaveArrives
<1>3. ASSUME Disconnect(w) \/ Fail(w)
      PROVE  thread[<<w, "state">>].pc = "idle" /\ thread'[<<w, "state">>].pc \in {"idle", "leave"}
  <2>1. OnLeaveParty(<<w, "state">>) /\ thread[<<w, "state">>].pc = "idle"
    BY <1>0, <1>3, ConnEffect
  <2> QED BY <1>0, <2>1, LeaveBegins, IdleTyped, ThreadNames
<1> HIDE DEF w
<1>4. /\ \/ thread'[<<w, "read">>] = thread[<<w, "read">>]
         \/ HandlerMoves(<<w, "read">>)
         \/ OnJoinParty(w) /\ Admits(w)
         \/ LeaveArrives(w)
      /\ \/ thread'[<<w, "state">>] = thread[<<w, "state">>]
         \/ HandlerMoves(<<w, "state">>)
         \/ Disconnect(w)
         \/ Fail(w)
  BY <1>0, ThreadMoves DEF w
<1>5. t = <<w, "read">> \/ t = <<w, "state">>
  BY <1>0 DEF w
<1>6. CASE t = <<w, "read">>
  BY <1>1, <1>2, <1>4, <1>6
<1>7. CASE t = <<w, "state">>
  BY <1>3, <1>4, <1>7
<1> QED BY <1>5, <1>6, <1>7

\* A change of party k's Audience leaves its list to be taken.
LEMMA ChangeUnlisted ==
    ASSUME RoomTypeOK, [RoomNext]_hostRoomVars, NEW k \in Parties, audience'[k] # audience[k]
    PROVE  Unlisted(k)'
<1> PICK t \in Threads : (Enter(t) \/ Leave(t)) /\ thread[t].of = k
  BY AudienceMoves
<1>1. thread'[t].pc = "list" /\ thread'[t].of = k
  BY ThreadSteps DEF GoesOn
<1> QED BY <1>1 DEF Unlisted

\* A list that was to be taken was taken by broadcastAudience.
LEMMA ListTaken ==
    ASSUME RoomTypeOK, [RoomNext]_hostRoomVars, NEW k, Unlisted(k), ~Unlisted(k)'
    PROVE  \E u \in Threads : List(u) /\ thread[u].of = k /\ thread'[u].pc = "members" /\ thread'[u].of = k
<1> PICK u \in Threads : thread[u].pc = "list" /\ thread[u].of = k
  BY DEF Unlisted
<1>1. thread'[u] # thread[u]
  BY DEF Unlisted
<1>2. HandlerMoves(u)
  BY <1>1, AnyThreadMoves
<1>3. List(u)
  BY <1>2 DEF HandlerMoves, Enter, Leave, Members, SendAudience, Answer, Reply
<1>4. thread'[u].pc = "members" /\ thread'[u].of = k
  BY <1>3, ThreadSteps DEF GoesOn
<1> QED BY <1>3, <1>4

\* The parties whose broadcasts overlapped stay marked.
LEMMA CrossedGrows ==
    ASSUME RoomTypeOK, [RoomNext]_hostRoomVars
    PROVE  crossed \subseteq crossed'
<1>1. CASE OwnerMoves
  BY <1>1, OwnerFrame
<1>2. ASSUME NEW v \in Viewers, HandlerBegins(v) \/ Reconnect(v) PROVE UNCHANGED crossed
  BY <1>2, HandlerFrame
<1>3. ASSUME NEW t \in Threads, HandlerMoves(t) PROVE crossed \subseteq crossed'
  <2>1. CASE List(t) \/ Answer(t)
    BY <2>1 DEF List, Answer
  <2> QED BY <1>3, <2>1, HandlerFrame
<1>4. ASSUME NEW v \in Viewers, ViewerMoves(v) PROVE UNCHANGED crossed
  BY <1>4, JoinEffect, GiveUpEffect, SeatEffect, LeaveEffect, SendLeaveEffect, ReceiveEffect DEF ViewerMoves, auxVars
<1>5. CASE UNCHANGED hostRoomVars
  BY <1>5 DEF hostRoomVars, auxVars
<1> QED BY <1>1, <1>2, <1>3, <1>4, <1>5, RoomMoves

\* The list a goroutine sends is the Audience, after every step too.
LEMMA ListsFreshStep ==
    ASSUME RoomTypeOK, ListsFresh, [RoomNext]_hostRoomVars
    PROVE  ListsFresh'
<1> SUFFICES ASSUME NEW t \in Threads, NEW k, thread'[t].pc \in Broadcasting,
                    thread'[t].of = k, k \notin crossed',
                    ~(\E u \in Threads : thread'[u].pc = "list" /\ thread'[u].of = k)
             PROVE  thread'[t].list = audience'[k]
  BY DEF ListsFresh, Unlisted, Broadcasting
<1>c. k \notin crossed
  BY CrossedGrows
<1>u. ~Unlisted(k)'
  BY DEF Unlisted
<1>1. CASE thread'[t] = thread[t]
  <2>0. thread[t].of = k /\ thread[t].pc \in Broadcasting /\ thread[t].pc # "idle"
    BY <1>1 DEF Broadcasting
  <2>k. k \in Parties
    BY <2>0 DEF RoomTypeOK
  <2>1. ASSUME Unlisted(k) PROVE FALSE
    <3> PICK u \in Threads : List(u) /\ thread[u].of = k /\ thread'[u].pc = "members"
      BY <2>1, <1>u, ListTaken
    <3>1. u # t
      <4>1. thread[u].pc = "list"
        BY DEF List
      <4> QED BY <2>0, <4>1 DEF Broadcasting
    <3>2. Overlaps(u, thread[u].of)
      BY <2>0, <3>1 DEF Overlaps, Broadcasting
    <3>3. k \in crossed'
      BY <3>2 DEF List
    <3> QED BY <3>3
  <2>2. thread[t].list = audience[k]
    BY <2>0, <2>1, <1>c DEF ListsFresh
  <2>3. audience'[k] = audience[k]
    BY <2>k, <1>u, ChangeUnlisted
  <2> QED BY <1>1, <2>2, <2>3
<1>2. CASE HandlerMoves(t) /\ thread'[t] # thread[t]
  <2>1. CASE List(t) \/ Answer(t)
    <3>1. thread'[t].of = thread[t].of /\ thread'[t].list = audience[thread[t].of]
      BY <2>1, ThreadSteps DEF GoesOn
    <3>2. UNCHANGED audience
      BY <2>1 DEF List, Answer, roomVars
    <3> QED BY <3>1, <3>2
  <2>2. CASE Members(t) \/ \E v \in Viewers : SendAudience(t, v)
    <3>1. OthersStay(t)
      BY <1>2, HandlerAlone
    <3>2. GoesOn(t) /\ thread'[t].pc = "send" /\ thread'[t].list = thread[t].list
      BY <2>2, ThreadSteps, IdleTyped DEF BroadcastOut, Broadcasting
    <3>3. thread[t].pc \in {"members", "send"}
      BY <2>2 DEF Members, SendAudience
    <3>4. thread[t].of = k
      BY <3>2 DEF GoesOn
    <3>5. ~Unlisted(k)
      BY <1>u, <3>1, <3>3 DEF Unlisted, OthersStay
    <3>6. thread[t].list = audience[k]
      BY <3>3, <3>4, <3>5, <1>c DEF ListsFresh, Broadcasting
    <3>7. UNCHANGED audience
      BY <2>2 DEF Members, SendAudience, roomVars
    <3> QED BY <3>2, <3>6, <3>7
  <2>3. CASE Enter(t) \/ Leave(t)
    BY <2>3, ThreadSteps DEF Broadcasting
  <2>4. CASE Reply(t)
    BY <2>4, ThreadSteps, IdleTyped DEF Broadcasting
  <2> QED BY <1>2, <2>1, <2>2, <2>3, <2>4 DEF HandlerMoves
<1>3. CASE thread'[t].pc \in {"idle", "enter", "leave"}
  BY <1>3 DEF Broadcasting
<1> QED BY <1>1, <1>2, <1>3, AnyThreadMoves

\* A message that is no list of party k, or is the Audience, keeps the channel fresh.
LEMMA FreshSent ==
    ASSUME NEW q \in Seq(Messages), NEW m \in Messages, NEW k, NEW a, FreshList(q, k, a),
           m.kind \in {"audience", "welcome"} /\ m.of = k => m.list = a
    PROVE  /\ FreshList(Append(q, m), k, a)
           /\ NoneOf(Append(q, m), k) => NoneOf(q, k)
<1> DEFINE n == Append(q, m)
<1>1. /\ Len(q) \in Nat /\ DOMAIN n = DOMAIN q \cup {Len(q) + 1} /\ n[Len(q) + 1] = m
      /\ \A i \in DOMAIN q : i \in Nat /\ n[i] = q[i] /\ i < Len(q) + 1
  BY Sent
<1> HIDE DEF n
<1>2. FreshList(n, k, a)
  <2> SUFFICES ASSUME NEW i \in DOMAIN n, n[i].kind \in {"audience", "welcome"}, n[i].of = k,
                      \A j \in DOMAIN n : j > i => ~IsAudience(n[j], k)
               PROVE  n[i].list = a
    BY DEF FreshList
  <2>1. CASE i = Len(q) + 1
    BY <1>1, <2>1
  <2>2. CASE i \in DOMAIN q
    <3>1. \A j \in DOMAIN q : j > i => ~IsAudience(q[j], k)
      BY <1>1, <2>2
    <3> QED BY <1>1, <2>2, <3>1 DEF FreshList
  <2> QED BY <1>1, <2>1, <2>2
<1>3. NoneOf(n, k) => NoneOf(q, k)
  BY <1>1 DEF NoneOf
<1> QED BY <1>2, <1>3 DEF n

\* An Audience sent makes the channel fresh.
LEMMA FreshAudience ==
    ASSUME NEW q \in Seq(Messages), NEW m \in Messages, NEW k, NEW a, IsAudience(m, k), m.list = a
    PROVE  FreshList(Append(q, m), k, a) /\ ~NoneOf(Append(q, m), k)
<1> DEFINE n == Append(q, m)
<1>1. /\ Len(q) \in Nat /\ DOMAIN n = DOMAIN q \cup {Len(q) + 1} /\ n[Len(q) + 1] = m
      /\ \A i \in DOMAIN q : i \in Nat /\ n[i] = q[i] /\ i < Len(q) + 1
  BY Sent
<1> HIDE DEF n
<1>2. FreshList(n, k, a)
  <2> SUFFICES ASSUME NEW i \in DOMAIN n, \A j \in DOMAIN n : j > i => ~IsAudience(n[j], k)
               PROVE  n[i].list = a
    BY DEF FreshList
  <2>1. i \notin DOMAIN q
    BY <1>1
  <2> QED BY <1>1, <2>1
<1>3. ~NoneOf(n, k)
  BY <1>1 DEF NoneOf
<1> QED BY <1>2, <1>3 DEF n

\* Taking a message leaves the channel fresh; the last list taken is the Audience.
LEMMA FreshTaken ==
    ASSUME NEW q \in Seq(Messages), NEW k, NEW a, q # <<>>, FreshList(q, k, a)
    PROVE  /\ FreshList(Tail(q), k, a)
           /\ NoneOf(Tail(q), k) /\ ~IsAudience(q[1], k) => NoneOf(q, k)
           /\ NoneOf(Tail(q), k) /\ q[1].kind \in {"audience", "welcome"} /\ q[1].of = k
                => q[1].list = a
<1> DEFINE r == Tail(q)
<1>1. /\ 1 \in DOMAIN q
      /\ \A i \in DOMAIN r : i \in Nat /\ i + 1 \in DOMAIN q /\ i + 1 > 1 /\ r[i] = q[i + 1]
      /\ \A i \in DOMAIN q : i \in Nat /\ (i > 1 => i - 1 \in DOMAIN r /\ r[i - 1] = q[i])
  BY Taken
<1>p. \A i \in DOMAIN q : i \in Nat /\ i > 0
  OBVIOUS
<1> HIDE DEF r
<1>2. FreshList(r, k, a)
  <2> SUFFICES ASSUME NEW i \in DOMAIN r, r[i].kind \in {"audience", "welcome"}, r[i].of = k,
                      \A j \in DOMAIN r : j > i => ~IsAudience(r[j], k)
               PROVE  r[i].list = a
    BY DEF FreshList
  <2>1. \A j \in DOMAIN q : j > i + 1 => ~IsAudience(q[j], k)
    <3> TAKE j \in DOMAIN q
    <3> HAVE j > i + 1
    <3>1. i \in Nat /\ j \in Nat /\ j > 1 /\ j - 1 > i
      BY <1>1
    <3>2. j - 1 \in DOMAIN r /\ r[j - 1] = q[j]
      BY <1>1, <3>1
    <3> QED BY <3>1, <3>2
  <2>2. i + 1 \in DOMAIN q /\ r[i] = q[i + 1]
    BY <1>1
  <2> QED BY <2>1, <2>2 DEF FreshList
<1>3. NoneOf(r, k) => \A j \in DOMAIN q : j > 1 => ~IsAudience(q[j], k)
  BY <1>1 DEF NoneOf
<1>4. NoneOf(r, k) /\ ~IsAudience(q[1], k) => NoneOf(q, k)
  <2> SUFFICES ASSUME NoneOf(r, k), ~IsAudience(q[1], k), NEW j \in DOMAIN q
               PROVE  ~IsAudience(q[j], k)
    BY DEF NoneOf
  <2>1. j = 1 \/ j > 1
    BY <1>p
  <2> QED BY <2>1, <1>3
<1>5. NoneOf(r, k) /\ q[1].kind \in {"audience", "welcome"} /\ q[1].of = k => q[1].list = a
  BY <1>1, <1>3 DEF FreshList
<1> QED BY <1>2, <1>4, <1>5 DEF r

\* A broadcast that no longer is owed to w was sent to it.
LEMMA OwedSent ==
    ASSUME RoomTypeOK, [RoomNext]_hostRoomVars, NEW w \in Viewers, NEW k \in Parties,
           w \in audience[k], Owed(w, k), ~Owed(w, k)'
    PROVE  \E u \in Threads : SendAudience(u, w) /\ thread[u].of = k /\ thread[u].pc = "send"
<1> PICK u \in Threads : /\ thread[u].of = k
                         /\ thread[u].pc = "members" \/ (thread[u].pc = "send" /\ w \in thread[u].todo)
  BY DEF Owed
<1>1. thread'[u] # thread[u]
  BY DEF Owed
<1>2. HandlerMoves(u)
  BY <1>1, AnyThreadMoves
<1>3. CASE Members(u)
  <2>1. thread'[u].of = k /\ thread'[u].pc = "send" /\ thread'[u].todo = audience[k]
    BY <1>3, ThreadSteps DEF GoesOn
  <2> QED BY <2>1 DEF Owed
<1>4. ASSUME NEW v \in Viewers, SendAudience(u, v), v # w PROVE FALSE
  <2>1. w \in thread[u].todo
    BY <1>4 DEF SendAudience
  <2>2. thread'[u].of = k /\ thread'[u].pc = "send" /\ thread'[u].todo = thread[u].todo \ {v}
    BY <1>4, <2>1, ThreadSteps DEF GoesOn
  <2> QED BY <1>4, <2>1, <2>2 DEF Owed
<1>5. SendAudience(u, w) => thread[u].pc = "send"
  BY DEF SendAudience
<1> QED BY <1>2, <1>3, <1>4, <1>5 DEF HandlerMoves, Enter, Leave, List, Answer, Reply

\* w's own steps keep what it has of party k fresh.
LEMMA FreshViewer ==
    ASSUME RoomTypeOK, NEW w \in Viewers, NEW k \in Parties, FreshFor(w, k), ViewerMoves(w)
    PROVE  FreshFor(w, k)'
<1> DEFINE a == audience[k]
           q == toViewer[w]
<1>k. k # 0
  BY DEF Parties
<1>q. q \in Seq(Messages)
  BY DEF RoomTypeOK
<1>f. /\ FreshList(q, k, a)
      /\ NoneOf(q, k) =>
           /\ (call[w].pc = "seating" /\ call[w].of = k) => call[w].list = a \/ "raced" \in odd[w]
           /\ seat[w] = k => view[w] = a \/ odd[w] \cap {"raced", "mixed"} # {}
  BY DEF FreshFor
<1>a. UNCHANGED audience
  BY JoinEffect, GiveUpEffect, SeatEffect, LeaveEffect, SendLeaveEffect, ReceiveEffect DEF ViewerMoves, roomVars
<1>n. NoCall.pc = "idle"
  BY CallRecords
<1> SUFFICES /\ FreshList(toViewer'[w], k, a)
             /\ NoneOf(toViewer'[w], k) =>
                  /\ (call'[w].pc = "seating" /\ call'[w].of = k)
                        => call'[w].list = a \/ "raced" \in odd'[w]
                  /\ seat'[w] = k => view'[w] = a \/ odd'[w] \cap {"raced", "mixed"} # {}
  BY <1>a DEF FreshFor
<1>1. CASE Joins(w)
  BY <1>f, <1>1, JoinEffect DEF auxVars
<1>2. CASE GiveUp(w)
  BY <1>f, <1>n, <1>2, GiveUpEffect
<1>3. CASE Seat(w)
  <2>1. /\ call[w].pc = "seating" /\ call'[w] = NoCall /\ seat'[w] = call[w].of
        /\ view'[w] = call[w].list /\ UNCHANGED <<toViewer, odd>>
    BY <1>3, SeatEffect DEF auxVars
  <2> QED BY <2>1, <1>f, <1>n
<1>4. CASE LeaveParty(w)
  BY <1>f, <1>k, <1>4, LeaveEffect DEF auxVars
<1>6. CASE SendLeave(w)
  BY <1>f, <1>6, SendLeaveEffect
<1>5. CASE Receive(w)
  <2> DEFINE m == q[1]
  <2>1. /\ q # <<>> /\ toViewer'[w] = Tail(q) /\ m \in Messages
        /\ \/ /\ m.kind = "welcome"
              /\ call'[w].pc = "seating" /\ call'[w].of = m.of /\ call'[w].list = m.list
           \/ m.kind = "refused" /\ call'[w] = NoCall
           \/ call'[w] = call[w]
        /\ m.kind = "audience" /\ seat[w] # 0 => view'[w] = m.list
        /\ m.kind \notin {"audience", "ended"} => view'[w] = view[w]
        /\ m.kind = "ended" => seat'[w] = 0
        /\ m.kind # "ended" => seat'[w] = seat[w]
        /\ odd[w] \subseteq odd'[w]
        /\ m.kind \in {"audience", "ended"} /\ call[w].pc = "seating" => "raced" \in odd'[w]
        /\ m.kind = "audience" /\ seat[w] \notin {0, m.of} => "mixed" \in odd'[w]
    BY <1>5, ReceiveEffect
  <2>2. /\ FreshList(Tail(q), k, a)
        /\ NoneOf(Tail(q), k) /\ ~IsAudience(m, k) => NoneOf(q, k)
        /\ NoneOf(Tail(q), k) /\ m.kind \in {"audience", "welcome"} /\ m.of = k => m.list = a
    BY <1>q, <1>f, <2>1, FreshTaken
  <2> HIDE DEF m, q, a
  <2>3. ASSUME NoneOf(Tail(q), k), IsAudience(m, k)
        PROVE  /\ (call'[w].pc = "seating" /\ call'[w].of = k)
                     => call'[w].list = a \/ "raced" \in odd'[w]
               /\ seat'[w] = k => view'[w] = a \/ odd'[w] \cap {"raced", "mixed"} # {}
    BY <1>k, <2>1, <2>2, <2>3 DEF IsAudience
  <2>4. ASSUME NoneOf(Tail(q), k), ~IsAudience(m, k)
        PROVE  /\ (call'[w].pc = "seating" /\ call'[w].of = k)
                     => call'[w].list = a \/ "raced" \in odd'[w]
               /\ seat'[w] = k => view'[w] = a \/ odd'[w] \cap {"raced", "mixed"} # {}
    <3>1. NoneOf(q, k)
      BY <2>2, <2>4
    <3>2. (call'[w].pc = "seating" /\ call'[w].of = k) => call'[w].list = a \/ "raced" \in odd'[w]
      BY <1>f, <1>n, <2>1, <2>2, <2>4, <3>1
    <3>3. ASSUME seat'[w] = k PROVE view'[w] = a \/ odd'[w] \cap {"raced", "mixed"} # {}
      <4>1. m.kind # "ended" /\ seat[w] = k
        BY <1>k, <2>1, <3>3
      <4>2. CASE m.kind = "audience"
        BY <1>k, <2>1, <2>4, <4>1, <4>2 DEF IsAudience
      <4>3. CASE m.kind # "audience"
        BY <1>f, <2>1, <3>1, <4>1, <4>3
      <4> QED BY <4>2, <4>3
    <3> QED BY <3>2, <3>3
  <2> QED BY <2>1, <2>2, <2>3, <2>4
<1> QED BY <1>1, <1>2, <1>3, <1>4, <1>5, <1>6 DEF ViewerMoves

\* What the live party's members have of its Audience, after every step too.
LEMMA ViewsFreshStep ==
    ASSUME RoomBase, ListsFresh, ViewsFresh, [RoomNext]_hostRoomVars
    PROVE  ViewsFresh'
<1>0. RoomTypeOK /\ OnlyStarted
  BY DEF RoomBase
<1> SUFFICES ASSUME NEW w \in Viewers, NEW k, host' = k, k # 0, conn'[w] # "failed",
                    w \in audience'[k], k \notin crossed', ~Unlisted(k)', ~Owed(w, k)'
             PROVE  FreshFor(w, k)'
  BY DEF ViewsFresh, Unlisted, Owed, FreshFor
<1>1. host = k /\ k \in Parties
  BY <1>0, HostMoves, HostParty
<1>2. conn[w] # "failed"
  BY <1>0, ConnMoves, ConnEffect
<1>3. audience'[k] = audience[k] /\ w \in audience[k]
  BY <1>0, <1>1, ChangeUnlisted
<1>4. k \notin crossed
  BY <1>0, CrossedGrows
<1>5. ~Unlisted(k)
  <2> SUFFICES ASSUME Unlisted(k) PROVE FALSE
    OBVIOUS
  <2> PICK u \in Threads : thread'[u].pc = "members" /\ thread'[u].of = k
    BY <1>0, ListTaken
  <2> QED BY DEF Owed
<1>f. \A t \in Threads : thread[t].pc \in Broadcasting /\ thread[t].of = k => thread[t].list = audience[k]
  BY <1>4, <1>5 DEF ListsFresh
<1>q. toViewer[w] \in Seq(Messages)
  BY <1>0 DEF RoomTypeOK
<1>6. CASE Owed(w, k)
  <2> PICK u \in Threads : SendAudience(u, w) /\ thread[u].of = k /\ thread[u].pc = "send"
    BY <1>0, <1>1, <1>3, <1>6, OwedSent
  <2>1. thread[u].list = audience[k]
    BY <1>f DEF Broadcasting
  <2> PICK m \in Messages : /\ m.kind = "audience" /\ m.of = thread[u].of
                            /\ m.list = thread[u].list /\ Posts(w, m)
    BY <1>0, WhatIsSent
  <2>2. toViewer'[w] = Append(toViewer[w], m)
    BY <1>2 DEF Posts
  <2>3. FreshList(toViewer'[w], k, audience[k]) /\ ~NoneOf(toViewer'[w], k)
    BY <1>q, <2>1, <2>2, FreshAudience DEF IsAudience
  <2> QED BY <1>3, <2>3 DEF FreshFor
<1>7. CASE ~Owed(w, k)
  <2>f. FreshFor(w, k)
    BY <1>1, <1>2, <1>3, <1>4, <1>5, <1>7 DEF ViewsFresh
  <2>1. CASE ViewerMoves(w)
    BY <1>0, <1>1, <2>f, <2>1, FreshViewer
  <2>2. CASE ~ViewerMoves(w)
    <3>1. /\ call'[w] = call[w] /\ seat'[w] = seat[w] /\ view'[w] = view[w] /\ odd[w] \subseteq odd'[w]
          /\ ~Receive(w)
      BY <1>0, <2>2, KeepsFrame, OddGrows DEF ViewerMoves
    <3>2. /\ FreshList(toViewer'[w], k, audience[k])
          /\ NoneOf(toViewer'[w], k) => NoneOf(toViewer[w], k)
      <4>f. FreshList(toViewer[w], k, audience[k])
        BY <2>f DEF FreshFor
      <4>1. CASE toViewer'[w] = toViewer[w]
        BY <4>f, <4>1
      <4>2. ASSUME NEW m \in Messages, toViewer'[w] = Append(toViewer[w], m),
                   m.kind \in {"audience", "welcome"} /\ m.of = k => m.list = audience[k]
            PROVE  /\ FreshList(toViewer'[w], k, audience[k])
                   /\ NoneOf(toViewer'[w], k) => NoneOf(toViewer[w], k)
        BY <4>f, <4>2, <1>q, FreshSent
      <4>3. ASSUME NEW t \in Threads, SendAudience(t, w) PROVE thread[t].of # k
        BY <1>7, <4>3 DEF Owed, SendAudience
      <4>4. ASSUME NEW t \in Threads, Reply(t), thread[t].of = k PROVE thread[t].list = audience[k]
        BY <1>f, <4>4 DEF Reply, Broadcasting
      <4> QED BY <1>0, <3>1, <4>1, <4>2, <4>3, <4>4, QueueStep
    <3> QED BY <1>3, <2>f, <3>1, <3>2 DEF FreshFor
  <2> QED BY <2>1, <2>2
<1> QED BY <1>6, <1>7

ListInv == RoomBase /\ ListsFresh /\ ViewsFresh

LEMMA ListInvHolds == RoomSpec => []ListInv
<1>1. RoomInit => ListInv
  <2> SUFFICES ASSUME RoomInit PROVE ListInv
    OBVIOUS
  <2>1. \A t \in Threads : thread[t].pc = "idle"
    BY IdleTyped DEF RoomInit
  <2>2. ListsFresh
    BY <2>1 DEF ListsFresh, Broadcasting
  <2>3. ViewsFresh
    BY DEF ViewsFresh, RoomInit
  <2> QED BY <2>2, <2>3, RoomBaseInit DEF ListInv
<1>2. ListInv /\ [RoomNext]_hostRoomVars => ListInv'
  <2> SUFFICES ASSUME ListInv, [RoomNext]_hostRoomVars PROVE ListInv'
    OBVIOUS
  <2>1. RoomBase'
    BY RoomBaseStep DEF ListInv
  <2>2. ListsFresh'
    BY ListsFreshStep DEF ListInv, RoomBase
  <2>3. ViewsFresh'
    BY ViewsFreshStep DEF ListInv
  <2> QED BY <2>1, <2>2, <2>3 DEF ListInv
<1> QED BY <1>1, <1>2, PTL DEF RoomSpec

\* The Audience settles: whatever joins, leaves and broadcasts interleave, when all is
\* quiet a member of the live party holds its member list, unless two broadcasts
\* overlapped, an Audience came before its seat, or it took another party's list.
THEOREM AudiencesSettle == RoomSpec => []AudienceSettles
<1>1. ListInv => AudienceSettles
  <2> SUFFICES ASSUME ListInv, NEW v \in Viewers, Settled(v), host # 0, seat[v] = host,
                      v \in audience[host], host \notin crossed
               PROVE  view[v] = audience[host] \/ odd[v] \cap {"raced", "mixed"} # {}
    BY DEF AudienceSettles
  <2>1. ~Unlisted(host) /\ ~Owed(v, host) /\ conn[v] # "failed" /\ toViewer[v] = <<>>
    BY DEF Settled, Unlisted, Owed
  <2>2. FreshFor(v, host)
    BY <2>1 DEF ListInv, ViewsFresh
  <2>3. NoneOf(toViewer[v], host)
    BY <2>1 DEF NoneOf
  <2> QED BY <2>2, <2>3 DEF FreshFor
<1> QED BY <1>1, ListInvHolds, PTL

-----------------------------------------------------------------------------
\* HostRoom: requests and their answers, step by step

\* The read loop of w's session goes on with the handler it runs, or is done with
\* a leave.
ReadGoesOn(w) ==
    LET r == <<w, "read">> IN
    \/ thread'[r] = thread[r]
    \/ /\ thread[r].pc # "idle" /\ thread'[r].pc \notin {"idle", "enter", "leave"}
       /\ thread'[r].job = thread[r].job /\ thread'[r].id = thread[r].id
       /\ thread'[r].of = thread[r].of
    \/ thread[r].pc # "idle" /\ thread[r].job = "leave" /\ thread'[r] = Idle

\* The steps that are not w's and not of a request of w's.
Elsewhere(w) ==
    ~ViewerMoves(w) /\ ~OnJoinParty(w) /\ ~LeaveArrives(w) /\ ~Fail(w) /\ ~Reply(<<w, "read">>)

LEMMA ToHostMoves ==
    ASSUME RoomTypeOK, [RoomNext]_hostRoomVars, NEW w \in Viewers
    PROVE  \/ toHost'[w] = toHost[w]
           \/ Joins(w) \/ SendLeave(w) \/ OnJoinParty(w) \/ LeaveArrives(w) \/ Fail(w)
<1> DEFINE P == toHost'[w] = toHost[w] \/ Joins(w) \/ SendLeave(w) \/ OnJoinParty(w)
                \/ LeaveArrives(w) \/ Fail(w)
<1>1. CASE OwnerMoves
  BY <1>1, OwnerFrame
<1>2. ASSUME NEW v \in Viewers, HandlerBegins(v) \/ Reconnect(v) PROVE P
  <2>1. CASE OnJoinParty(v) \/ LeaveArrives(v)
    BY <2>1, RequestTaken
  <2>2. CASE Disconnect(v) \/ Reconnect(v) \/ Fail(v)
    BY <2>2, ConnEffect
  <2> QED BY <1>2, <2>1, <2>2 DEF HandlerBegins
<1>3. ASSUME NEW t \in Threads, HandlerMoves(t) PROVE UNCHANGED toHost
  BY <1>3, HandlerFrame
<1>4. ASSUME NEW v \in Viewers, ViewerMoves(v) PROVE P
  <2>1. CASE v = w
    BY <1>4, <2>1, GiveUpEffect, SeatEffect, LeaveEffect, ReceiveEffect DEF ViewerMoves
  <2>2. CASE v # w
    BY <1>4, <2>2, JoinEffect, GiveUpEffect, SeatEffect, LeaveEffect, SendLeaveEffect, ReceiveEffect
       DEF ViewerMoves, OtherViewers
  <2> QED BY <2>1, <2>2
<1>5. CASE UNCHANGED hostRoomVars
  BY <1>5 DEF hostRoomVars
<1> QED BY <1>1, <1>2, <1>3, <1>4, <1>5, RoomMoves

LEMMA ReadMoves ==
    ASSUME RoomTypeOK, [RoomNext]_hostRoomVars, NEW w \in Viewers,
           ~OnJoinParty(w), ~LeaveArrives(w), ~Reply(<<w, "read">>)
    PROVE  ReadGoesOn(w)
<1> DEFINE r == <<w, "read">>
<1>0. r \in Threads
  BY ThreadNames
<1>1. thread'[r] = thread[r] \/ HandlerMoves(r)
  BY ThreadMoves
<1>2. ASSUME HandlerMoves(r) PROVE ReadGoesOn(w)
  <2>1. thread[r].pc # "idle" /\ ~Reply(r)
    BY <1>0, <1>2, HandlerAt
  <2>2. \/ GoesOn(r) /\ thread'[r].pc \in {"list", "members", "send", "answer", "reply"}
        \/ thread[r].job = "leave" /\ thread'[r] = Idle
    <3> HIDE DEF r
    <3> QED BY <1>0, <1>2, <2>1, ThreadSteps DEF HandlerMoves, BroadcastOut
  <2> QED BY <2>1, <2>2 DEF ReadGoesOn, GoesOn
<1> QED BY <1>1, <1>2 DEF ReadGoesOn

\* What such a step does to w: at most a list or an end is sent to it.
LEMMA ElsewhereEffect ==
    ASSUME RoomTypeOK, JobsFit, [RoomNext]_hostRoomVars, NEW w \in Viewers, Elsewhere(w)
    PROVE  /\ call'[w] = call[w] /\ issued'[w] = issued[w] /\ seat'[w] = seat[w]
           /\ leaving'[w] = leaving[w] /\ toHost'[w] = toHost[w]
           /\ ReadGoesOn(w)
           /\ \/ toViewer'[w] = toViewer[w]
              \/ \E m \in Messages : /\ m.kind \in {"audience", "ended"}
                                     /\ toViewer'[w] = Append(toViewer[w], m)
<1>1. /\ call'[w] = call[w] /\ issued'[w] = issued[w] /\ seat'[w] = seat[w]
      /\ leaving'[w] = leaving[w]
  BY KeepsFrame DEF Elsewhere
<1>2. toHost'[w] = toHost[w]
  BY ToHostMoves DEF Elsewhere, ViewerMoves
<1>3. ReadGoesOn(w)
  BY ReadMoves DEF Elsewhere
<1>4. \A t \in Threads : Reply(t) => t[1] # w
  <2> SUFFICES ASSUME NEW t \in Threads, Reply(t), t[1] = w PROVE FALSE
    OBVIOUS
  <2>1. thread[t].job = "join" /\ t[2] = "read"
    BY DEF Reply, JobsFit
  <2>2. t = <<w, "read">>
    BY <2>1, ThreadNames
  <2> QED BY <2>2 DEF Elsewhere
<1>5. \/ toViewer'[w] = toViewer[w]
      \/ \E m \in Messages : /\ m.kind \in {"audience", "ended"}
                             /\ toViewer'[w] = Append(toViewer[w], m)
  BY <1>4, QueueStep DEF Elsewhere, ViewerMoves
<1> QED BY <1>1, <1>2, <1>3, <1>5

LEMMA AscendingSent ==
    ASSUME NEW S, \A x \in S : x.id \in Nat, NEW q \in Seq(S), NEW m \in S, NEW K,
           NEW lo \in Nat, NEW hi \in Nat, NEW top \in Nat, lo <= hi, hi <= top,
           Ascending(q, K, lo, hi), m.kind \in K => m.id > hi /\ m.id <= top
    PROVE  Ascending(Append(q, m), K, lo, top)
<1> DEFINE n == Append(q, m)
<1>1. /\ Len(q) \in Nat /\ DOMAIN n = DOMAIN q \cup {Len(q) + 1} /\ n[Len(q) + 1] = m
      /\ \A i \in DOMAIN q : i \in Nat /\ n[i] = q[i] /\ i < Len(q) + 1
  BY Sent
<1>2. \A i \in DOMAIN q : q[i].id \in Nat
  OBVIOUS
<1>3. m.id \in Nat
  OBVIOUS
<1> HIDE DEF n
<1>4. \A i \in DOMAIN n : n[i].kind \in K => n[i].id > lo /\ n[i].id <= top
  BY <1>1, <1>2, <1>3 DEF Ascending
<1>5. ASSUME NEW i \in DOMAIN n, NEW j \in DOMAIN n, i < j, n[i].kind \in K, n[j].kind \in K
      PROVE  n[i].id < n[j].id
  <2>1. i \in DOMAIN q /\ n[i] = q[i]
    BY <1>1, <1>5
  <2>2. CASE j \in DOMAIN q
    BY <1>1, <1>5, <2>1, <2>2 DEF Ascending
  <2>3. CASE j = Len(q) + 1
    <3>1. q[i].id <= hi /\ n[j] = m
      BY <1>1, <1>5, <2>1, <2>3 DEF Ascending
    <3> QED BY <1>2, <1>3, <1>5, <2>1, <3>1
  <2> QED BY <1>1, <2>2, <2>3
<1> QED BY <1>4, <1>5 DEF Ascending, n

LEMMA AscendingTaken ==
    ASSUME NEW S, \A x \in S : x.id \in Nat, NEW q \in Seq(S), q # <<>>, NEW K,
           NEW lo \in Nat, NEW hi \in Nat, Ascending(q, K, lo, hi)
    PROVE  /\ Ascending(Tail(q), K, lo, hi)
           /\ q[1].kind \in K =>
                q[1].id > lo /\ q[1].id <= hi /\ Ascending(Tail(q), K, q[1].id, hi)
<1> DEFINE r == Tail(q)
<1>1. /\ 1 \in DOMAIN q
      /\ \A i \in DOMAIN r : i \in Nat /\ i + 1 \in DOMAIN q /\ i + 1 > 1 /\ r[i] = q[i + 1]
  BY Taken
<1> HIDE DEF r
<1>2. \A i \in DOMAIN r : r[i].kind \in K => r[i].id > lo /\ r[i].id <= hi
  BY <1>1 DEF Ascending
<1>3. \A i, j \in DOMAIN r : i < j /\ r[i].kind \in K /\ r[j].kind \in K => r[i].id < r[j].id
  <2> TAKE i, j \in DOMAIN r
  <2> HAVE i < j /\ r[i].kind \in K /\ r[j].kind \in K
  <2>1. i + 1 \in DOMAIN q /\ j + 1 \in DOMAIN q /\ i + 1 < j + 1 /\ r[i] = q[i + 1] /\ r[j] = q[j + 1]
    BY <1>1
  <2> QED BY <2>1 DEF Ascending
<1>4. ASSUME q[1].kind \in K
      PROVE  /\ q[1].id > lo /\ q[1].id <= hi
             /\ \A i \in DOMAIN r : r[i].kind \in K => r[i].id > q[1].id
  <2>1. q[1].id > lo /\ q[1].id <= hi
    BY <1>1, <1>4 DEF Ascending
  <2>2. ASSUME NEW i \in DOMAIN r, r[i].kind \in K PROVE r[i].id > q[1].id
    <3>1. i + 1 \in DOMAIN q /\ 1 < i + 1 /\ r[i] = q[i + 1]
      BY <1>1
    <3>2. q[1].id < q[i + 1].id
      BY <1>1, <1>4, <2>2, <3>1 DEF Ascending
    <3>3. q[1].id \in Nat /\ q[i + 1].id \in Nat
      BY <1>1, <3>1
    <3> QED BY <3>1, <3>2, <3>3
  <2> QED BY <2>1, <2>2
<1> QED BY <1>2, <1>3, <1>4 DEF Ascending, r

\* An answer leaves, and the read loop is idle again.
LEMMA ReplyEffect ==
    ASSUME RoomTypeOK, NEW w \in Viewers, Reply(<<w, "read">>)
    PROVE  LET r == <<w, "read">> IN
           /\ thread[r].pc = "reply" /\ thread'[r] = Idle
           /\ UNCHANGED <<host, audience, ender, conn, toHost, call, issued, seat, leaving, ended>>
           /\ odd[w] \subseteq odd'[w] /\ (host # thread[r].of => "late" \in odd'[w])
           /\ \E m \in Messages : /\ m.kind = "welcome" /\ m.of = thread[r].of /\ m.id = thread[r].id
                                  /\ Posts(w, m)
<1> DEFINE r == <<w, "read">>
<1>0. r \in Threads /\ r[1] = w
  BY ThreadNames
<1> HIDE DEF r
<1>1. thread[r].pc = "reply" /\ thread'[r] = Idle
  BY <1>0, ThreadSteps DEF Reply, r
<1>2. UNCHANGED <<host, audience, ender, conn, toHost, call, issued, seat, leaving, ended>>
  BY DEF Reply, roomVars, viewerVars
<1>3. odd[w] \subseteq odd'[w] /\ (host # thread[r].of => "late" \in odd'[w])
  BY <1>0, ReplyMarks DEF r
<1>4. \E m \in Messages : /\ m.kind = "welcome" /\ m.of = thread[r].of /\ m.id = thread[r].id
                          /\ Posts(w, m)
  BY <1>0, WhatIsSent DEF r
<1> QED BY <1>1, <1>2, <1>3, <1>4 DEF r

\* The handling of a request begins, or it is refused.
LEMMA RequestEffect ==
    ASSUME RoomTypeOK, NEW w \in Viewers, OnJoinParty(w) \/ LeaveArrives(w)
    PROVE  LET r == <<w, "read">> IN
           /\ UNCHANGED <<host, audience, ender, conn, odd, call, issued, seat, leaving, ended>>
           /\ thread[r].pc = "idle"
           /\ \/ /\ OnJoinParty(w) /\ Admits(w) /\ toHost[w][1].kind = "join" /\ UNCHANGED toViewer
                 /\ thread'[r].pc = "enter" /\ thread'[r].job = "join" /\ thread'[r].of = host
                 /\ thread'[r].id = toHost[w][1].id
              \/ /\ OnJoinParty(w) /\ ~Admits(w) /\ toHost[w][1].kind = "join" /\ UNCHANGED thread
                 /\ \E m \in Messages : m.kind = "refused" /\ m.id = toHost[w][1].id /\ Posts(w, m)
              \/ /\ LeaveArrives(w) /\ toHost[w][1].kind = "leave" /\ UNCHANGED toViewer
                 /\ \/ host = 0 /\ thread'[r] = Idle
                    \/ /\ host # 0 /\ thread'[r].pc = "leave" /\ thread'[r].job = "leave"
                       /\ thread'[r].of = host
<1> DEFINE r == <<w, "read">>
<1>0. r \in Threads
  BY ThreadNames
<1>1. UNCHANGED <<host, audience, ender, call, issued, seat, leaving, ended>>
  BY HandlerFrame DEF HandlerBegins
<1>2. thread[r].pc = "idle" /\ UNCHANGED <<conn, odd>>
  BY RequestTaken
<1>3. CASE OnJoinParty(w) /\ Admits(w)
  <2>1. UNCHANGED toViewer
    BY <1>3 DEF OnJoinParty
  <2> QED BY <1>1, <1>2, <1>3, <2>1, JoinBegins, RequestTaken
<1>4. CASE OnJoinParty(w) /\ ~Admits(w)
  <2>1. UNCHANGED thread
    BY <1>4 DEF OnJoinParty
  <2>2. \E m \in Messages : m.kind = "refused" /\ m.id = toHost[w][1].id /\ Posts(w, m)
    BY <1>4, WhatIsSent
  <2> QED BY <1>1, <1>2, <1>4, <2>1, <2>2, RequestTaken
<1>5. CASE LeaveArrives(w)
  <2>1. OnLeaveParty(r)
    BY <1>5 DEF LeaveArrives
  <2>2. \/ host = 0 /\ thread'[r] = Idle
        \/ host # 0 /\ thread'[r].pc = "leave" /\ thread'[r].job = "leave" /\ thread'[r].of = host
    BY <1>0, <2>1, LeaveBegins
  <2> QED BY <1>1, <1>2, <1>5, <2>2, RequestTaken
<1> QED BY <1>3, <1>4, <1>5

LEMMA OrderedStep ==
    ASSUME RoomBase, [RoomNext]_hostRoomVars, NEW w \in Viewers, Ordered(w)
    PROVE  Ordered(w)'
<1>0. RoomTypeOK /\ JobsFit
  BY DEF RoomBase
<1> DEFINE r == <<w, "read">>
           in == toHost[w]
           out == toViewer[w]
           n == issued[w]
           A == {"welcome", "refused"}
           J == {"join"}
<1>t. in \in Seq(Requests) /\ out \in Seq(Messages) /\ n \in Nat /\ r \in Threads
  BY <1>0, ThreadNames DEF RoomTypeOK
<1>i. (\A x \in Requests : x.id \in Nat) /\ (\A x \in Messages : x.id \in Nat)
  BY RequestFields, MessageFields
<1>j. Idle.pc = "idle" /\ Idle.job = "leave"
  BY IdleTyped
<1>1. PICK a \in 0..n, b \in 0..n : OrderedBy(w, a, b)
  BY DEF Ordered
<1>2. /\ a \in Nat /\ b \in Nat /\ a <= b /\ b <= n
      /\ Ascending(out, A, 0, a) /\ Ascending(in, J, b, n)
      /\ thread[r].pc # "idle" /\ thread[r].job = "join" => thread[r].id > a /\ thread[r].id <= b
  BY <1>t, <1>1 DEF OrderedBy, Joining
<1>o. 0 \in Nat /\ 0 <= a /\ a <= a /\ n <= n
  BY <1>t, <1>2
<1>id. thread[r].id \in Nat
  BY <1>0, <1>t, ThreadFields DEF RoomTypeOK
<1>g. ASSUME NEW x \in Nat, NEW y \in Nat, x <= y, y <= issued'[w], issued'[w] \in Nat,
             Ascending(toViewer'[w], A, 0, x), Ascending(toHost'[w], J, y, issued'[w]),
             thread'[r].pc # "idle" /\ thread'[r].job = "join"
                => thread'[r].id > x /\ thread'[r].id <= y
      PROVE  Ordered(w)'
  <2>1. x \in 0..issued'[w] /\ y \in 0..issued'[w]
    BY <1>g
  <2>2. OrderedBy(w, x, y)'
    BY <1>g DEF OrderedBy, Joining
  <2> QED BY <2>1, <2>2 DEF Ordered
<1> HIDE DEF r, in, out, n, A, J
<1>3. CASE Joins(w)
  <2>1. /\ issued'[w] = n + 1 /\ toViewer'[w] = out /\ thread'[r] = thread[r]
        /\ \/ toHost'[w] = in
           \/ \E x \in Requests : x.id = n + 1 /\ toHost'[w] = Append(in, x)
    BY <1>0, <1>3, JoinEffect DEF in, out, n
  <2>2. Ascending(toHost'[w], J, b, n + 1)
    <3>1. CASE toHost'[w] = in
      <4>1. \A i \in DOMAIN in : in[i].id \in Nat
        BY <1>t, <1>i
      <4>2. \A i \in DOMAIN in : in[i].id <= n => in[i].id <= n + 1
        BY <4>1, <1>t
      <4> QED BY <1>2, <3>1, <4>2 DEF Ascending
    <3>2. ASSUME NEW x \in Requests, x.id = n + 1, toHost'[w] = Append(in, x)
          PROVE  Ascending(toHost'[w], J, b, n + 1)
      <4>1. n + 1 \in Nat /\ n <= n + 1 /\ x.id > n /\ x.id <= n + 1
        BY <1>t, <3>2
      <4> QED BY <1>2, <1>i, <1>t, <3>2, <4>1, AscendingSent
    <3> QED BY <2>1, <3>1, <3>2
  <2> QED BY <1>2, <1>t, <2>1, <2>2, <1>g
<1>4. CASE GiveUp(w) \/ Seat(w) \/ LeaveParty(w)
  <2>1. issued'[w] = n /\ toViewer'[w] = out /\ thread'[r] = thread[r] /\ toHost'[w] = in
    BY <1>0, <1>4, GiveUpEffect, SeatEffect, LeaveEffect DEF in, out, n
  <2> QED BY <1>2, <1>t, <2>1, <1>g
<1>5. CASE SendLeave(w)
  <2>1. /\ issued'[w] = n /\ toViewer'[w] = out /\ thread'[r] = thread[r]
        /\ \/ toHost'[w] = in
           \/ \E x \in Requests : x.kind = "leave" /\ toHost'[w] = Append(in, x)
    BY <1>0, <1>5, SendLeaveEffect DEF in, out, n
  <2>2. ASSUME NEW x \in Requests, x.kind = "leave", toHost'[w] = Append(in, x)
        PROVE  Ascending(toHost'[w], J, b, n)
    <3>1. x.kind \notin J
      BY <2>2 DEF J
    <3> QED BY <1>2, <1>i, <1>o, <1>t, <2>2, <3>1, AscendingSent
  <2> QED BY <1>2, <1>t, <2>1, <2>2, <1>g
<1>6. CASE Receive(w)
  <2>1. /\ issued'[w] = n /\ out # <<>> /\ toViewer'[w] = Tail(out) /\ thread'[r] = thread[r]
        /\ toHost'[w] = in
    BY <1>0, <1>6, ReceiveEffect DEF in, out, n
  <2>2. Ascending(Tail(out), A, 0, a)
    BY <1>2, <1>i, <1>t, <2>1, AscendingTaken
  <2> QED BY <1>2, <1>t, <2>1, <2>2, <1>g
<1>7. CASE OnJoinParty(w) \/ LeaveArrives(w)
  <2>1. in # <<>> /\ toHost'[w] = Tail(in) /\ in[1] \in Requests
    BY <1>0, <1>7, RequestTaken DEF in
  <2>2. /\ Ascending(Tail(in), J, b, n)
        /\ in[1].kind = "join" => in[1].id > b /\ in[1].id <= n /\ Ascending(Tail(in), J, in[1].id, n)
    BY <1>2, <1>i, <1>t, <2>1, AscendingTaken DEF J
  <2>3. in[1].id \in Nat
    BY <2>1, <1>i
  <2>4. CASE /\ in[1].kind = "join" /\ toViewer'[w] = out /\ issued'[w] = n
             /\ thread'[r].id = in[1].id
    <3>1. a <= in[1].id /\ thread'[r].id > a
      BY <1>2, <2>2, <2>3, <2>4
    <3> QED BY <1>2, <1>t, <2>1, <2>2, <2>3, <2>4, <3>1, <1>g
  <2>5. ASSUME NEW m \in Messages, m.kind = "refused", m.id = in[1].id, Posts(w, m),
               in[1].kind = "join", issued'[w] = n, thread'[r] = thread[r], thread[r].pc = "idle"
        PROVE  Ordered(w)'
    <3>1. a <= in[1].id /\ m.id > a /\ m.id <= in[1].id
      BY <1>2, <2>2, <2>3, <2>5
    <3>2. conn[w] # "failed"
      BY <1>7 DEF OnJoinParty, LeaveArrives
    <3>3. toViewer'[w] = Append(out, m)
      BY <2>5, <3>2 DEF Posts, out
    <3>4. Ascending(toViewer'[w], A, 0, in[1].id)
      BY <1>2, <1>i, <1>o, <1>t, <2>3, <3>1, <3>3, AscendingSent
    <3> QED BY <1>2, <1>t, <2>1, <2>2, <2>3, <2>5, <3>4, <1>g
  <2>6. CASE /\ in[1].kind = "leave" /\ toViewer'[w] = out /\ issued'[w] = n
             /\ thread'[r] = Idle \/ thread'[r].job = "leave"
    BY <1>2, <1>j, <1>t, <2>1, <2>2, <2>6, <1>g
  <2>7. /\ thread[r].pc = "idle" /\ issued'[w] = n
        /\ \/ in[1].kind = "join" /\ UNCHANGED toViewer /\ thread'[r].id = in[1].id
           \/ /\ in[1].kind = "join" /\ UNCHANGED thread
              /\ \E m \in Messages : m.kind = "refused" /\ m.id = in[1].id /\ Posts(w, m)
           \/ /\ in[1].kind = "leave" /\ UNCHANGED toViewer
              /\ thread'[r] = Idle \/ thread'[r].job = "leave"
    BY <1>0, <1>7, RequestEffect DEF in, r, n
  <2> QED BY <2>4, <2>5, <2>6, <2>7 DEF out
<1>8. CASE Fail(w)
  <2>1. /\ issued'[w] = n /\ toViewer'[w] = <<>> /\ toHost'[w] = <<>> /\ thread[r].pc = "idle"
        /\ thread'[r] = thread[r]
    <3>1. toViewer'[w] = <<>> /\ toHost'[w] = <<>> /\ thread[r].pc = "idle"
          /\ OnLeaveParty(<<w, "state">>)
      BY <1>0, <1>8, ConnEffect DEF r
    <3>2. <<w, "state">> \in Threads /\ r # <<w, "state">>
      BY ThreadNames DEF r
    <3>3. OthersStay(<<w, "state">>)
      BY <1>0, <3>1, <3>2, LeaveBegins
    <3>4. issued'[w] = n
      BY <1>8, HandlerFrame DEF HandlerBegins, n
    <3> QED BY <1>t, <3>1, <3>2, <3>3, <3>4 DEF OthersStay
  <2>2. Ascending(<<>>, A, 0, a) /\ Ascending(<<>>, J, b, n)
    BY DEF Ascending
  <2> QED BY <1>2, <1>t, <2>1, <2>2, <1>g
<1>9. CASE Reply(<<w, "read">>)
  <2>1. /\ issued'[w] = n /\ thread[r].pc = "reply" /\ thread'[r] = Idle /\ toHost'[w] = in
        /\ \E m \in Messages : m.id = thread[r].id /\ Posts(w, m)
    BY <1>0, <1>9, ReplyEffect DEF in, r, n
  <2>2. thread[r].job = "join"
    BY <1>0, <1>t, <2>1 DEF JobsFit
  <2>3. thread[r].id > a /\ thread[r].id <= b
    BY <1>2, <2>1, <2>2
  <2>4. PICK m \in Messages : m.id = thread[r].id /\ Posts(w, m)
    BY <2>1
  <2>5. m.id > a /\ m.id <= b
    BY <2>3, <2>4
  <2>6. Ascending(Append(out, m), A, 0, b)
    BY <1>2, <1>i, <1>o, <1>t, <2>5, AscendingSent
  <2>7. CASE toViewer'[w] = Append(out, m)
    BY <1>2, <1>j, <1>t, <2>1, <2>6, <2>7, <1>g
  <2>8. CASE toViewer'[w] = out
    BY <1>2, <1>j, <1>t, <2>1, <2>8, <1>g
  <2> QED BY <2>4, <2>7, <2>8 DEF Posts, out
<1>10. CASE Elsewhere(w)
  <2>1. /\ issued'[w] = n /\ toHost'[w] = in
        /\ \/ toViewer'[w] = out
           \/ \E m \in Messages : m.kind \in {"audience", "ended"} /\ toViewer'[w] = Append(out, m)
    BY <1>0, <1>10, ElsewhereEffect DEF in, out, n
  <2>2. Ascending(toViewer'[w], A, 0, a)
    <3>1. ASSUME NEW m \in Messages, m.kind \in {"audience", "ended"}, toViewer'[w] = Append(out, m)
          PROVE  Ascending(toViewer'[w], A, 0, a)
      <4>1. m.kind \notin A
        BY <3>1 DEF A
      <4> QED BY <1>2, <1>i, <1>o, <1>t, <3>1, <4>1, AscendingSent
    <3> QED BY <1>2, <2>1, <3>1
  <2>3. thread'[r].pc # "idle" /\ thread'[r].job = "join"
          => thread'[r].id = thread[r].id /\ thread[r].pc # "idle" /\ thread[r].job = "join"
    BY <1>0, <1>j, <1>10, ElsewhereEffect DEF ReadGoesOn, r
  <2> QED BY <1>2, <1>t, <2>1, <2>2, <2>3, <1>g
<1> QED BY <1>3, <1>4, <1>5, <1>6, <1>7, <1>8, <1>9, <1>10 DEF Elsewhere, ViewerMoves

\* When the answer to a waiting call is on its way, the Host has no other join of
\* its Viewer, and no leave that was not overtaken.
LEMMA AnswerIsLast ==
    ASSUME RoomTypeOK, NEW w \in Viewers, Ordered(w), CallIsLast(w), call[w].pc = "waiting",
           NEW i \in DOMAIN toViewer[w], IsAnswer(toViewer[w][i]), toViewer[w][i].id = call[w].id
    PROVE  /\ "overtaken" \in odd[w] \/ (toHost[w] = <<>> /\ ~Leaving(w))
           /\ \A k \in DOMAIN toHost[w] : toHost[w][k].kind # "join"
           /\ ~Joining(w)
           /\ \A j \in DOMAIN toViewer[w] : j > i => ~IsAnswer(toViewer[w][j])
<1> DEFINE in == toHost[w]
           out == toViewer[w]
           n == issued[w]
<1>t. in \in Seq(Requests) /\ out \in Seq(Messages) /\ n \in Nat /\ call[w].id = n
  BY DEF RoomTypeOK, CallIsLast
<1>1. PICK a \in 0..n, b \in 0..n : OrderedBy(w, a, b)
  BY DEF Ordered
<1>2. a <= b /\ b <= n /\ Ascending(out, {"welcome", "refused"}, 0, a) /\ Ascending(in, {"join"}, b, n)
      /\ (Joining(w) => thread[<<w, "read">>].id > a /\ thread[<<w, "read">>].id <= b)
  BY <1>1 DEF OrderedBy
<1>3. out[i].id <= a /\ out[i].id = n
  BY <1>t, <1>2 DEF Ascending, IsAnswer
<1>4. a = n /\ b = n
  BY <1>t, <1>2, <1>3
<1>5. \A k \in DOMAIN in : in[k].kind # "join"
  <2> SUFFICES ASSUME NEW k \in DOMAIN in, in[k].kind = "join" PROVE FALSE
    OBVIOUS
  <2>1. in[k].id > n /\ in[k].id <= n
    BY <1>2, <1>4 DEF Ascending
  <2>2. in[k] \in Requests
    BY <1>t
  <2>3. in[k].id \in Nat
    BY <2>2, RequestFields
  <2> QED BY <1>t, <2>1, <2>3
<1>6. "overtaken" \in odd[w] \/ in = <<>>
  <2> SUFFICES ASSUME "overtaken" \notin odd[w], in # <<>> PROVE FALSE
    OBVIOUS
  <2>1. in[Len(in)].kind = "join"
    BY DEF CallIsLast
  <2>2. Len(in) \in DOMAIN in
    BY <1>t, EmptySeq
  <2> QED BY <1>5, <2>1, <2>2
<1>7. "overtaken" \in odd[w] \/ ~Leaving(w)
  BY <1>6 DEF CallIsLast
<1>8. ~Joining(w)
  <2>1. thread[<<w, "read">>].id \in Nat
    BY ThreadFields, ThreadNames DEF RoomTypeOK
  <2> QED BY <1>2, <1>4, <1>t, <2>1
<1>9. ASSUME NEW j \in DOMAIN out, j > i, IsAnswer(out[j]) PROVE FALSE
  <2>1. out[j].id <= n /\ out[i].id < out[j].id
    BY <1>2, <1>4, <1>9 DEF Ascending, IsAnswer
  <2>2. out[j].id \in Nat
    BY <1>t, MessageFields
  <2> QED BY <1>3, <1>t, <2>1, <2>2
<1> QED BY <1>5, <1>6, <1>7, <1>8, <1>9

LEMMA CallIsLastStep ==
    ASSUME RoomBase, [RoomNext]_hostRoomVars, NEW w \in Viewers, Ordered(w), CallIsLast(w)
    PROVE  CallIsLast(w)'
<1>0. RoomTypeOK /\ JobsFit /\ Dropped
  BY DEF RoomBase
<1> DEFINE r == <<w, "read">>
           in == toHost[w]
           O == "overtaken" \in odd[w]
           Op == "overtaken" \in odd'[w]
           L == thread[r].pc # "idle" /\ thread[r].job = "leave"
           In == toHost'[w]
           Lp == thread'[r].pc # "idle" /\ thread'[r].job = "leave"
<1>t. in \in Seq(Requests) /\ r \in Threads
  BY <1>0, ThreadNames DEF RoomTypeOK
<1>c. /\ conn[w] = "failed" => in = <<>>
      /\ call[w].pc = "waiting" => call[w].id = issued[w]
      /\ call[w].pc = "waiting" /\ ~O =>
           (in # <<>> => in[Len(in)].kind = "join") /\ (L => in # <<>>)
      /\ (seat[w] # 0 \/ call[w].pc = "seating") /\ ~O =>
           (\A i \in DOMAIN in : in[i].kind = "join") /\ thread[r].pc # "leave"
  BY DEF CallIsLast, Leaving
<1>j. Idle.pc = "idle" /\ NoCall.pc = "idle"
  BY IdleTyped, CallRecords
<1>o. O => Op
  BY <1>0, OddGrows
<1>f. conn'[w] = "failed" => conn[w] = "failed" \/ Fail(w)
  BY <1>0, ConnMoves, ConnEffect
<1>d. conn[w] = "failed" => thread[r].pc = "idle"
  BY <1>0 DEF Dropped
<1> SUFFICES /\ conn'[w] = "failed" => In = <<>>
             /\ call'[w].pc = "waiting" => call'[w].id = issued'[w]
             /\ call'[w].pc = "waiting" /\ ~Op =>
                  (In # <<>> => In[Len(In)].kind = "join") /\ (Lp => In # <<>>)
             /\ (seat'[w] # 0 \/ call'[w].pc = "seating") /\ ~Op =>
                  (\A i \in DOMAIN In : In[i].kind = "join") /\ thread'[r].pc # "leave"
  BY DEF CallIsLast, Leaving
<1>a. ASSUME NEW x \in Requests
      PROVE  LET n == Append(in, x) IN
             /\ n # <<>> /\ n[Len(n)] = x
             /\ (\A i \in DOMAIN in : in[i].kind = "join") /\ x.kind = "join"
                  => \A i \in DOMAIN n : n[i].kind = "join"
  <2> DEFINE n == Append(in, x)
  <2>1. /\ n # <<>> /\ Len(n) = Len(in) + 1 /\ DOMAIN n = DOMAIN in \cup {Len(in) + 1}
        /\ n[Len(in) + 1] = x /\ \A i \in DOMAIN in : n[i] = in[i]
    BY <1>t, Sent
  <2> HIDE DEF n
  <2>2. /\ n # <<>> /\ n[Len(n)] = x
        /\ (\A i \in DOMAIN in : in[i].kind = "join") /\ x.kind = "join"
              => \A i \in DOMAIN n : n[i].kind = "join"
    BY <2>1
  <2> QED BY <2>2 DEF n
<1>b. ASSUME in # <<>>
      PROVE  LET n == Tail(in) IN
             /\ n # <<>> => n[Len(n)] = in[Len(in)]
             /\ (\A i \in DOMAIN in : in[i].kind = "join") => \A i \in DOMAIN n : n[i].kind = "join"
             /\ n = <<>> => in[Len(in)] = in[1]
             /\ 1 \in DOMAIN in
  <2> DEFINE n == Tail(in)
  <2>1. /\ n # <<>> => n[Len(n)] = in[Len(in)]
        /\ \A i \in DOMAIN n : i + 1 \in DOMAIN in /\ n[i] = in[i + 1]
        /\ Len(in) > 1 => n # <<>>
        /\ 1 \in DOMAIN in
    BY <1>t, <1>b, Taken
  <2>2. Len(in) \in Nat /\ Len(in) > 0
    BY <1>t, <1>b, EmptySeq
  <2> HIDE DEF n
  <2>3. n = <<>> => in[Len(in)] = in[1]
    <3> DEFINE l == Len(in)
    <3>1. l \in Nat /\ l > 0 /\ (l > 1 => n # <<>>)
      BY <2>1, <2>2
    <3> HIDE DEF l
    <3>2. n = <<>> => l = 1
      BY <3>1
    <3> QED BY <3>2 DEF l
  <2>4. (\A i \in DOMAIN in : in[i].kind = "join") => \A i \in DOMAIN n : n[i].kind = "join"
    BY <2>1
  <2> QED BY <2>1, <2>3, <2>4 DEF n
<1> HIDE DEF r, in, O, Op
<1>1. CASE Joins(w)
  <2>1. /\ call'[w].pc = "waiting" /\ call'[w].id = issued'[w] /\ thread'[r] = thread[r]
        /\ seat'[w] = seat[w] /\ conn'[w] = conn[w]
        /\ \/ conn[w] = "failed" /\ In = in
           \/ conn[w] # "failed" /\ \E x \in Requests : x.kind = "join" /\ In = Append(in, x)
    BY <1>0, <1>1, JoinEffect DEF in, r
  <2>2. CASE conn[w] = "failed" /\ In = in
    BY <1>c, <1>d, <1>o, <2>1, <2>2
  <2>3. ASSUME NEW x \in Requests, x.kind = "join", In = Append(in, x)
        PROVE  /\ In # <<>> /\ In[Len(In)].kind = "join"
               /\ seat[w] # 0 /\ ~O => \A i \in DOMAIN In : In[i].kind = "join"
    BY <1>a, <1>c, <2>3
  <2> HIDE DEF In
  <2> QED BY <1>c, <1>o, <2>1, <2>2, <2>3
<1>2. CASE GiveUp(w)
  <2>1. call'[w] = NoCall /\ In = in /\ UNCHANGED <<thread, seat, conn>>
    BY <1>0, <1>2, GiveUpEffect DEF in
  <2> QED BY <1>c, <1>j, <1>o, <2>1
<1>3. CASE Seat(w)
  <2>1. call'[w] = NoCall /\ call[w].pc = "seating" /\ In = in /\ UNCHANGED <<thread, conn>>
    BY <1>0, <1>3, SeatEffect DEF in
  <2> QED BY <1>c, <1>j, <1>o, <2>1
<1>4. CASE LeaveParty(w)
  <2>1. call'[w] = call[w] /\ seat'[w] = 0 /\ seat[w] # 0 /\ In = in /\ UNCHANGED <<thread, conn, issued>>
    BY <1>0, <1>4, LeaveEffect DEF in
  <2> QED BY <1>c, <1>o, <2>1
<1>10. CASE SendLeave(w)
  <2>1. /\ call'[w] = call[w] /\ seat'[w] = seat[w] /\ UNCHANGED <<conn, issued>>
        /\ conn[w] = "failed" => In = in
        /\ call[w].pc # "idle" \/ seat[w] # 0 => Op
    BY <1>0, <1>10, SendLeaveEffect DEF in, Op
  <2> QED BY <1>c, <1>o, <2>1
<1>5. CASE Receive(w)
  <2> DEFINE m == toViewer[w][1]
  <2>1. /\ In = in /\ UNCHANGED <<thread, conn, issued>> /\ toViewer[w] # <<>>
        /\ seat'[w] = 0 \/ seat'[w] = seat[w]
        /\ \/ call[w].pc = "waiting" /\ m.id = call[w].id /\ IsAnswer(m) /\ call'[w].pc = "seating"
           \/ call'[w] = NoCall
           \/ call'[w] = call[w]
    BY <1>0, <1>5, ReceiveEffect DEF in, IsAnswer
  <2>2. ASSUME call[w].pc = "waiting", m.id = call[w].id, IsAnswer(m)
        PROVE  O \/ (in = <<>> /\ thread[r].pc # "leave")
    <3>0. toViewer[w] \in Seq(Messages)
      BY <1>0 DEF RoomTypeOK
    <3>1. 1 \in DOMAIN toViewer[w]
      BY <2>1, <3>0, Taken
    <3>2. O \/ (in = <<>> /\ ~Leaving(w))
      BY <1>0, <2>2, <3>1, AnswerIsLast DEF in, O
    <3>3. thread[r].pc = "leave" => thread[r].job = "leave"
      BY <1>0, <1>t DEF JobsFit
    <3> QED BY <3>2, <3>3 DEF Leaving, r
  <2> HIDE DEF m
  <2>3. ASSUME call'[w].pc = "seating", call'[w] # call[w]
        PROVE  O \/ (in = <<>> /\ thread[r].pc # "leave")
    BY <1>j, <2>1, <2>2, <2>3
  <2>4. call'[w].pc = "waiting" => call'[w] = call[w]
    BY <1>j, <2>1
  <2> QED BY <1>c, <1>o, <2>1, <2>3, <2>4
<1>6. CASE OnJoinParty(w) \/ LeaveArrives(w)
  <2>1. in # <<>> /\ In = Tail(in)
    BY <1>0, <1>6, RequestTaken DEF in
  <2>2. /\ UNCHANGED <<conn, call, issued, seat>> /\ thread[r].pc = "idle" /\ conn[w] # "failed"
        /\ \/ thread'[r].pc = "enter" /\ thread'[r].job = "join"
           \/ thread'[r] = thread[r]
           \/ in[1].kind = "leave"
    BY <1>0, <1>6, RequestEffect, RequestTaken DEF in, r
  <2>3. /\ In # <<>> => In[Len(In)] = in[Len(in)]
        /\ (\A i \in DOMAIN in : in[i].kind = "join") => \A i \in DOMAIN In : In[i].kind = "join"
        /\ In = <<>> => in[Len(in)] = in[1]
        /\ 1 \in DOMAIN in
    BY <1>b, <2>1
  <2> HIDE DEF In
  <2>4. CASE thread'[r].pc = "enter" /\ thread'[r].job = "join"
    BY <1>c, <1>o, <2>1, <2>2, <2>3, <2>4
  <2>5. CASE thread'[r] = thread[r]
    BY <1>c, <1>o, <2>1, <2>2, <2>3, <2>5
  <2>6. CASE in[1].kind = "leave"
    <3>1. O \/ (seat[w] = 0 /\ call[w].pc # "seating")
      BY <1>c, <2>3, <2>6
    <3> QED BY <1>c, <1>o, <2>1, <2>2, <2>3, <2>6, <3>1
  <2> QED BY <2>2, <2>4, <2>5, <2>6
<1>7. CASE Fail(w)
  <2>1. In = <<>> /\ thread[r].pc = "idle" /\ OnLeaveParty(<<w, "state">>)
    BY <1>0, <1>7, ConnEffect DEF r
  <2>2. <<w, "state">> \in Threads /\ r # <<w, "state">>
    BY ThreadNames DEF r
  <2>3. OthersStay(<<w, "state">>)
    BY <1>0, <2>1, <2>2, LeaveBegins
  <2>4. thread'[r].pc = "idle"
    BY <1>t, <2>1, <2>2, <2>3 DEF OthersStay
  <2>5. UNCHANGED <<call, issued>>
    BY <1>7, HandlerFrame DEF HandlerBegins
  <2> QED BY <1>c, <1>o, <2>1, <2>4, <2>5
<1>8. CASE Reply(<<w, "read">>)
  <2>1. thread'[r] = Idle /\ In = in /\ UNCHANGED <<conn, call, issued, seat>>
    BY <1>0, <1>8, ReplyEffect DEF in, r
  <2> QED BY <1>c, <1>j, <1>o, <2>1
<1>9. CASE Elsewhere(w)
  <2>1. call'[w] = call[w] /\ issued'[w] = issued[w] /\ seat'[w] = seat[w] /\ In = in
    BY <1>0, <1>9, ElsewhereEffect DEF in
  <2>2. (Lp => L) /\ (thread'[r].pc = "leave" => thread[r].pc = "leave")
    BY <1>0, <1>j, <1>9, ElsewhereEffect DEF ReadGoesOn, r
  <2>3. conn'[w] = "failed" => conn[w] = "failed"
    BY <1>9, <1>f DEF Elsewhere
  <2> QED BY <1>c, <1>o, <2>1, <2>2, <2>3
<1> QED BY <1>1, <1>2, <1>3, <1>4, <1>5, <1>6, <1>7, <1>8, <1>9, <1>10 DEF Elsewhere, ViewerMoves

-----------------------------------------------------------------------------
\* HostRoom: the end of a party, step by step

\* The read loop takes no Viewer out that is seated, or will be, unless its leave
\* was overtaken.
LEMMA LeaverNotSeated ==
    ASSUME RoomBase, CallsMatched, NEW w \in Viewers, thread[<<w, "read">>].pc = "leave",
           "overtaken" \notin odd[w]
    PROVE  /\ seat[w] = 0 /\ call[w].pc # "seating"
           /\ \A i \in DOMAIN toViewer[w] : ~Awaited(w, i)
<1>0. RoomTypeOK /\ JobsFit /\ Ordered(w) /\ CallIsLast(w) /\ <<w, "read">> \in Threads
  BY ThreadNames DEF RoomBase, CallsMatched
<1>1. seat[w] = 0 /\ call[w].pc # "seating"
  BY <1>0 DEF CallIsLast
<1>2. Leaving(w)
  BY <1>0 DEF Leaving, JobsFit
<1>3. ASSUME NEW i \in DOMAIN toViewer[w], Awaited(w, i) PROVE FALSE
  <2>1. IsAnswer(toViewer[w][i]) /\ call[w].pc = "waiting" /\ toViewer[w][i].id = call[w].id
    BY <1>3 DEF Awaited, IsAnswer
  <2> QED BY <1>0, <1>2, <2>1, AnswerIsLast
<1> QED BY <1>1, <1>3

\* Whoever leaves an Audience was taken out by its own read loop, or dropped.
LEMMA TakenOut ==
    ASSUME RoomBase, [RoomNext]_hostRoomVars, NEW w \in Viewers, NEW k \in Parties,
           w \in audience[k], w \notin audience'[k]
    PROVE  \/ "dropped" \in odd[w]
           \/ thread[<<w, "read">>].pc = "leave" /\ Leave(<<w, "read">>)
<1>0. RoomTypeOK
  BY DEF RoomBase
<1>1. PICK t \in Threads : Leave(t) /\ audience'[k] = audience[k] \ {t[1]}
  BY <1>0, AudienceMoves
<1>2. t[1] = w
  BY <1>1
<1>3. t = <<w, "read">> \/ t = <<w, "state">>
  BY <1>2, ThreadNames
<1>4. thread[t].pc = "leave"
  BY <1>1 DEF Leave
<1> QED BY <1>1, <1>3, <1>4 DEF RoomBase, Dropped

LEMMA JoinersInStep ==
    ASSUME RoomBase, JoinersIn, [RoomNext]_hostRoomVars
    PROVE  JoinersIn'
<1>0. RoomTypeOK /\ JobsFit
  BY DEF RoomBase
<1> SUFFICES ASSUME NEW w \in Viewers, NEW h, h = thread'[<<w, "read">>],
                    h.pc # "idle", h.job = "join", h.pc # "enter", "dropped" \notin odd'[w]
             PROVE  w \in audience'[h.of]
  BY DEF JoinersIn, Joining
<1> DEFINE r == <<w, "read">>
<1>t. r \in Threads /\ r[1] = w
  BY ThreadNames
<1>d. "dropped" \notin odd[w]
  BY <1>0, OddGrows
<1>j. Idle.pc = "idle"
  BY IdleTyped
<1>1. ~OnJoinParty(w) \/ thread'[r] = thread[r]
  <2> SUFFICES ASSUME OnJoinParty(w) PROVE thread'[r] = thread[r]
    OBVIOUS
  <2>1. ~LeaveArrives(w)
    BY DEF LeaveArrives, OnJoinParty
  <2>2. thread'[r].pc = "enter" \/ UNCHANGED thread
    BY <1>0, <2>1, RequestEffect
  <2> QED BY <2>2
<1>2. ~LeaveArrives(w)
  <2> SUFFICES ASSUME LeaveArrives(w) PROVE FALSE
    OBVIOUS
  <2>1. thread'[r] = Idle \/ thread'[r].job = "leave" \/ thread'[r].pc = "enter"
    <3>1. ~OnJoinParty(w)
      BY DEF LeaveArrives, OnJoinParty
    <3> QED BY <1>0, <3>1, RequestEffect
  <2> QED BY <1>j, <2>1
<1>3. ~Reply(r)
  BY <1>0, <1>j, ReplyEffect
<1>4. ReadGoesOn(w)
  BY <1>0, <1>1, <1>2, <1>3, ReadMoves DEF ReadGoesOn
<1>5. thread[r].pc # "idle" /\ thread[r].job = "join" /\ thread[r].of = h.of
  BY <1>4, <1>j DEF ReadGoesOn
<1>6. thread[r].of \in Parties
  BY <1>0, <1>5, <1>t DEF RoomTypeOK
<1>7. CASE thread[r].pc # "enter"
  <2>1. w \in audience[h.of]
    BY <1>5, <1>7, <1>d DEF JoinersIn, Joining
  <2>2. thread[r].pc # "leave"
    BY <1>0, <1>5, <1>t DEF JobsFit
  <2> QED BY <1>5, <1>6, <1>d, <2>1, <2>2, TakenOut
<1>8. CASE thread[r].pc = "enter"
  <2>1. HandlerMoves(r)
    BY <1>0, <1>8, <1>t, AnyThreadMoves
  <2>2. Enter(r)
    BY <1>8, <1>t, <2>1, HandlerAt
  <2> HIDE DEF r
  <2>3. audience' = [audience EXCEPT ![thread[r].of] = @ \cup {w}]
    BY <2>2, <1>t DEF Enter
  <2> QED BY <1>0, <1>5, <1>6, <2>3 DEF RoomTypeOK
<1> QED BY <1>7, <1>8

\* The welcome in v's channel at i is awaited, and of party k.
WelcomeComes(v, k, i) == Awaited(v, i) /\ toViewer[v][i].of = k

\* After a step, v's seat, or the seat it is about to take, was there before it, was
\* being waited for, or has just been answered by the read loop.
LEMMA SeatsCome ==
    ASSUME RoomBase, CallsMatched, [RoomNext]_hostRoomVars, NEW w \in Viewers, NEW k, k # 0
    PROVE  /\ SeatedIn(w, k)' =>
                \/ SeatedIn(w, k)
                \/ /\ Receive(w) /\ 1 \in DOMAIN toViewer[w] /\ WelcomeComes(w, k, 1)
           /\ \A i \in DOMAIN toViewer'[w] : WelcomeComes(w, k, i)' =>
                \/ /\ Receive(w) /\ i + 1 \in DOMAIN toViewer[w] /\ WelcomeComes(w, k, i + 1)
                \/ ~Receive(w) /\ i \in DOMAIN toViewer[w] /\ WelcomeComes(w, k, i)
                \/ Reply(<<w, "read">>) /\ thread[<<w, "read">>].of = k
<1>0. RoomTypeOK /\ JobsFit /\ Ordered(w) /\ CallIsLast(w)
  BY DEF RoomBase, CallsMatched
<1> DEFINE q == toViewer[w]
           m == q[1]
<1>q. q \in Seq(Messages)
  BY <1>0 DEF RoomTypeOK
<1>n. NoCall.pc = "idle"
  BY CallRecords
<1>1. CASE Receive(w)
  <2>1. /\ q # <<>> /\ toViewer'[w] = Tail(q)
        /\ \/ /\ call[w].pc = "waiting" /\ m.id = call[w].id /\ m.kind = "welcome"
              /\ call'[w].pc = "seating" /\ call'[w].of = m.of
           \/ call'[w] = NoCall
           \/ call'[w] = call[w]
        /\ seat'[w] = 0 \/ seat'[w] = seat[w]
    BY <1>0, <1>1, ReceiveEffect
  <2>2. /\ 1 \in DOMAIN q
        /\ \A i \in DOMAIN toViewer'[w] : i + 1 \in DOMAIN q /\ toViewer'[w][i] = q[i + 1]
    BY <1>q, <2>1, Taken
  <2>3. SeatedIn(w, k)' => SeatedIn(w, k) \/ WelcomeComes(w, k, 1)
    BY <1>n, <2>1 DEF SeatedIn, WelcomeComes, Awaited
  <2>4. ASSUME NEW i \in DOMAIN toViewer'[w], WelcomeComes(w, k, i)' PROVE WelcomeComes(w, k, i + 1)
    <3>1. call'[w] = call[w]
      BY <1>n, <2>1, <2>4 DEF WelcomeComes, Awaited
    <3>2. toViewer'[w][i] = q[i + 1]
      BY <2>2, <2>4
    <3> QED BY <2>4, <3>1, <3>2 DEF WelcomeComes, Awaited
  <2> QED BY <1>1, <2>2, <2>3, <2>4
<1>2. CASE ~Receive(w)
  <2>1. SeatedIn(w, k)' => SeatedIn(w, k)
    <3>1. CASE Joins(w)
      BY <1>0, <3>1, JoinEffect DEF SeatedIn
    <3>2. CASE GiveUp(w)
      BY <1>0, <1>n, <3>2, GiveUpEffect DEF SeatedIn
    <3>3. CASE Seat(w)
      BY <1>0, <1>n, <3>3, SeatEffect DEF SeatedIn
    <3>4. CASE LeaveParty(w) \/ SendLeave(w)
      BY <1>0, <3>4, LeaveEffect, SendLeaveEffect DEF SeatedIn
    <3>5. CASE ~ViewerMoves(w)
      BY <1>0, <3>5, KeepsFrame DEF SeatedIn
    <3> QED BY <1>2, <3>1, <3>2, <3>3, <3>4, <3>5 DEF ViewerMoves
  <2>2. ASSUME NEW i \in DOMAIN toViewer'[w], WelcomeComes(w, k, i)',
               ~(Reply(<<w, "read">>) /\ thread[<<w, "read">>].of = k)
        PROVE  i \in DOMAIN q /\ WelcomeComes(w, k, i)
    <3>0. /\ toViewer'[w][i].kind = "welcome" /\ toViewer'[w][i].of = k
          /\ call'[w].pc = "waiting" /\ toViewer'[w][i].id = call'[w].id
      BY <2>2 DEF WelcomeComes, Awaited
    <3>1. i \in DOMAIN q /\ toViewer'[w][i] = q[i]
      <4>1. ASSUME NEW x \in Messages, toViewer'[w] = Append(q, x),
                   x.kind # "welcome" \/ x.of # k
            PROVE  i \in DOMAIN q /\ toViewer'[w][i] = q[i]
        <5>1. /\ DOMAIN toViewer'[w] = DOMAIN q \cup {Len(q) + 1} /\ toViewer'[w][Len(q) + 1] = x
              /\ \A j \in DOMAIN q : toViewer'[w][j] = q[j]
          BY <1>q, <4>1, Sent
        <5> QED BY <3>0, <4>1, <5>1
      <4>2. ASSUME NEW t \in Threads, Reply(t), t[1] = w PROVE t = <<w, "read">>
        <5>1. thread[t].job = "join" /\ t[2] = "read"
          BY <1>0, <4>2 DEF Reply, JobsFit
        <5> QED BY <4>2, <5>1, ThreadNames
      <4>3. toViewer'[w] # <<>>
        OBVIOUS
      <4> QED BY <1>0, <1>2, <2>2, <4>1, <4>2, <4>3, QueueStep
    <3>2. CASE Joins(w)
      <4>1. call'[w].id = issued[w] + 1
        BY <1>0, <3>2, JoinEffect
      <4>2. PICK a \in 0..issued[w], b \in 0..issued[w] : OrderedBy(w, a, b)
        BY <1>0 DEF Ordered
      <4>3. q[i].id <= a /\ q[i].id \in Nat
        BY <1>q, <3>0, <3>1, <4>2, MessageFields DEF OrderedBy, Ascending
      <4>4. issued[w] \in Nat
        BY <1>0 DEF RoomTypeOK
      <4> QED BY <3>0, <3>1, <4>1, <4>3, <4>4
    <3>3. CASE GiveUp(w) \/ Seat(w)
      BY <1>0, <1>n, <3>0, <3>3, GiveUpEffect, SeatEffect
    <3>4. CASE LeaveParty(w) \/ SendLeave(w)
      BY <1>0, <3>0, <3>1, <3>4, LeaveEffect, SendLeaveEffect DEF WelcomeComes, Awaited
    <3>5. CASE ~ViewerMoves(w)
      BY <1>0, <3>0, <3>1, <3>5, KeepsFrame DEF WelcomeComes, Awaited
    <3> QED BY <1>2, <3>2, <3>3, <3>4, <3>5 DEF ViewerMoves
  <2> QED BY <1>2, <2>1, <2>2
<1> QED BY <1>1, <1>2

LEMMA ExcusedGrows ==
    ASSUME RoomTypeOK, [RoomNext]_hostRoomVars, NEW w \in Viewers,
           Excused(w) \/ "dropped" \in odd[w]
    PROVE  Excused(w)'
<1>1. odd[w] \subseteq odd'[w]
  BY OddGrows
<1> QED BY <1>1 DEF Excused

LEMMA SeatedAreMembersStep ==
    ASSUME RoomBase, CallsMatched, JoinersIn, SeatedAreMembers, [RoomNext]_hostRoomVars
    PROVE  SeatedAreMembers'
<1>0. RoomTypeOK /\ OnlyStarted /\ JobsFit
  BY DEF RoomBase
<1> SUFFICES ASSUME NEW w \in Viewers, NEW k, host' = k, k # 0,
                    SeatedIn(w, k)' \/ \E i \in DOMAIN toViewer'[w] : WelcomeComes(w, k, i)'
             PROVE  w \in audience'[k] \/ Excused(w)'
  BY DEF SeatedAreMembers, SeatedIn, WelcomeComes, Awaited, Excused
<1> DEFINE r == <<w, "read">>
<1>1. host = k
  <2>1. CASE StartParty /\ host' = started + 1 /\ UNCHANGED <<toViewer, call, seat>>
    <3>1. started \in Nat
      BY <1>0, HostRoomAssumption DEF RoomTypeOK
    <3>2. /\ seat[w] # started + 1 /\ call[w].of # started + 1
          /\ \A i \in DOMAIN toViewer[w] : toViewer[w][i].of # started + 1
      BY <1>0, <3>1 DEF OnlyStarted
    <3> QED BY <2>1, <3>2 DEF SeatedIn, WelcomeComes
  <2> QED BY <1>0, <2>1, HostMoves
<1>2. k \in Parties
  BY <1>0, <1>1, HostParty
<1>3. CASE SeatedIn(w, k) \/ \E i \in DOMAIN toViewer[w] : WelcomeComes(w, k, i)
  <2>1. w \in audience[k] \/ Excused(w)
    BY <1>1, <1>3 DEF SeatedAreMembers, WelcomeComes
  <2>2. Excused(w) \/ thread[r].pc # "leave"
    BY <1>3, LeaverNotSeated DEF SeatedIn, WelcomeComes, Excused
  <2> QED BY <1>0, <1>2, <2>1, <2>2, TakenOut, ExcusedGrows
<1>4. CASE Reply(r) /\ thread[r].of = k
  <2>1. r \in Threads /\ thread[r].pc = "reply" /\ UNCHANGED audience
    BY <1>0, <1>4, ReplyEffect, ThreadNames
  <2>2. w \in audience[k] \/ "dropped" \in odd[w]
    BY <1>0, <1>4, <2>1 DEF JobsFit, JoinersIn, Joining
  <2> QED BY <1>0, <2>1, <2>2, ExcusedGrows
<1> QED BY <1>3, <1>4, SeatsCome

LEMMA EnderMoves ==
    ASSUME RoomTypeOK, [RoomNext]_hostRoomVars
    PROVE  UNCHANGED ender \/ EndParty \/ EnderMembers \/ \E v \in Viewers : EnderSend(v)
<1>1. CASE OwnerMoves
  BY <1>1 DEF OwnerMoves, StartParty, Approve
<1>2. ASSUME NEW v \in Viewers, HandlerBegins(v) \/ Reconnect(v) PROVE UNCHANGED ender
  BY <1>2, HandlerFrame
<1>3. ASSUME NEW t \in Threads, HandlerMoves(t) PROVE UNCHANGED ender
  BY <1>3, HandlerFrame
<1>4. ASSUME NEW v \in Viewers, ViewerMoves(v) PROVE UNCHANGED ender
  BY <1>4, JoinEffect, GiveUpEffect, SeatEffect, LeaveEffect, SendLeaveEffect, ReceiveEffect DEF ViewerMoves
<1>5. CASE UNCHANGED hostRoomVars
  BY <1>5 DEF hostRoomVars
<1> QED BY <1>1, <1>2, <1>3, <1>4, <1>5, RoomMoves

\* The end is behind every message that was on its way to w.
EndIsBehind(w, k) == \A i \in Nat : i <= Len(toViewer[w]) => EndOnItsWay(w, k, i)'

\* Whom EndParty's loop has still to tell, it still has to tell, or tells.
LEMMA ToldKept ==
    ASSUME RoomBase, [RoomNext]_hostRoomVars, NEW w \in Viewers, NEW k \in Parties, ToldYet(w, k)
    PROVE  \/ ToldYet(w, k)'
           \/ Excused(w)'
           \/ thread[<<w, "read">>].pc = "leave"
           \/ EndIsBehind(w, k)
<1>0. RoomTypeOK /\ Dropped
  BY DEF RoomBase
<1>e. ender \in EnderStates /\ audience \in [Parties -> SUBSET Viewers]
  BY <1>0 DEF RoomTypeOK
<1>1. CASE UNCHANGED ender
  <2>1. CASE ender.pc = "members"
    <3>1. w \in audience'[k] \/ "dropped" \in odd[w] \/ thread[<<w, "read">>].pc = "leave"
      BY <2>1, TakenOut DEF ToldYet
    <3> QED BY <1>0, <1>1, <2>1, <3>1, ExcusedGrows DEF ToldYet
  <2>2. CASE ender.pc # "members"
    BY <1>1, <2>2 DEF ToldYet
  <2> QED BY <2>1, <2>2
<1>2. CASE EndParty
  BY <1>2 DEF EndParty, ToldYet
<1>3. CASE EnderMembers
  <2>1. /\ ender.of = k /\ w \in audience[k]
        /\ ender' = [ender EXCEPT !.pc = "send", !.todo = audience[k]]
    BY <1>3 DEF EnderMembers, ToldYet
  <2>2. ender'.of = k /\ ender'.pc = "send" /\ w \in ender'.todo
    BY <1>e, <2>1 DEF EnderStates
  <2> QED BY <2>2 DEF ToldYet
<1>4. ASSUME NEW v \in Viewers, EnderSend(v), v # w PROVE ToldYet(w, k)'
  <2>1. /\ ender.of = k /\ w \in ender.todo /\ ender.pc = "send"
        /\ ender' = [ender EXCEPT !.todo = ender.todo \ {v}]
    BY <1>4 DEF EnderSend, ToldYet, StillToTell
  <2>2. ender'.of = k /\ ender'.pc = "send" /\ w \in ender'.todo
    BY <1>4, <1>e, <2>1 DEF EnderStates
  <2> QED BY <2>2 DEF ToldYet
<1>5. CASE EnderSend(w)
  <2>1. PICK m \in Messages : m.kind = "ended" /\ m.of = k /\ Posts(w, m)
    BY <1>0, <1>5, WhatIsSent DEF ToldYet
  <2>2. CASE conn[w] = "failed"
    BY <1>0, <2>2, ExcusedGrows DEF Dropped
  <2>3. CASE toViewer'[w] = Append(toViewer[w], m)
    <3>1. toViewer[w] \in Seq(Messages)
      BY <1>0 DEF RoomTypeOK
    <3>2. /\ Len(toViewer[w]) \in Nat /\ Len(toViewer[w]) + 1 \in DOMAIN toViewer'[w]
          /\ toViewer'[w][Len(toViewer[w]) + 1] = m
      BY <2>3, <3>1, Sent
    <3>3. ASSUME NEW i \in Nat, i <= Len(toViewer[w]) PROVE EndOnItsWay(w, k, i)'
      <4>1. Len(toViewer[w]) + 1 > i
        BY <3>2, <3>3
      <4> QED BY <2>1, <3>2, <4>1 DEF EndOnItsWay
    <3> QED BY <3>3 DEF EndIsBehind
  <2> QED BY <2>1, <2>2, <2>3 DEF Posts
<1> QED BY <1>0, <1>1, <1>2, <1>3, <1>4, <1>5, EnderMoves

\* An end that is on its way comes nearer, or arrives.
LEMMA EndNears ==
    ASSUME RoomBase, [RoomNext]_hostRoomVars, NEW w \in Viewers, NEW k, NEW i \in Nat
    PROVE  /\ ~Receive(w) /\ EndOnItsWay(w, k, i) => EndOnItsWay(w, k, i)' \/ Excused(w)'
           /\ Receive(w) /\ EndOnItsWay(w, k, i + 1) => EndOnItsWay(w, k, i)'
           /\ Receive(w) /\ EndOnItsWay(w, k, 0) =>
                \/ EndOnItsWay(w, k, 0)'
                \/ toViewer[w][1].kind = "ended" /\ toViewer[w][1].of = k
<1>0. RoomTypeOK /\ Dropped
  BY DEF RoomBase
<1> DEFINE q == toViewer[w]
<1>q. q \in Seq(Messages)
  BY <1>0 DEF RoomTypeOK
<1>p. \A j \in DOMAIN q : j \in Nat /\ j >= 1
  BY <1>q
<1>1. ASSUME ~Receive(w), EndOnItsWay(w, k, i) PROVE EndOnItsWay(w, k, i)' \/ Excused(w)'
  <2>1. CASE toViewer'[w] = q
    BY <1>1, <2>1 DEF EndOnItsWay
  <2>2. CASE Fail(w)
    BY <1>0, <2>2, ConnEffect, ExcusedGrows DEF Dropped
  <2>3. ASSUME NEW m \in Messages, toViewer'[w] = Append(q, m) PROVE EndOnItsWay(w, k, i)'
    <3>1. \A j \in DOMAIN q : j \in DOMAIN toViewer'[w] /\ toViewer'[w][j] = q[j]
      BY <1>q, <2>3, Sent
    <3> QED BY <1>1, <3>1 DEF EndOnItsWay
  <2> QED BY <1>0, <1>1, <2>1, <2>2, <2>3, QueueStep
<1>2. ASSUME Receive(w), NEW j \in DOMAIN q, j > 1
      PROVE  j - 1 \in DOMAIN toViewer'[w] /\ toViewer'[w][j - 1] = q[j]
  <2>1. q # <<>> /\ toViewer'[w] = Tail(q)
    BY <1>0, <1>2, ReceiveEffect
  <2> QED BY <1>q, <1>2, <2>1, Taken
<1>3. ASSUME Receive(w), EndOnItsWay(w, k, i + 1) PROVE EndOnItsWay(w, k, i)'
  <2>1. PICK j \in DOMAIN q : j > i + 1 /\ q[j].kind = "ended" /\ q[j].of = k
    BY <1>3 DEF EndOnItsWay
  <2>2. j > 1 /\ j - 1 > i
    BY <1>p, <2>1
  <2>3. j - 1 \in DOMAIN toViewer'[w] /\ toViewer'[w][j - 1] = q[j]
    BY <1>2, <1>3, <2>2
  <2> QED BY <2>1, <2>2, <2>3 DEF EndOnItsWay
<1>4. ASSUME Receive(w), EndOnItsWay(w, k, 0), ~(q[1].kind = "ended" /\ q[1].of = k)
      PROVE  EndOnItsWay(w, k, 0)'
  <2>1. PICK j \in DOMAIN q : q[j].kind = "ended" /\ q[j].of = k
    BY <1>4 DEF EndOnItsWay
  <2>2. j > 1 /\ j - 1 > 0
    BY <1>4, <1>p, <2>1
  <2>3. j - 1 \in DOMAIN toViewer'[w] /\ toViewer'[w][j - 1] = q[j]
    BY <1>2, <1>4, <2>2
  <2> QED BY <2>1, <2>2, <2>3 DEF EndOnItsWay
<1> QED BY <1>1, <1>3, <1>4

Told(w, k, i) == Excused(w) \/ ToldYet(w, k) \/ EndOnItsWay(w, k, i)

LEMMA EndComesStep ==
    ASSUME RoomBase, CallsMatched, SeatedAreMembers, EndComes, [RoomNext]_hostRoomVars
    PROVE  EndComes'
<1>0. RoomTypeOK /\ OnlyStarted /\ JobsFit
  BY DEF RoomBase
<1> SUFFICES ASSUME NEW w \in Viewers, NEW k \in ended'
             PROVE  /\ SeatedIn(w, k)' => Told(w, k, 0)'
                    /\ \A i \in DOMAIN toViewer'[w] : WelcomeComes(w, k, i)' => Told(w, k, i)'
  BY DEF EndComes, Told, WelcomeComes, SeatedIn, Awaited, Excused, ToldYet, EndOnItsWay
<1> DEFINE r == <<w, "read">>
<1>q. toViewer[w] \in Seq(Messages)
  BY <1>0 DEF RoomTypeOK
<1>d. \A i \in DOMAIN toViewer[w] : i \in Nat /\ i >= 1 /\ i <= Len(toViewer[w])
  BY <1>q
<1>z. Len(toViewer[w]) \in Nat /\ 0 \in Nat /\ 0 <= Len(toViewer[w])
  BY <1>q
<1>1. CASE k \in ended
  <2>0. k \in Parties /\ k # 0 /\ k # host
    <3>1. k \in Parties /\ k # host
      BY <1>0, <1>1 DEF RoomTypeOK, OnlyStarted
    <3>2. 0 \notin Parties
      BY DEF Parties
    <3> QED BY <3>1, <3>2
  <2>e. /\ SeatedIn(w, k) => Told(w, k, 0)
        /\ \A i \in DOMAIN toViewer[w] : WelcomeComes(w, k, i) => Told(w, k, i)
    BY <1>1 DEF EndComes, Told, WelcomeComes
  <2>x. Excused(w) => Excused(w)'
    BY <1>0, ExcusedGrows
  <2>l. Excused(w)' \/ /\ SeatedIn(w, k) => thread[r].pc # "leave"
                       /\ \A i \in DOMAIN toViewer[w] :
                            WelcomeComes(w, k, i) => thread[r].pc # "leave"
    BY <2>0, <2>x, LeaverNotSeated DEF SeatedIn, WelcomeComes, Excused
  <2>t. ToldYet(w, k) /\ thread[r].pc # "leave" => ToldYet(w, k)' \/ Excused(w)' \/ EndIsBehind(w, k)
    BY <2>0, ToldKept
  <2>1. ASSUME SeatedIn(w, k)', SeatedIn(w, k) PROVE Told(w, k, 0)'
    <3>1. CASE EndOnItsWay(w, k, 0)
      <4>1. CASE ~Receive(w)
        BY <1>z, <3>1, <4>1, EndNears DEF Told
      <4>2. CASE Receive(w) /\ ~(toViewer[w][1].kind = "ended" /\ toViewer[w][1].of = k)
        BY <1>z, <3>1, <4>2, EndNears DEF Told
      <4>3. CASE Receive(w) /\ toViewer[w][1].kind = "ended"
        <5>1. /\ seat'[w] = 0 /\ (call'[w] = call[w] \/ call'[w] = NoCall)
              /\ call[w].pc = "seating" => "raced" \in odd'[w]
          BY <1>0, <4>3, ReceiveEffect
        <5>2. call[w].pc = "seating"
          <6>1. call'[w].pc = "seating" /\ NoCall.pc = "idle"
            BY <2>0, <2>1, <5>1, CallRecords DEF SeatedIn
          <6> QED BY <5>1, <6>1
        <5> QED BY <5>1, <5>2 DEF Told, Excused
      <4> QED BY <4>1, <4>2, <4>3
    <3>2. CASE ToldYet(w, k)
      <4>1. EndIsBehind(w, k) => EndOnItsWay(w, k, 0)'
        BY <1>z DEF EndIsBehind
      <4> QED BY <2>1, <2>l, <2>t, <3>2, <4>1 DEF Told
    <3>3. CASE Excused(w)
      BY <2>x, <3>3 DEF Told
    <3> QED BY <2>1, <2>e, <3>1, <3>2, <3>3 DEF Told
  <2>2. ASSUME NEW i \in Nat, Receive(w), i + 1 \in DOMAIN toViewer[w], WelcomeComes(w, k, i + 1)
        PROVE  Told(w, k, i)'
    <3>1. CASE EndOnItsWay(w, k, i + 1)
      BY <2>2, <3>1, EndNears DEF Told
    <3>2. CASE ToldYet(w, k)
      <4>1. i <= Len(toViewer[w])
        BY <1>d, <1>z, <2>2
      <4>2. EndIsBehind(w, k) => EndOnItsWay(w, k, i)'
        BY <4>1 DEF EndIsBehind
      <4> QED BY <2>2, <2>l, <2>t, <3>2, <4>2 DEF Told
    <3>3. CASE Excused(w)
      BY <2>x, <3>3 DEF Told
    <3> QED BY <2>2, <2>e, <3>1, <3>2, <3>3 DEF Told
  <2>3. ASSUME NEW i \in DOMAIN toViewer[w], ~Receive(w), WelcomeComes(w, k, i)
        PROVE  Told(w, k, i)'
    <3>0. i \in Nat /\ i <= Len(toViewer[w])
      BY <1>d
    <3>1. CASE EndOnItsWay(w, k, i)
      BY <2>3, <3>0, <3>1, EndNears DEF Told
    <3>2. CASE ToldYet(w, k)
      <4>1. EndIsBehind(w, k) => EndOnItsWay(w, k, i)'
        BY <3>0 DEF EndIsBehind
      <4> QED BY <2>3, <2>l, <2>t, <3>2, <4>1 DEF Told
    <3>3. CASE Excused(w)
      BY <2>x, <3>3 DEF Told
    <3> QED BY <2>3, <2>e, <3>1, <3>2, <3>3 DEF Told
  <2>4. ASSUME NEW i, Reply(r), thread[r].of = k PROVE Told(w, k, i)'
    <3>1. "late" \in odd'[w]
      BY <1>0, <2>0, <2>4, ReplyEffect
    <3> QED BY <3>1 DEF Told, Excused
  <2>5. SeatedIn(w, k)' => Told(w, k, 0)'
    <3>1. CASE Receive(w) /\ 1 \in DOMAIN toViewer[w] /\ WelcomeComes(w, k, 1)
      <4>1. 0 \in Nat /\ 0 + 1 = 1
        OBVIOUS
      <4> QED BY <2>2, <3>1, <4>1
    <3> QED BY <2>0, <2>1, <3>1, SeatsCome
  <2>6. ASSUME NEW i \in DOMAIN toViewer'[w], WelcomeComes(w, k, i)' PROVE Told(w, k, i)'
    <3>1. i \in Nat
      <4>1. toViewer'[w] \in Seq(Messages)
        BY <1>0, ViewerStep DEF ToViewerT
      <4> QED BY <4>1
    <3>2. \/ Receive(w) /\ i + 1 \in DOMAIN toViewer[w] /\ WelcomeComes(w, k, i + 1)
          \/ ~Receive(w) /\ i \in DOMAIN toViewer[w] /\ WelcomeComes(w, k, i)
          \/ Reply(r) /\ thread[r].of = k
      BY <2>0, <2>6, SeatsCome
    <3> QED BY <2>2, <2>3, <2>4, <3>1, <3>2
  <2> QED BY <2>5, <2>6
<1>2. CASE k \notin ended
  <2>1. EndParty
    BY <1>2, EndedGrows
  <2>2. /\ host = k /\ host # 0 /\ ender'.pc = "members" /\ ender'.of = k
        /\ UNCHANGED <<audience, toViewer, call, seat, odd>>
    BY <1>2, <2>1 DEF EndParty, viewerVars
  <2>3. ASSUME SeatedIn(w, k) \/ \E i \in DOMAIN toViewer[w] : WelcomeComes(w, k, i)
        PROVE  ToldYet(w, k)' \/ Excused(w)'
    <3>1. w \in audience[k] \/ Excused(w)
      BY <2>2, <2>3 DEF SeatedAreMembers, WelcomeComes
    <3> QED BY <2>2, <3>1 DEF ToldYet, Excused
  <2>4. SeatedIn(w, k)' => SeatedIn(w, k)
    BY <2>2 DEF SeatedIn
  <2>5. \A i \in DOMAIN toViewer'[w] : WelcomeComes(w, k, i)'
          => i \in DOMAIN toViewer[w] /\ WelcomeComes(w, k, i)
    BY <2>2 DEF WelcomeComes, Awaited
  <2> QED BY <2>3, <2>4, <2>5 DEF Told
<1> QED BY <1>1, <1>2

-----------------------------------------------------------------------------
\* HostRoom: the members of the live party, step by step

\* What a channel holds after a message is sent or taken, it held before, but for
\* that message.
LEMMA AfterSent ==
    ASSUME NEW S, NEW q \in Seq(S), NEW m \in S, NEW i \in DOMAIN Append(q, m)
    PROVE  Append(q, m)[i] = m \/ (i \in DOMAIN q /\ Append(q, m)[i] = q[i])
BY Sent

LEMMA AfterTaken ==
    ASSUME NEW S, NEW q \in Seq(S), q # <<>>, NEW i \in DOMAIN Tail(q)
    PROVE  i + 1 \in DOMAIN q /\ i + 1 > 1 /\ Tail(q)[i] = q[i + 1]
BY Taken

LEMMA OneCallStep ==
    ASSUME RoomBase, CallsMatched, OneCall, [RoomNext]_hostRoomVars
    PROVE  OneCall'
<1>0. RoomTypeOK /\ JobsFit
  BY DEF RoomBase
<1> SUFFICES ASSUME NEW w \in Viewers, "gaveup" \notin odd'[w]
             PROVE  LET r == <<w, "read">>
                        C(id) == call'[w].pc = "waiting" /\ id = issued'[w]
                    IN
                    /\ \A i \in DOMAIN toHost'[w] : toHost'[w][i].kind = "join" => C(toHost'[w][i].id)
                    /\ thread'[r].pc # "idle" /\ thread'[r].job = "join" => C(thread'[r].id)
                    /\ \A i \in DOMAIN toViewer'[w] : IsAnswer(toViewer'[w][i]) => C(toViewer'[w][i].id)
  BY DEF OneCall, Joining, Current, IsAnswer
<1> DEFINE r == <<w, "read">>
           in == toHost[w]
           out == toViewer[w]
           In == toHost'[w]
           Out == toViewer'[w]
           C(id) == call'[w].pc = "waiting" /\ id = issued'[w]
           Was(id) == call[w].pc = "waiting" /\ id = issued[w]
<1>t. in \in Seq(Requests) /\ out \in Seq(Messages) /\ r \in Threads
  BY <1>0, ThreadNames DEF RoomTypeOK
<1>m. Ordered(w) /\ CallIsLast(w)
  BY DEF CallsMatched
<1>g. "gaveup" \notin odd[w]
  BY <1>0, OddGrows
<1>o. /\ \A i \in DOMAIN in : in[i].kind = "join" => Was(in[i].id)
      /\ thread[r].pc # "idle" /\ thread[r].job = "join" => Was(thread[r].id)
      /\ \A i \in DOMAIN out : IsAnswer(out[i]) => Was(out[i].id)
  BY <1>g DEF OneCall, Joining, Current
<1>j. Idle.pc = "idle" /\ NoCall.pc = "idle"
  BY IdleTyped, CallRecords
<1> DEFINE Goal == /\ \A i \in DOMAIN In : In[i].kind = "join" => C(In[i].id)
                   /\ thread'[r].pc # "idle" /\ thread'[r].job = "join" => C(thread'[r].id)
                   /\ \A i \in DOMAIN Out : IsAnswer(Out[i]) => C(Out[i].id)
<1> SUFFICES Goal
  OBVIOUS
<1> HIDE DEF r, in, out, In, Out
<1>1. CASE Joins(w)
  <2>1. /\ call[w].pc = "idle" /\ call'[w].pc = "waiting" /\ Out = out /\ thread'[r] = thread[r]
        /\ \/ In = in
           \/ \E x \in Requests : x.id = issued'[w] /\ In = Append(in, x)
    BY <1>0, <1>1, JoinEffect DEF in, out, In, Out
  <2>2. \A i \in DOMAIN In : In[i].kind = "join" => C(In[i].id)
    <3>1. ASSUME NEW x \in Requests, x.id = issued'[w], In = Append(in, x), NEW i \in DOMAIN In,
                 In[i].kind = "join"
          PROVE  C(In[i].id)
      <4>1. In[i] = x \/ (i \in DOMAIN in /\ In[i] = in[i])
        BY <1>t, <3>1, AfterSent
      <4> QED BY <1>o, <2>1, <3>1, <4>1
    <3> QED BY <1>o, <2>1, <3>1
  <2> QED BY <1>o, <2>1, <2>2
<1>2. CASE GiveUp(w)
  BY <1>0, <1>2, GiveUpEffect
<1>3. CASE Seat(w)
  <2>1. call[w].pc = "seating" /\ Out = out /\ In = in /\ thread'[r] = thread[r]
    BY <1>0, <1>3, SeatEffect DEF in, out, In, Out
  <2> QED BY <1>o, <2>1
<1>4. CASE LeaveParty(w) \/ SendLeave(w)
  <2>1. /\ call'[w] = call[w] /\ issued'[w] = issued[w] /\ Out = out /\ thread'[r] = thread[r]
        /\ In = in \/ \E x \in Requests : x.kind = "leave" /\ In = Append(in, x)
    BY <1>0, <1>4, LeaveEffect, SendLeaveEffect DEF in, out, In, Out
  <2>2. ASSUME NEW x \in Requests, x.kind = "leave", In = Append(in, x), NEW i \in DOMAIN In,
               In[i].kind = "join"
        PROVE  Was(In[i].id)
    <3>1. In[i] = x \/ (i \in DOMAIN in /\ In[i] = in[i])
      BY <1>t, <2>2, AfterSent
    <3> QED BY <1>o, <2>1, <2>2, <3>1
  <2> QED BY <1>o, <2>1, <2>2
<1>5. CASE Receive(w)
  <2>1. /\ out # <<>> /\ Out = Tail(out) /\ In = in /\ thread'[r] = thread[r]
        /\ issued'[w] = issued[w]
        /\ \/ call[w].pc = "waiting" /\ out[1].id = call[w].id /\ IsAnswer(out[1])
           \/ call'[w] = call[w]
    BY <1>0, <1>5, ReceiveEffect DEF in, out, In, Out, IsAnswer
  <2>2. 1 \in DOMAIN out /\ \A i \in DOMAIN Out : i + 1 \in DOMAIN out /\ i + 1 > 1 /\ Out[i] = out[i + 1]
    BY <1>t, <2>1, Taken
  <2>3. CASE call'[w] = call[w]
    BY <1>o, <2>1, <2>2, <2>3
  <2>4. CASE call[w].pc = "waiting" /\ out[1].id = call[w].id /\ IsAnswer(out[1])
    <3>1. /\ \A k \in DOMAIN in : in[k].kind # "join"
          /\ ~Joining(w)
          /\ \A j \in DOMAIN out : j > 1 => ~IsAnswer(out[j])
      BY <1>0, <1>m, <2>2, <2>4, AnswerIsLast DEF in, out
    <3>2. ~(thread[r].pc # "idle" /\ thread[r].job = "join")
      BY <3>1 DEF Joining, r
    <3> QED BY <2>1, <2>2, <3>1, <3>2
  <2> QED BY <2>1, <2>3, <2>4
<1>6. CASE OnJoinParty(w) \/ LeaveArrives(w)
  <2>1. in # <<>> /\ In = Tail(in)
    BY <1>0, <1>6, RequestTaken DEF in, In
  <2>2. 1 \in DOMAIN in /\ \A i \in DOMAIN In : i + 1 \in DOMAIN in /\ In[i] = in[i + 1]
    BY <1>t, <2>1, Taken
  <2>3. /\ UNCHANGED <<call, issued>> /\ thread[r].pc = "idle"
        /\ \/ in[1].kind = "join" /\ Out = out /\ thread'[r].id = in[1].id
           \/ /\ in[1].kind = "join" /\ thread'[r] = thread[r]
              /\ \E m \in Messages : m.id = in[1].id /\ Posts(w, m)
           \/ /\ Out = out
              /\ thread'[r] = Idle \/ thread'[r].job = "leave"
    BY <1>0, <1>6, RequestEffect DEF in, out, Out, r
  <2>4. \A i \in DOMAIN In : In[i].kind = "join" => C(In[i].id)
    BY <1>o, <2>2, <2>3
  <2>5. CASE in[1].kind = "join" /\ Out = out /\ thread'[r].id = in[1].id
    BY <1>o, <2>2, <2>3, <2>4, <2>5
  <2>6. ASSUME NEW m \in Messages, m.id = in[1].id, Posts(w, m), in[1].kind = "join",
               thread'[r] = thread[r]
        PROVE  Goal
    <3>1. Out = out \/ Out = Append(out, m)
      BY <2>6 DEF Posts, Out, out
    <3>2. ASSUME NEW i \in DOMAIN Out PROVE Out[i] = m \/ (i \in DOMAIN out /\ Out[i] = out[i])
      BY <1>t, <3>1, <3>2, AfterSent
    <3>3. C(m.id)
      BY <1>o, <2>2, <2>3, <2>6
    <3>4. \A i \in DOMAIN Out : IsAnswer(Out[i]) => C(Out[i].id)
      BY <1>o, <2>3, <3>2, <3>3
    <3> QED BY <2>3, <2>4, <2>6, <3>4
  <2>7. CASE Out = out /\ (thread'[r] = Idle \/ thread'[r].job = "leave")
    BY <1>j, <1>o, <2>3, <2>4, <2>7
  <2> QED BY <2>3, <2>5, <2>6, <2>7
<1>7. CASE Fail(w)
  <2>1. In = <<>> /\ Out = <<>> /\ thread[r].pc = "idle"
    BY <1>0, <1>7, ConnEffect DEF r, In, Out
  <2>2. ~OnJoinParty(w) /\ ~LeaveArrives(w) /\ ~Reply(<<w, "read">>)
    <3>1. UNCHANGED odd /\ conn'[w] # conn[w]
      BY <1>0, <1>7, ConnEffect
    <3> QED BY <1>0, <3>1, RequestTaken, ReplyEffect
  <2>3. thread'[r] = thread[r]
    BY <1>0, <2>1, <2>2, ReadMoves DEF ReadGoesOn, r
  <2> QED BY <2>1, <2>3
<1>8. CASE Reply(<<w, "read">>)
  <2>1. /\ thread[r].pc = "reply" /\ thread'[r] = Idle /\ In = in /\ UNCHANGED <<call, issued>>
        /\ \E m \in Messages : m.id = thread[r].id /\ Posts(w, m)
    BY <1>0, <1>8, ReplyEffect DEF r, in, In
  <2>2. PICK m \in Messages : m.id = thread[r].id /\ Posts(w, m)
    BY <2>1
  <2>3. C(m.id)
    BY <1>0, <1>o, <1>t, <2>1, <2>2 DEF JobsFit
  <2>4. Out = out \/ Out = Append(out, m)
    BY <2>2 DEF Posts, Out, out
  <2>5. ASSUME NEW i \in DOMAIN Out PROVE Out[i] = m \/ (i \in DOMAIN out /\ Out[i] = out[i])
    BY <1>t, <2>4, <2>5, AfterSent
  <2>6. \A i \in DOMAIN Out : IsAnswer(Out[i]) => C(Out[i].id)
    BY <1>o, <2>1, <2>3, <2>5
  <2> QED BY <1>j, <1>o, <2>1, <2>6
<1>9. CASE Elsewhere(w)
  <2>1. /\ call'[w] = call[w] /\ issued'[w] = issued[w] /\ In = in
        /\ \/ Out = out
           \/ \E m \in Messages : m.kind \in {"audience", "ended"} /\ Out = Append(out, m)
    BY <1>0, <1>9, ElsewhereEffect DEF in, out, In, Out
  <2>2. thread'[r].pc # "idle" /\ thread'[r].job = "join"
          => thread'[r].id = thread[r].id /\ thread[r].pc # "idle" /\ thread[r].job = "join"
    BY <1>0, <1>j, <1>9, ElsewhereEffect DEF ReadGoesOn, r
  <2>3. ASSUME NEW m \in Messages, m.kind \in {"audience", "ended"}, Out = Append(out, m),
               NEW i \in DOMAIN Out, IsAnswer(Out[i])
        PROVE  C(Out[i].id)
    <3>1. Out[i] = m \/ (i \in DOMAIN out /\ Out[i] = out[i])
      BY <1>t, <2>3, AfterSent
    <3> QED BY <1>o, <2>1, <2>3, <3>1 DEF IsAnswer
  <2>4. \A i \in DOMAIN Out : IsAnswer(Out[i]) => C(Out[i].id)
    BY <1>o, <2>1, <2>3
  <2> QED BY <1>o, <2>1, <2>2, <2>4
<1> QED BY <1>1, <1>2, <1>3, <1>4, <1>5, <1>6, <1>7, <1>8, <1>9 DEF Elsewhere, ViewerMoves

\* A goroutine about to take its Viewer out still is, while the Viewer is in.
LEMMA TakesOutYet ==
    ASSUME RoomBase, [RoomNext]_hostRoomVars, NEW t \in Threads, TakesOut(t), host' = host, host # 0,
           t[1] \in audience'[host]
    PROVE  TakesOut(t)'
<1>0. RoomTypeOK /\ host \in Parties
  BY HostParty DEF RoomBase
<1>1. ASSUME HandlerMoves(t) PROVE FALSE
  <2>1. Leave(t) /\ thread[t].of = host
    BY <1>1, HandlerAt DEF TakesOut
  <2>2. audience' = [audience EXCEPT ![host] = @ \ {t[1]}]
    BY <2>1 DEF Leave
  <2>3. audience'[host] = audience[host] \ {t[1]}
    BY <1>0, <2>2 DEF RoomTypeOK
  <2> QED BY <2>3
<1>2. thread'[t] = thread[t]
  BY <1>0, <1>1, AnyThreadMoves DEF TakesOut
<1> QED BY <1>2 DEF TakesOut

\* A Viewer that just entered the live party is held by its join.
LEMMA EnteredHeld ==
    ASSUME RoomBase, CallsMatched, OneCall, [RoomNext]_hostRoomVars, NEW w \in Viewers,
           host # 0, host' = host, w \notin audience[host], w \in audience'[host],
           "gaveup" \notin odd[w]
    PROVE  MemberHeld(w)'
<1>0. RoomTypeOK /\ JobsFit /\ Ordered(w) /\ host \in Parties
  BY HostParty DEF RoomBase, CallsMatched
<1> DEFINE r == <<w, "read">>
           out == toViewer[w]
           n == issued[w]
<1>1. PICK t \in Threads : Enter(t) /\ thread[t].of = host /\ audience'[host] = audience[host] \cup {t[1]}
  BY <1>0, AudienceMoves
<1>2. thread[t].job = "join" /\ t[2] = "read" /\ t[1] = w
  BY <1>0, <1>1 DEF Enter, JobsFit
<1>3. t = r
  BY <1>2, ThreadNames
<1>4. /\ thread[r].pc = "enter" /\ thread[r].job = "join" /\ r \in Threads /\ Enter(r)
      /\ thread[r].of = host
  BY <1>1, <1>2, <1>3 DEF Enter
<1>5. thread'[r].pc = "list" /\ thread'[r].job = "join" /\ thread'[r].of = host
  BY <1>0, <1>4, ThreadSteps DEF GoesOn
<1>6. UNCHANGED <<toViewer, call>>
  BY <1>4 DEF Enter, viewerVars
<1>7. Joining(w) /\ call[w].pc = "waiting" /\ thread[r].id = n
  BY <1>4 DEF Joining, OneCall, Current
<1>8. \A i \in DOMAIN out : out[i].kind # "welcome"
  <2> SUFFICES ASSUME NEW i \in DOMAIN out, out[i].kind = "welcome" PROVE FALSE
    OBVIOUS
  <2>1. PICK a \in 0..n, b \in 0..n : OrderedBy(w, a, b)
    BY <1>0 DEF Ordered
  <2>2. out[i].id <= a /\ n > a
    BY <1>7, <2>1 DEF OrderedBy, Ascending
  <2>3. out[i].id = n
    BY DEF OneCall, Current, IsAnswer
  <2>4. n \in Nat
    BY <1>0 DEF RoomTypeOK
  <2> QED BY <2>1, <2>2, <2>3, <2>4
<1> QED BY <1>5, <1>6, <1>7, <1>8 DEF MemberHeld, Joining

LEMMA MembersHeldStep ==
    ASSUME RoomBase, CallsMatched, OneCall, MembersHeld, [RoomNext]_hostRoomVars
    PROVE  MembersHeld'
<1>0. RoomTypeOK /\ JobsFit /\ OnlyStarted
  BY DEF RoomBase
<1> SUFFICES ASSUME NEW w \in Viewers, host' # 0, conn'[w] # "failed", w \in audience'[host'],
                    "gaveup" \notin odd'[w], "misled" \notin odd'[w]
             PROVE  MemberHeld(w)'
  BY DEF MembersHeld
<1>1. host' = host /\ host # 0 /\ host \in Parties
  BY <1>0, HostMoves, HostParty
<1>2. conn[w] # "failed" /\ ~Fail(w)
  BY <1>0, ConnMoves, ConnEffect
<1>3. "gaveup" \notin odd[w] /\ "misled" \notin odd[w]
  BY <1>0, OddGrows
<1>4. CASE w \notin audience[host]
  BY <1>1, <1>3, <1>4, EnteredHeld
<1>5. CASE w \in audience[host]
  <2> DEFINE r == <<w, "read">>
             s == <<w, "state">>
             in == toHost[w]
             out == toViewer[w]
             In == toHost'[w]
             Out == toViewer'[w]
             J == thread[r].pc # "idle" /\ thread[r].job = "join"
             Jp == thread'[r].pc # "idle" /\ thread'[r].job = "join"
             Lv == leaving[w] > 0
             Lvp == leaving'[w] > 0
             T == TakesOut(r) \/ TakesOut(s)
             Tp == TakesOut(r)' \/ TakesOut(s)'
  <2>t. in \in Seq(Requests) /\ out \in Seq(Messages) /\ r \in Threads /\ r[1] = w
        /\ s \in Threads /\ s[1] = w
    BY <1>0, ThreadNames DEF RoomTypeOK
  <2>m. /\ J => thread[r].of = host
        /\ \A i \in DOMAIN out : out[i].kind = "welcome" => out[i].of = host
        /\ call[w].pc = "seating" => call[w].of = host
        /\ J \/ (\E i \in DOMAIN out : out[i].kind = "welcome") \/ call[w].pc = "seating"
             \/ seat[w] = host \/ Lv \/ (\E i \in DOMAIN in : in[i].kind = "leave") \/ T
    <3>1. MemberHeld(w)
      BY <1>1, <1>2, <1>3, <1>5 DEF MembersHeld
    <3> QED BY <3>1 DEF MemberHeld, Joining
  <2>o. \A i \in DOMAIN out : out[i].kind = "welcome" => call[w].pc = "waiting" /\ out[i].id = call[w].id
    BY <1>3 DEF OneCall, Current, IsAnswer, CallsMatched, CallIsLast
  <2>x. T => Tp
    BY <1>1, <2>t, TakesOutYet
  <2>j. Idle.pc = "idle" /\ NoCall.pc = "idle"
    BY IdleTyped, CallRecords
  <2> DEFINE Goal ==
        /\ Jp => thread'[r].of = host
        /\ \A i \in DOMAIN Out : Out[i].kind = "welcome" => Out[i].of = host
        /\ call'[w].pc = "seating" => call'[w].of = host
        /\ Jp \/ (\E i \in DOMAIN Out : Out[i].kind = "welcome") \/ call'[w].pc = "seating"
             \/ seat'[w] = host \/ Lvp \/ (\E i \in DOMAIN In : In[i].kind = "leave") \/ Tp
  <2> SUFFICES Goal
    BY <1>1 DEF MemberHeld, Joining
  <2> HIDE DEF T, Tp, Lv, Lvp, in, out, In, Out, r, s
  <2>1. CASE Joins(w)
    <3>1. /\ call[w].pc = "idle" /\ call'[w].pc = "waiting" /\ Out = out /\ thread'[r] = thread[r]
          /\ seat'[w] = seat[w] /\ Lvp = Lv /\ (In = in \/ \E x \in Requests : In = Append(in, x))
      BY <1>0, <2>1, JoinEffect DEF in, out, In, Out, Lv, Lvp
    <3>2. \A i \in DOMAIN in : i \in DOMAIN In /\ In[i] = in[i]
      BY <2>t, <3>1, Sent
    <3> QED BY <2>m, <2>x, <3>1, <3>2
  <2>2. CASE GiveUp(w)
    BY <1>0, <2>2, GiveUpEffect
  <2>3. CASE Seat(w)
    <3>1. /\ call[w].pc = "seating" /\ call'[w] = NoCall /\ seat'[w] = call[w].of
          /\ Out = out /\ thread'[r] = thread[r]
      BY <1>0, <2>3, SeatEffect DEF out, Out
    <3> QED BY <2>j, <2>m, <3>1
  <2>4. CASE LeaveParty(w)
    <3>1. call'[w] = call[w] /\ Out = out /\ thread'[r] = thread[r] /\ Lvp
      BY <1>0, <2>4, LeaveEffect DEF out, Out, Lvp
    <3> QED BY <2>m, <3>1
  <2>9. CASE SendLeave(w)
    <3>1. /\ call'[w] = call[w] /\ Out = out /\ thread'[r] = thread[r]
          /\ \E x \in Requests : x.kind = "leave" /\ In = Append(in, x)
      BY <1>0, <1>2, <2>9, SendLeaveEffect DEF in, out, In, Out
    <3>2. \E i \in DOMAIN In : In[i].kind = "leave"
      BY <2>t, <3>1, Sent
    <3> QED BY <2>m, <3>1, <3>2
  <2>5. CASE Receive(w)
    <3> DEFINE m == out[1]
    <3>1. /\ out # <<>> /\ Out = Tail(out) /\ In = in /\ thread'[r] = thread[r]
          /\ \/ m.kind = "welcome" /\ call'[w].pc = "seating" /\ call'[w].of = m.of
             \/ call'[w] = NoCall /\ call[w].pc = "waiting" /\ m.kind = "refused"
             \/ /\ call'[w] = call[w]
                /\ ~(call[w].pc = "waiting" /\ m.id = call[w].id /\ IsAnswer(m))
          /\ m.kind # "ended" => seat'[w] = seat[w]
          /\ m.kind = "ended" /\ seat[w] \notin {0, m.of} => "misled" \in odd'[w]
          /\ Lvp = Lv
      BY <1>0, <2>5, ReceiveEffect DEF in, out, In, Out, Lv, Lvp
    <3>2. /\ 1 \in DOMAIN out
          /\ \A i \in DOMAIN Out : i + 1 \in DOMAIN out /\ Out[i] = out[i + 1]
          /\ \A i \in DOMAIN out : i \in Nat /\ (i > 1 => i - 1 \in DOMAIN Out /\ Out[i - 1] = out[i])
      BY <2>t, <3>1, Taken
    <3>3. m.kind = "ended" => m.of \in ended
      BY <1>0, <3>2 DEF OnlyStarted, out
    <3>4. seat[w] = host => seat'[w] = host
      BY <1>0, <1>1, <3>1, <3>3 DEF OnlyStarted
    <3>5. m.kind = "welcome" => call'[w].pc = "seating"
      BY <2>o, <3>1, <3>2 DEF IsAnswer
    <3>6. ASSUME NEW i \in DOMAIN out, out[i].kind = "welcome"
          PROVE  call'[w].pc = "seating" \/ \E j \in DOMAIN Out : Out[j].kind = "welcome"
      <4>1. i = 1 \/ i > 1
        BY <2>t
      <4>2. CASE i > 1
        BY <3>2, <3>6, <4>2
      <4> QED BY <3>5, <3>6, <4>1, <4>2
    <3>7. call[w].pc = "seating" => call'[w].pc = "seating"
      BY <3>1
    <3>8. \A i \in DOMAIN Out : Out[i].kind = "welcome" => Out[i].of = host
      BY <2>m, <3>2
    <3>9. call'[w].pc = "seating" => call'[w].of = host
      BY <2>j, <2>m, <3>1, <3>2
    <3> QED BY <2>m, <2>x, <3>1, <3>4, <3>6, <3>7, <3>8, <3>9
  <2>6. CASE OnJoinParty(w) \/ LeaveArrives(w)
    <3>1. in # <<>> /\ In = Tail(in)
      BY <1>0, <2>6, RequestTaken DEF in, In
    <3>2. /\ 1 \in DOMAIN in
          /\ \A i \in DOMAIN in : i \in Nat /\ (i > 1 => i - 1 \in DOMAIN In /\ In[i - 1] = in[i])
      BY <2>t, <3>1, Taken
    <3>3. UNCHANGED <<call, seat>> /\ Lvp = Lv /\ thread[r].pc = "idle"
      BY <1>0, <2>6, RequestEffect DEF r, Lv, Lvp
    <3>4. \/ in[1].kind = "join" /\ Out = out /\ thread'[r].of = host
          \/ /\ in[1].kind = "join" /\ thread'[r] = thread[r]
             /\ \E m \in Messages : m.kind = "refused" /\ Posts(w, m)
          \/ /\ in[1].kind = "leave" /\ Out = out /\ thread'[r].pc = "leave"
             /\ thread'[r].job = "leave" /\ thread'[r].of = host
      BY <1>0, <1>1, <2>6, RequestEffect DEF in, out, Out, r
    <3>5. Jp => thread'[r].of = host
      BY <3>3, <3>4
    <3>6. /\ \A i \in DOMAIN Out : Out[i].kind = "welcome" => i \in DOMAIN out /\ Out[i] = out[i]
          /\ \A i \in DOMAIN out : i \in DOMAIN Out /\ Out[i] = out[i]
      <4>1. ASSUME NEW m \in Messages, m.kind = "refused", Posts(w, m)
            PROVE  /\ \A i \in DOMAIN Out : Out[i].kind = "welcome" => i \in DOMAIN out /\ Out[i] = out[i]
                   /\ \A i \in DOMAIN out : i \in DOMAIN Out /\ Out[i] = out[i]
        <5>1. Out = Append(out, m)
          BY <1>2, <4>1 DEF Posts, Out, out
        <5>2. \A i \in DOMAIN out : i \in DOMAIN Out /\ Out[i] = out[i]
          BY <2>t, <5>1, Sent
        <5>3. \A i \in DOMAIN Out : Out[i] = m \/ (i \in DOMAIN out /\ Out[i] = out[i])
          BY <2>t, <5>1, AfterSent
        <5> QED BY <4>1, <5>2, <5>3
      <4> QED BY <3>4, <4>1
    <3>7. (\E i \in DOMAIN in : in[i].kind = "leave") =>
            (\E i \in DOMAIN In : In[i].kind = "leave") \/ Tp
      <4> SUFFICES ASSUME NEW i \in DOMAIN in, in[i].kind = "leave"
                   PROVE  (\E j \in DOMAIN In : In[j].kind = "leave") \/ Tp
        OBVIOUS
      <4>1. i = 1 \/ i > 1
        BY <2>t
      <4>2. CASE i > 1
        BY <3>2, <4>2
      <4>3. CASE i = 1
        <5>1. thread'[r].pc = "leave" /\ thread'[r].of = host'
          BY <1>1, <3>4, <4>3
        <5> QED BY <5>1 DEF Tp, TakesOut
      <4> QED BY <4>1, <4>2, <4>3
    <3> QED BY <2>m, <2>x, <3>3, <3>5, <3>6, <3>7
  <2>7. CASE Reply(<<w, "read">>)
    <3>1. /\ thread[r].pc = "reply" /\ thread'[r] = Idle /\ UNCHANGED call
          /\ \E m \in Messages : m.kind = "welcome" /\ m.of = thread[r].of /\ Posts(w, m)
      BY <1>0, <2>7, ReplyEffect DEF r
    <3>2. thread[r].of = host
      BY <1>0, <2>m, <2>t, <3>1 DEF JobsFit
    <3>3. PICK m \in Messages : m.kind = "welcome" /\ m.of = host /\ Posts(w, m)
      BY <3>1, <3>2
    <3>4. Out = Append(out, m)
      BY <1>2, <3>3 DEF Posts, Out, out
    <3>5. \E i \in DOMAIN Out : Out[i].kind = "welcome"
      BY <2>t, <3>3, <3>4, Sent
    <3>6. \A i \in DOMAIN Out : Out[i] = m \/ (i \in DOMAIN out /\ Out[i] = out[i])
      BY <2>t, <3>4, AfterSent
    <3>7. \A i \in DOMAIN Out : Out[i].kind = "welcome" => Out[i].of = host
      BY <2>m, <3>3, <3>6
    <3> QED BY <2>j, <2>m, <3>1, <3>5, <3>7
  <2>8. CASE Elsewhere(w)
    <3>1. /\ call'[w] = call[w] /\ seat'[w] = seat[w] /\ Lvp = Lv /\ In = in
          /\ \/ Out = out
             \/ \E m \in Messages : m.kind \in {"audience", "ended"} /\ Out = Append(out, m)
      BY <1>0, <2>8, ElsewhereEffect DEF in, out, In, Out, Lv, Lvp
    <3>2. (Jp => J /\ thread'[r].of = thread[r].of) /\ (J => Jp)
      BY <1>0, <2>j, <2>8, ElsewhereEffect DEF ReadGoesOn, r
    <3>3. /\ \A i \in DOMAIN Out : Out[i].kind = "welcome" => i \in DOMAIN out /\ Out[i] = out[i]
          /\ \A i \in DOMAIN out : i \in DOMAIN Out /\ Out[i] = out[i]
      <4>1. ASSUME NEW m \in Messages, m.kind \in {"audience", "ended"}, Out = Append(out, m)
            PROVE  /\ \A i \in DOMAIN Out : Out[i].kind = "welcome" => i \in DOMAIN out /\ Out[i] = out[i]
                   /\ \A i \in DOMAIN out : i \in DOMAIN Out /\ Out[i] = out[i]
        <5>2. \A i \in DOMAIN out : i \in DOMAIN Out /\ Out[i] = out[i]
          BY <2>t, <4>1, Sent
        <5>3. \A i \in DOMAIN Out : Out[i] = m \/ (i \in DOMAIN out /\ Out[i] = out[i])
          BY <2>t, <4>1, AfterSent
        <5> QED BY <4>1, <5>2, <5>3
      <4> QED BY <3>1, <4>1
    <3> QED BY <2>m, <2>x, <3>1, <3>2, <3>3
  <2> QED BY <1>2, <2>1, <2>2, <2>3, <2>4, <2>5, <2>6, <2>7, <2>8, <2>9
         DEF Elsewhere, ViewerMoves
<1> QED BY <1>4, <1>5

SeatInv ==
    RoomBase /\ CallsMatched /\ JoinersIn /\ SeatedAreMembers /\ EndComes /\ OneCall /\ MembersHeld

LEMMA SeatInvHolds == RoomSpec => []SeatInv
<1>1. RoomInit => SeatInv
  <2> SUFFICES ASSUME RoomInit PROVE SeatInv
    OBVIOUS
  <2>1. \A v \in Viewers : /\ thread[<<v, "read">>].pc = "idle" /\ call[v].pc = "idle"
                           /\ issued[v] = 0 /\ seat[v] = 0
                           /\ toHost[v] = <<>> /\ toViewer[v] = <<>>
    BY ThreadNames, IdleTyped, CallRecords DEF RoomInit
  <2>2. host = 0 /\ ended = {}
    BY DEF RoomInit
  <2>3. CallsMatched
    <3> SUFFICES ASSUME NEW v \in Viewers PROVE Ordered(v) /\ CallIsLast(v)
      BY DEF CallsMatched
    <3>1. OrderedBy(v, 0, 0) /\ 0 \in 0..issued[v]
      BY <2>1 DEF OrderedBy, Ascending, Joining
    <3>2. Ordered(v)
      BY <3>1 DEF Ordered
    <3>3. CallIsLast(v)
      BY <2>1 DEF CallIsLast
    <3> QED BY <3>2, <3>3
  <2>4. JoinersIn /\ OneCall
    BY <2>1 DEF JoinersIn, OneCall, Joining
  <2>5. SeatedAreMembers /\ EndComes /\ MembersHeld
    BY <2>2 DEF SeatedAreMembers, EndComes, MembersHeld
  <2> QED BY <2>3, <2>4, <2>5, RoomBaseInit DEF SeatInv
<1>2. SeatInv /\ [RoomNext]_hostRoomVars => SeatInv'
  <2> SUFFICES ASSUME SeatInv, [RoomNext]_hostRoomVars PROVE SeatInv'
    OBVIOUS
  <2>0. RoomBase /\ CallsMatched /\ JoinersIn /\ SeatedAreMembers /\ EndComes /\ OneCall /\ MembersHeld
    BY DEF SeatInv
  <2>1. RoomBase'
    BY <2>0, RoomBaseStep
  <2>2. CallsMatched'
    <3>1. ASSUME NEW v \in Viewers PROVE Ordered(v)' /\ CallIsLast(v)'
      BY <2>0, OrderedStep, CallIsLastStep DEF CallsMatched
    <3> QED BY <3>1 DEF CallsMatched
  <2>3. JoinersIn' /\ SeatedAreMembers' /\ EndComes'
    BY <2>0, JoinersInStep, SeatedAreMembersStep, EndComesStep
  <2>4. OneCall' /\ MembersHeld'
    BY <2>0, OneCallStep, MembersHeldStep
  <2> QED BY <2>1, <2>2, <2>3, <2>4 DEF SeatInv
<1> QED BY <1>1, <1>2, PTL DEF RoomSpec

\* The end is told: when all is quiet nobody sits in a party that EndParty ended,
\* unless its welcome left late, the end overtook its seat, it was dropped, or a
\* JoinParty overtook the message of its LeaveParty.
THEOREM EndsTold == RoomSpec => []EndTold
<1>1. SeatInv => EndTold
  <2> SUFFICES ASSUME SeatInv, NEW v \in Viewers, Settled(v), seat[v] \in ended
               PROVE  Excused(v)
    BY DEF EndTold, Excused
  <2>1. SeatedIn(v, seat[v]) /\ ender.pc = "idle" /\ toViewer[v] = <<>>
    BY DEF SeatedIn, Settled
  <2>2. ~ToldYet(v, seat[v]) /\ ~EndOnItsWay(v, seat[v], 0)
    BY <2>1 DEF ToldYet, EndOnItsWay
  <2> QED BY <2>1, <2>2 DEF SeatInv, EndComes
<1> QED BY <1>1, SeatInvHolds, PTL

\* Members are seated: when all is quiet a member of the live party's Audience sits
\* in it, unless its call gave up or the end of an earlier party came late.
THEOREM MembersAreSeated == RoomSpec => []MembersSeated
<1>1. SeatInv => MembersSeated
  <2> SUFFICES ASSUME SeatInv, NEW v \in Viewers, Settled(v), host # 0, v \in audience[host],
                      odd[v] \cap {"gaveup", "misled"} = {}
               PROVE  seat[v] = host
    BY DEF MembersSeated
  <2>1. /\ conn[v] = "up" /\ call[v].pc = "idle" /\ toHost[v] = <<>> /\ toViewer[v] = <<>>
        /\ thread[<<v, "read">>].pc = "idle" /\ thread[<<v, "state">>].pc = "idle"
        /\ ~(leaving[v] > 0)
    BY ThreadNames DEF Settled
  <2>2. MemberHeld(v)
    BY <2>1 DEF SeatInv, MembersHeld
  <2> QED BY <2>1, <2>2 DEF MemberHeld, Joining, TakesOut
<1> QED BY <1>1, SeatInvHolds, PTL

=============================================================================
