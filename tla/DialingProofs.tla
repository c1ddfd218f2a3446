--------------------------- MODULE DialingProofs ----------------------------
(***************************************************************************)
(* Proofs about Dialing, for any number of Nodes, API calls and faults:    *)
(* type correctness, that no session offers twice, that the mesh alone     *)
(* never makes two ends offer to each other, and that what is set on a     *)
(* session was signed by the Node it is with.                              *)
(***************************************************************************)
EXTENDS Dialing, TLAPS

\* No Node is handed a relay that names itself as the sender.
RelayInv == \A n \in Nodes : \A i \in DOMAIN inbox[n] : inbox[n][i].from # n

\* The mesh only dials from the lower NodeID.
LookedInv == \A e \in Edges : <<e, "mesh">> \in looked => e[1] < e[2]

\* A session offers once: Start is still to come, the offer is being gathered, or
\* it is out (or was lost), never two of these; whoever offers for the mesh is the
\* lower NodeID; and the description that is set is the remote's.
EdgeInv(e) ==
    /\ sess[e].start => offers[e] = 0 /\ sess[e].sdp \in {"fresh", "answering", "stable"}
    /\ sess[e].sdp \in {"none", "gathering"} => offers[e] = 0
    /\ offers[e] <= 1
    /\ (sess[e].start \/ sess[e].sdp = "gathering" \/ offers[e] > 0) => e \in byHand \/ e[1] < e[2]
    /\ sess[e].signer \in {0, e[2]}

-----------------------------------------------------------------------------
\* Records

LEMMA EdgeFacts ==
    /\ \A e \in Edges : e[1] \in Nodes /\ e[2] \in Nodes /\ e[1] # e[2] /\ Back(e) \in Edges
                        /\ e = <<e[1], e[2]>>
    /\ \A n, m \in Nodes : n # m => <<n, m>> \in Edges
    /\ \A e \in Edges : Back(e)[1] = e[2] /\ Back(e)[2] = e[1]
    /\ \A e \in Edges : e # <<>>
BY DEF Edges, Back

LEMMA SessionRecords ==
    ASSUME NEW r \in Sessions
    PROVE  /\ NoSession \in Sessions
           /\ \A b \in BOOLEAN : [r EXCEPT !.handler = b] \in Sessions
           /\ \A b \in BOOLEAN : [r EXCEPT !.start = b] \in Sessions
           /\ \A d \in {"none", "fresh", "gathering", "offered", "answering", "stable"} :
                 /\ [r EXCEPT !.sdp = d] \in Sessions
                 /\ [r EXCEPT !.start = FALSE, !.sdp = d] \in Sessions
                 /\ \A k \in Nat, s \in Nodes :
                       [r EXCEPT !.sdp = d, !.met = k, !.signer = s] \in Sessions
                 /\ \A k \in Nat, s \in Nodes, b \in BOOLEAN :
                       [r EXCEPT !.sdp = d, !.met = k, !.signer = s, !.dead = b] \in Sessions
           /\ \A b \in BOOLEAN : [NoSession EXCEPT !.sdp = "fresh", !.handler = b] \in Sessions
           /\ [r EXCEPT !.ready = TRUE] \in Sessions
           /\ [r EXCEPT !.dead = TRUE] \in Sessions
           /\ r.start \in BOOLEAN
           /\ r.sdp \in {"none", "fresh", "gathering", "offered", "answering", "stable"}
BY DEF Sessions, NoSession

\* What sessionFor returns.
LEMMA SessionForFacts ==
    ASSUME TypeOK, NEW e \in Edges
    PROVE  /\ SessionFor(e) \in Sessions
           /\ Has(e) => SessionFor(e) = sess[e]
           /\ ~Has(e) => /\ SessionFor(e).sdp = "fresh" /\ SessionFor(e).start = FALSE
                         /\ SessionFor(e).signer = 0
<1>1. sess[e] \in Sessions /\ (e[1] \in wired) \in BOOLEAN
  BY DEF TypeOK
<1>2. SessionFor(e) \in Sessions /\ (Has(e) => SessionFor(e) = sess[e])
  BY <1>1, SessionRecords DEF SessionFor
<1>3. ~Has(e) => /\ SessionFor(e).sdp = "fresh" /\ SessionFor(e).start = FALSE
                 /\ SessionFor(e).signer = 0
  BY DEF SessionFor, NoSession
<1> QED
  BY <1>2, <1>3

LEMMA RelayRecords ==
    ASSUME TypeOK, NEW n \in Nodes, NEW kind \in {"offer", "answer", "dial"}
    PROVE  /\ Relay(n, kind) \in Relays /\ Relay(n, kind).from = n
           /\ \A m \in Nodes : /\ [Relay(n, kind) EXCEPT !.from = m] \in Relays
                               /\ [Relay(n, kind) EXCEPT !.from = m].from = m
BY DEF Relay, Relays, TypeOK

\* A relay that arrives, and one that is taken.
LEMMA InboxFacts ==
    ASSUME TypeOK, RelayInv, NEW n \in Nodes
    PROVE  /\ \A s \in Relays : s.from # n /\ inbox' = [inbox EXCEPT ![n] = Append(@, s)]
                 => inbox' \in [Nodes -> Seq(Relays)] /\ RelayInv'
           /\ inbox[n] # <<>> =>
                 /\ Head(inbox[n]) \in Relays /\ Head(inbox[n]).from \in Nodes \ {n}
                 /\ Head(inbox[n]).by \in Nodes /\ Head(inbox[n]).epoch \in Nat
                 /\ inbox' = [inbox EXCEPT ![n] = Tail(@)]
                      => inbox' \in [Nodes -> Seq(Relays)] /\ RelayInv'
<1>1. inbox \in [Nodes -> Seq(Relays)] /\ inbox[n] \in Seq(Relays)
  BY DEF TypeOK
<1>2. ASSUME NEW s \in Relays, s.from # n, inbox' = [inbox EXCEPT ![n] = Append(@, s)]
      PROVE  inbox' \in [Nodes -> Seq(Relays)] /\ RelayInv'
  <2>1. Append(inbox[n], s) \in Seq(Relays)
    BY <1>1
  <2>2. \A i \in DOMAIN Append(inbox[n], s) : Append(inbox[n], s)[i].from # n
    <3> TAKE i \in DOMAIN Append(inbox[n], s)
    <3>1. \/ i \in DOMAIN inbox[n] /\ Append(inbox[n], s)[i] = inbox[n][i]
          \/ Append(inbox[n], s)[i] = s
      BY <1>1
    <3> QED
      BY <1>2, <3>1 DEF RelayInv
  <2>3. inbox'[n] = Append(inbox[n], s) /\ \A m \in Nodes \ {n} : inbox'[m] = inbox[m]
    BY <1>1, <1>2
  <2>4. inbox' \in [Nodes -> Seq(Relays)]
    BY <1>1, <1>2, <2>1
  <2> QED
    BY <2>2, <2>3, <2>4 DEF RelayInv
<1>3. ASSUME inbox[n] # <<>>
      PROVE  /\ Head(inbox[n]) \in Relays /\ Head(inbox[n]).from \in Nodes \ {n}
             /\ Head(inbox[n]).by \in Nodes /\ Head(inbox[n]).epoch \in Nat
             /\ inbox' = [inbox EXCEPT ![n] = Tail(@)]
                  => inbox' \in [Nodes -> Seq(Relays)] /\ RelayInv'
  <2>1. Head(inbox[n]) = inbox[n][1] /\ 1 \in DOMAIN inbox[n] /\ Head(inbox[n]) \in Relays
    BY <1>1, <1>3
  <2>2. Head(inbox[n]).from # n
    BY <2>1 DEF RelayInv
  <2>3. /\ Head(inbox[n]).from \in Nodes /\ Head(inbox[n]).by \in Nodes
        /\ Head(inbox[n]).epoch \in Nat
    BY <2>1 DEF Relays
  <2>4. ASSUME inbox' = [inbox EXCEPT ![n] = Tail(@)]
        PROVE  inbox' \in [Nodes -> Seq(Relays)] /\ RelayInv'
    <3>1. /\ Tail(inbox[n]) \in Seq(Relays)
          /\ \A i \in DOMAIN Tail(inbox[n]) :
                i + 1 \in DOMAIN inbox[n] /\ Tail(inbox[n])[i] = inbox[n][i + 1]
      BY <1>1, <1>3
    <3>2. inbox'[n] = Tail(inbox[n]) /\ \A m \in Nodes \ {n} : inbox'[m] = inbox[m]
      BY <1>1, <2>4
    <3>3. inbox' \in [Nodes -> Seq(Relays)]
      BY <1>1, <2>4, <3>1
    <3>4. \A i \in DOMAIN Tail(inbox[n]) : Tail(inbox[n])[i].from # n
      BY <3>1 DEF RelayInv
    <3> QED
      BY <3>2, <3>3, <3>4, Zenon DEF RelayInv
  <2> QED
    BY <2>1, <2>2, <2>3, <2>4
<1> QED
  BY <1>2, <1>3

-----------------------------------------------------------------------------
\* Type correctness

RouterOK ==
    /\ router \in [Nodes -> Edges \cup {<<>>}]
    /\ \A n \in Nodes : router[n] # <<>> => router[n][1] = n /\ sess[router[n]].sdp = "answering"

\* One session changes; no answer is being gathered for it unless it stays so.
LEMMA OneSession ==
    ASSUME TypeOK, NEW e \in Edges, NEW r \in Sessions, sess' = [sess EXCEPT ![e] = r],
           router' = router, sess[e].sdp = "answering" => r.sdp = "answering"
    PROVE  sess' \in [Edges -> Sessions] /\ RouterOK'
BY DEF TypeOK, RouterOK

LEMMA HitType ==
    ASSUME TypeOK, NEW S \in SUBSET Edges, Hit(S)
    PROVE  trouble' \in SUBSET Edges
BY EdgeFacts DEF Hit, TypeOK

LEMMA TypeInit ==
    ASSUME Init
    PROVE  TypeOK /\ RelayInv
<1>1. NoSession \in Sessions
  BY DEF NoSession, Sessions
<1>2. sess \in [Edges -> Sessions]
  BY <1>1 DEF Init
<1>3. inbox \in [Nodes -> Seq(Relays)]
  BY DEF Init
<1>4. 0 \in 0..MaxHand /\ 0 \in 0..MaxFaults
  BY DialingAssumption
<1>5. offers \in [Edges -> Nat] /\ epoch \in [Nodes -> Nat \ {0}]
  BY DEF Init
<1>6. RouterOK
  BY DEF Init, RouterOK
<1>7. RelayInv
  BY DEF Init, RelayInv
<1> QED
  BY <1>2, <1>3, <1>4, <1>5, <1>6, <1>7 DEF Init, TypeOK, RouterOK

\* The steps of one edge's session.
LEMMA EdgeTypes ==
    ASSUME TypeOK, RelayInv, NEW e \in Edges,
           EnsurePeer(e) \/ Session(e) \/ Calling(e) \/ Negotiating(e)
    PROVE  TypeOK' /\ RelayInv'
<1> USE DEF faultVars
<1>0. /\ sess[e] \in Sessions /\ e[1] \in Nodes /\ e[2] \in Nodes /\ e[1] # e[2]
      /\ sess \in [Edges -> Sessions] /\ inbox \in [Nodes -> Seq(Relays)]
  BY EdgeFacts DEF TypeOK
<1>1. CASE EnsurePeer(e)
  <2>1. looked' \in SUBSET (Edges \X {"mesh", "hand"})
    BY <1>1 DEF EnsurePeer, TypeOK
  <2>2. inbox' \in [Nodes -> Seq(Relays)] /\ RelayInv'
    <3>1. CASE UNCHANGED inbox
      BY <1>0, <3>1 DEF RelayInv
    <3>2. CASE Send(e[1], e[2], "dial")
      <4>1. Relay(e[1], "dial") \in Relays /\ Relay(e[1], "dial").from # e[2]
        BY <1>0, RelayRecords
      <4>2. inbox' = [inbox EXCEPT ![e[2]] = Append(@, Relay(e[1], "dial"))]
        BY <3>2 DEF Send
      <4> QED
        BY <1>0, <4>1, <4>2, InboxFacts
    <3> QED
      BY <1>1, <3>1, <3>2 DEF EnsurePeer
  <2> QED
    BY <1>1, <2>1, <2>2 DEF EnsurePeer, TypeOK
<1>2. CASE Session(e)
  <2>1. hand' \in 0..MaxHand
    BY <1>2, DialingAssumption DEF Session, TypeOK
  <2> QED
    BY <1>2, <2>1 DEF Session, TypeOK, RelayInv
<1>3. ASSUME NEW c \in {"mesh", "hand"}, Dial(e, c)
      PROVE  TypeOK' /\ RelayInv'
  <2> DEFINE b == Drives(e) \/ sess[e].start
             r == [SessionFor(e) EXCEPT !.start = b]
  <2>1. b \in BOOLEAN
    BY <1>0, SessionRecords DEF Drives
  <2>2. r \in Sessions
    BY <2>1, SessionForFacts, SessionRecords
  <2>3. sess[e].sdp = "answering" => r.sdp = "answering"
    <3>1. SessionFor(e) \in Sessions
      BY SessionForFacts
    <3>2. r.sdp = SessionFor(e).sdp
      BY <3>1 DEF Sessions
    <3> QED
      BY <3>2, SessionForFacts DEF Has
  <2>4. sess' = [sess EXCEPT ![e] = r] /\ router' = router
    BY <1>3 DEF Dial
  <2> HIDE DEF r, b
  <2>5. sess' \in [Edges -> Sessions] /\ RouterOK'
    BY <2>2, <2>3, <2>4, OneSession
  <2>6. byHand' \in SUBSET Edges /\ looked' \in SUBSET (Edges \X {"mesh", "hand"})
    BY <1>3 DEF Dial, TypeOK
  <2> QED
    BY <1>3, <2>5, <2>6 DEF Dial, TypeOK, RelayInv, RouterOK
<1>4. CASE Start(e)
  <2> DEFINE r == [sess[e] EXCEPT !.start = FALSE, !.sdp = LocalOffer(sess[e].sdp)]
  <2>1. LocalOffer(sess[e].sdp) \in {"gathering", "answering"}
    BY DEF LocalOffer
  <2>2. r \in Sessions
    BY <1>0, <2>1, SessionRecords
  <2>3. sess[e].sdp = "answering" => r.sdp = "answering"
    BY <1>0 DEF LocalOffer, Sessions
  <2>4. sess' = [sess EXCEPT ![e] = r] /\ router' = router
    BY <1>0, <1>4 DEF Start
  <2> HIDE DEF r
  <2>5. sess' \in [Edges -> Sessions] /\ RouterOK'
    BY <2>2, <2>3, <2>4, OneSession
  <2> QED
    BY <1>4, <2>5 DEF Start, TypeOK, RelayInv, RouterOK
<1>5. CASE SendOffer(e)
  <2> DEFINE r == [sess[e] EXCEPT !.sdp = "offered"]
  <2>1. r \in Sessions /\ sess[e].sdp # "answering"
    BY <1>0, <1>5, SessionRecords DEF SendOffer
  <2>2. sess' = [sess EXCEPT ![e] = r] /\ router' = router
    BY <1>0, <1>5 DEF SendOffer
  <2> HIDE DEF r
  <2>3. sess' \in [Edges -> Sessions] /\ RouterOK'
    BY <2>1, <2>2, OneSession
  <2>4. inbox' \in [Nodes -> Seq(Relays)] /\ RelayInv'
    <3>1. Relay(e[1], "offer") \in Relays /\ Relay(e[1], "offer").from # e[2]
      BY <1>0, RelayRecords
    <3>2. inbox' = [inbox EXCEPT ![e[2]] = Append(@, Relay(e[1], "offer"))]
      BY <1>5 DEF SendOffer, Send
    <3> QED
      BY <1>0, <3>1, <3>2, InboxFacts
  <2>5. offers' \in [Edges -> Nat]
    BY <1>5 DEF SendOffer, TypeOK
  <2> QED
    BY <1>5, <2>3, <2>4, <2>5 DEF SendOffer, TypeOK, RouterOK
<1>6. CASE Handshake(e)
  <2> DEFINE r == [sess[e] EXCEPT !.ready = TRUE]
  <2>0. sess[e].sdp = "answering" => r.sdp = "answering"
    BY <1>0 DEF Sessions
  <2>1. r \in Sessions /\ (sess[e].sdp = "answering" => r.sdp = "answering")
    BY <1>0, <2>0, SessionRecords
  <2>2. sess' = [sess EXCEPT ![e] = r] /\ router' = router
    BY <1>0, <1>6 DEF Handshake
  <2> HIDE DEF r
  <2>3. sess' \in [Edges -> Sessions] /\ RouterOK'
    BY <2>1, <2>2, OneSession
  <2> QED
    BY <1>6, <2>3 DEF Handshake, TypeOK, RelayInv, RouterOK
<1> QED
  BY <1>1, <1>2, <1>3, <1>4, <1>5, <1>6 DEF Calling, Negotiating

\* routeRelays' steps at Node n.
LEMMA RoutingTypes ==
    ASSUME TypeOK, RelayInv, NEW n \in Nodes, Routing(n)
    PROVE  TypeOK' /\ RelayInv'
<1> USE DEF faultVars
<1>0. /\ sess \in [Edges -> Sessions] /\ inbox \in [Nodes -> Seq(Relays)]
      /\ router \in [Nodes -> Edges \cup {<<>>}]
  BY DEF TypeOK
<1> DEFINE h == Head(inbox[n])
           e == <<n, h.from>>
<1>1. ASSUME inbox[n] # <<>>
      PROVE  /\ h \in Relays /\ h.from \in Nodes \ {n} /\ h.by \in Nodes /\ h.epoch \in Nat
             /\ e \in Edges /\ e[1] = n /\ e[2] = h.from
             /\ inbox' = [inbox EXCEPT ![n] = Tail(@)]
                  => inbox' \in [Nodes -> Seq(Relays)] /\ RelayInv'
  <2>1. /\ h \in Relays /\ h.from \in Nodes \ {n} /\ h.by \in Nodes /\ h.epoch \in Nat
        /\ inbox' = [inbox EXCEPT ![n] = Tail(@)]
             => inbox' \in [Nodes -> Seq(Relays)] /\ RelayInv'
    BY <1>1, InboxFacts
  <2>2. e \in Edges
    BY <2>1, EdgeFacts
  <2> QED
    BY <2>1, <2>2
<1>2. CASE RouteDial(n)
  <2>1. inbox[n] # <<>> /\ inbox' = [inbox EXCEPT ![n] = Tail(@)]
    BY <1>2 DEF RouteDial, NextIs
  <2>2. inbox' \in [Nodes -> Seq(Relays)] /\ RelayInv' /\ e \in Edges
    BY <1>1, <2>1
  <2>3. looked' = looked \/ looked' = looked \cup {<<e, "mesh">>}
    BY <1>2 DEF RouteDial
  <2> HIDE DEF e, h
  <2>4. looked' \in SUBSET (Edges \X {"mesh", "hand"})
    BY <2>2, <2>3 DEF TypeOK
  <2> QED
    BY <1>2, <2>2, <2>4 DEF RouteDial, TypeOK
<1>3. CASE RouteOffer(n)
  <2> DEFINE takes == Verified(h) /\ SessionFor(e).sdp \in {"fresh", "stable"}
             r == IF takes
                    THEN [SessionFor(e) EXCEPT !.sdp = "answering", !.met = h.epoch, !.signer = h.by,
                                               !.dead = @ \/ OtherProcess(SessionFor(e), h)]
                    ELSE SessionFor(e)
  <2>1. inbox[n] # <<>> /\ inbox' = [inbox EXCEPT ![n] = Tail(@)] /\ router[n] = <<>>
    BY <1>3 DEF RouteOffer, NextIs
  <2>2. /\ inbox' \in [Nodes -> Seq(Relays)] /\ RelayInv' /\ e \in Edges /\ e[1] = n
        /\ h.epoch \in Nat /\ h.by \in Nodes
    BY <1>1, <2>1
  <2>3. sess' = [sess EXCEPT ![e] = r] /\ router' = IF takes THEN [router EXCEPT ![n] = e] ELSE router
    BY <1>3 DEF RouteOffer
  <2>4. SessionFor(e) \in Sessions
    BY <2>2, SessionForFacts
  <2>5. r \in Sessions
    BY <2>2, <2>4, SessionRecords
  <2>6. takes => r.sdp = "answering"
    BY <2>4 DEF Sessions
  <2> HIDE DEF r, takes, h, e
  <2>7. sess' \in [Edges -> Sessions]
    BY <1>0, <2>3, <2>5
  <2>8. RouterOK'
    <3>1. router' \in [Nodes -> Edges \cup {<<>>}]
      BY <1>0, <2>2, <2>3
    <3>2. ASSUME NEW m \in Nodes, router'[m] # <<>>
          PROVE  router'[m][1] = m /\ sess'[router'[m]].sdp = "answering"
      <4>1. CASE m = n
        <5>1. takes /\ router'[m] = e
          BY <1>0, <2>1, <2>3, <3>2, <4>1
        <5> QED
          BY <1>0, <2>2, <2>3, <2>6, <4>1, <5>1
      <4>2. CASE m # n
        <5>1. router'[m] = router[m]
          BY <1>0, <2>3, <4>2
        <5>2. router[m] \in Edges /\ router[m][1] = m /\ sess[router[m]].sdp = "answering"
          BY <1>0, <3>2, <5>1 DEF TypeOK
        <5>3. router[m] # e
          BY <2>2, <4>2, <5>2
        <5> QED
          BY <1>0, <2>3, <5>1, <5>2, <5>3
      <4> QED
        BY <4>1, <4>2
    <3> QED
      BY <3>1, <3>2 DEF RouterOK
  <2> QED
    BY <1>3, <2>2, <2>7, <2>8 DEF RouteOffer, TypeOK, RouterOK
<1>4. CASE SendAnswer(n)
  <2> DEFINE f == router[n]
             r == [sess[f] EXCEPT !.sdp = "stable"]
  <2>1. f \in Edges /\ f[1] = n /\ f[2] \in Nodes /\ f[2] # n /\ sess[f] \in Sessions
    BY <1>0, <1>4, EdgeFacts DEF SendAnswer, TypeOK
  <2>2. r \in Sessions
    BY <2>1, SessionRecords
  <2>3. sess' = [sess EXCEPT ![f] = r] /\ router' = [router EXCEPT ![n] = <<>>]
    BY <1>4 DEF SendAnswer
  <2> HIDE DEF r
  <2>4. sess' \in [Edges -> Sessions]
    BY <1>0, <2>2, <2>3
  <2>5. RouterOK'
    <3>1. router' \in [Nodes -> Edges \cup {<<>>}]
      BY <1>0, <2>3
    <3>2. ASSUME NEW m \in Nodes, router'[m] # <<>>
          PROVE  router'[m][1] = m /\ sess'[router'[m]].sdp = "answering"
      <4>1. m # n /\ router'[m] = router[m]
        BY <1>0, <2>3, <3>2
      <4>2. router[m] \in Edges /\ router[m][1] = m /\ sess[router[m]].sdp = "answering"
        BY <1>0, <3>2, <4>1 DEF TypeOK
      <4>3. router[m] # f
        BY <2>1, <4>1, <4>2
      <4> QED
        BY <1>0, <2>3, <4>1, <4>2, <4>3
    <3> QED
      BY <3>1, <3>2 DEF RouterOK
  <2>6. inbox' \in [Nodes -> Seq(Relays)] /\ RelayInv'
    <3>1. Relay(n, "answer") \in Relays /\ Relay(n, "answer").from # f[2]
      BY <2>1, RelayRecords
    <3>2. inbox' = [inbox EXCEPT ![f[2]] = Append(@, Relay(n, "answer"))]
      BY <1>4 DEF SendAnswer, Send
    <3> QED
      BY <2>1, <3>1, <3>2, InboxFacts
  <2> QED
    BY <1>4, <2>4, <2>5, <2>6 DEF SendAnswer, TypeOK, RouterOK
<1>5. CASE RouteAnswer(n)
  <2> DEFINE r == IF Verified(h) /\ SessionFor(e).sdp = "offered"
                    THEN [sess[e] EXCEPT !.sdp = "stable", !.met = h.epoch, !.signer = h.by]
                    ELSE SessionFor(e)
  <2>1. inbox[n] # <<>> /\ inbox' = [inbox EXCEPT ![n] = Tail(@)]
    BY <1>5 DEF RouteAnswer, NextIs
  <2>2. /\ inbox' \in [Nodes -> Seq(Relays)] /\ RelayInv' /\ e \in Edges
        /\ h.epoch \in Nat /\ h.by \in Nodes
    BY <1>1, <2>1
  <2>3. sess' = [sess EXCEPT ![e] = r] /\ router' = router
    BY <1>5 DEF RouteAnswer
  <2>4. SessionFor(e) \in Sessions /\ sess[e] \in Sessions
    BY <1>0, <2>2, SessionForFacts
  <2>5. r \in Sessions
    BY <2>2, <2>4, SessionRecords
  <2>6. sess[e].sdp = "answering" => r.sdp = "answering"
    BY <2>2, SessionForFacts DEF Has
  <2> HIDE DEF r, h, e
  <2>7. sess' \in [Edges -> Sessions] /\ RouterOK'
    BY <2>2, <2>3, <2>5, <2>6, OneSession
  <2> QED
    BY <1>5, <2>2, <2>7 DEF RouteAnswer, TypeOK, RouterOK
<1> QED
  BY <1>2, <1>3, <1>4, <1>5 DEF Routing

LEMMA FaultTypes ==
    ASSUME TypeOK, RelayInv, Fault
    PROVE  TypeOK' /\ RelayInv'
<1>0. /\ sess \in [Edges -> Sessions] /\ inbox \in [Nodes -> Seq(Relays)]
      /\ router \in [Nodes -> Edges \cup {<<>>}]
  BY DEF TypeOK
<1>1. faults < MaxFaults /\ faults' = faults + 1 => faults' \in 0..MaxFaults
  BY DialingAssumption DEF TypeOK
<1>2. ASSUME NEW n \in Nodes, Lose(n)
      PROVE  TypeOK' /\ RelayInv'
  <2>1. inbox[n] # <<>> /\ inbox' = [inbox EXCEPT ![n] = Tail(@)]
    BY <1>2 DEF Lose
  <2>2. inbox' \in [Nodes -> Seq(Relays)] /\ RelayInv' /\ <<n, Head(inbox[n]).from>> \in Edges
    BY <2>1, InboxFacts, EdgeFacts
  <2>3. trouble' \in SUBSET Edges
    BY <1>2, <2>2, HitType DEF Lose, TypeOK
  <2> QED
    BY <1>1, <1>2, <2>2, <2>3 DEF Lose, TypeOK
<1>3. ASSUME NEW n \in Nodes, Crash(n)
      PROVE  TypeOK' /\ RelayInv'
  <2>1. NoSession \in Sessions
    BY DEF NoSession, Sessions
  <2>2. sess' \in [Edges -> Sessions]
    BY <1>0, <1>3, <2>1 DEF Crash
  <2>3. RouterOK'
    <3>1. router' = [router EXCEPT ![n] = <<>>]
      BY <1>3 DEF Crash
    <3>2. router' \in [Nodes -> Edges \cup {<<>>}]
      BY <1>0, <3>1
    <3>3. ASSUME NEW m \in Nodes, router'[m] # <<>>
          PROVE  router'[m][1] = m /\ sess'[router'[m]].sdp = "answering"
      <4>1. m # n /\ router'[m] = router[m]
        BY <1>0, <3>1, <3>3
      <4>2. router[m] \in Edges /\ router[m][1] = m /\ sess[router[m]].sdp = "answering"
        BY <1>0, <3>3, <4>1 DEF TypeOK
      <4>3. sess'[router[m]] = sess[router[m]]
        BY <1>3, <4>1, <4>2 DEF Crash
      <4> QED
        BY <4>1, <4>2, <4>3
    <3> QED
      BY <3>2, <3>3 DEF RouterOK
  <2>4. inbox' \in [Nodes -> Seq(Relays)] /\ RelayInv'
    <3>1. inbox' = [inbox EXCEPT ![n] = <<>>]
      BY <1>3 DEF Crash
    <3>2. inbox' \in [Nodes -> Seq(Relays)]
      BY <1>0, <3>1
    <3>3. inbox'[n] = <<>> /\ \A m \in Nodes \ {n} : inbox'[m] = inbox[m]
      BY <1>0, <3>1
    <3> QED
      BY <3>2, <3>3 DEF RelayInv
  <2>5. /\ epoch' \in [Nodes -> Nat \ {0}] /\ offers' \in [Edges -> Nat]
        /\ wired' \in SUBSET Nodes /\ byHand' \in SUBSET Edges
        /\ looked' \in SUBSET (Edges \X {"mesh", "hand"}) /\ hand' = hand
    BY <1>3 DEF Crash, TypeOK
  <2>6. trouble' \in SUBSET Edges
    <3>1. Orphaned(n) \in SUBSET Edges
      BY DEF Orphaned
    <3> QED
      BY <1>3, <3>1, HitType DEF Crash
  <2>7. faults' \in 0..MaxFaults
    BY <1>1, <1>3 DEF Crash
  <2> QED
    BY <2>2, <2>3, <2>4, <2>5, <2>6, <2>7 DEF TypeOK, RouterOK
<1>4. ASSUME NEW e \in Edges, GatherTimeout(e)
      PROVE  TypeOK' /\ RelayInv'
  <2> DEFINE r == [sess[e] EXCEPT !.sdp = "offered"]
  <2>1. r \in Sessions /\ sess[e].sdp # "answering"
    BY <1>0, <1>4, SessionRecords DEF GatherTimeout
  <2>2. sess' = [sess EXCEPT ![e] = r] /\ router' = router
    BY <1>4 DEF GatherTimeout
  <2> HIDE DEF r
  <2>3. sess' \in [Edges -> Sessions] /\ RouterOK'
    BY <2>1, <2>2, OneSession
  <2>4. trouble' \in SUBSET Edges
    BY <1>4, HitType DEF GatherTimeout
  <2> QED
    BY <1>1, <1>4, <2>3, <2>4 DEF GatherTimeout, TypeOK, RelayInv, RouterOK
<1>5. ASSUME NEW e \in Edges, Break(e)
      PROVE  TypeOK' /\ RelayInv'
  <2>2. sess' = [sess EXCEPT ![e].dead = TRUE]
    BY <1>5 DEF Break
  <2>3. \A f \in Edges : sess'[f] = sess[f] \/ sess'[f] = [sess[f] EXCEPT !.dead = TRUE]
    BY <1>0, <2>2
  <2>4. \A f \in Edges : sess'[f] \in Sessions /\ sess'[f].sdp = sess[f].sdp
    <3> TAKE f \in Edges
    <3> DEFINE r == [sess[f] EXCEPT !.dead = TRUE]
    <3>1. r \in Sessions
      BY <1>0, SessionRecords
    <3>2. r.sdp = sess[f].sdp
      BY <1>0 DEF Sessions
    <3> QED
      BY <1>0, <2>3, <3>1, <3>2
  <2>5. sess' \in [Edges -> Sessions]
    BY <1>0, <2>2, <2>4
  <2>6. RouterOK'
    <3>1. router' = router
      BY <1>5 DEF Break
    <3>2. \A n \in Nodes : router[n] # <<>> => router[n] \in Edges
      BY <1>0
    <3>3. \A n \in Nodes : router[n] # <<>> => router[n][1] = n /\ sess[router[n]].sdp = "answering"
      BY DEF TypeOK
    <3> QED
      BY <1>0, <2>4, <3>1, <3>2, <3>3 DEF RouterOK
  <2>7. trouble' \in SUBSET Edges
    BY <1>5, HitType DEF Break
  <2> QED
    BY <1>1, <1>5, <2>5, <2>6, <2>7 DEF Break, TypeOK, RelayInv, RouterOK
<1>6. ASSUME NEW e \in Edges, NEW b \in Nodes, NEW kind \in {"offer", "answer"}, Stray(e, b, kind)
      PROVE  TypeOK' /\ RelayInv'
  <2> DEFINE s == [Relay(b, kind) EXCEPT !.from = e[2]]
  <2>1. s \in Relays /\ s.from # e[1] /\ e[1] \in Nodes
    BY RelayRecords, EdgeFacts
  <2>2. inbox' = [inbox EXCEPT ![e[1]] = Append(@, s)]
    BY <1>6 DEF Stray
  <2> HIDE DEF s
  <2>3. inbox' \in [Nodes -> Seq(Relays)] /\ RelayInv'
    BY <2>1, <2>2, InboxFacts
  <2>4. trouble' \in SUBSET Edges
    BY <1>6, HitType DEF Stray
  <2> QED
    BY <1>1, <1>6, <2>3, <2>4 DEF Stray, TypeOK
<1> QED
  BY <1>2, <1>3, <1>4, <1>5, <1>6 DEF Fault

LEMMA TypeStep ==
    ASSUME TypeOK, RelayInv, [Next]_vars
    PROVE  TypeOK' /\ RelayInv'
<1>1. ASSUME NEW n \in Nodes, SetCatalog(n)
      PROVE  TypeOK' /\ RelayInv'
  <2>1. \A e \in Edges : /\ sess'[e] = sess[e] \/ sess'[e] = [sess[e] EXCEPT !.handler = TRUE]
                         /\ sess[e] \in Sessions
    BY <1>1 DEF SetCatalog, TypeOK
  <2>2. \A e \in Edges : sess'[e] \in Sessions
    <3> TAKE e \in Edges
    <3>1. [sess[e] EXCEPT !.handler = TRUE] \in Sessions
      BY <2>1, SessionRecords
    <3> QED
      BY <2>1, <3>1
  <2>3. \A e \in Edges : sess'[e].sdp = sess[e].sdp
    BY <2>1 DEF Sessions
  <2>4. sess' \in [Edges -> Sessions]
    BY <1>1, <2>2 DEF SetCatalog
  <2> QED
    BY <1>1, <2>3, <2>4 DEF SetCatalog, TypeOK, RelayInv, faultVars
<1>2. CASE UNCHANGED vars
  BY <1>2 DEF vars, faultVars, TypeOK, RelayInv
<1> QED
  BY <1>1, <1>2, EdgeTypes, RoutingTypes, FaultTypes DEF Next

\* The table of sessions, the relays and routeRelays' answer under way stay well
\* formed: while routeRelays gathers an answer, that session is answering.
THEOREM TypeCorrect == Spec => []TypeOK
<1>1. Init => TypeOK /\ RelayInv
  BY TypeInit
<1>2. (TypeOK /\ RelayInv) /\ [Next]_vars => (TypeOK /\ RelayInv)'
  BY TypeStep
<1> QED
  BY <1>1, <1>2, PTL DEF Spec

-----------------------------------------------------------------------------
\* Offers, glare and signatures

\* What EdgeInv reads of an edge stays.
Same(e) ==
    /\ sess'[e].sdp = sess[e].sdp /\ sess'[e].signer = sess[e].signer
    /\ sess'[e].start <=> sess[e].start
    /\ offers'[e] = offers[e]
    /\ e \in byHand => e \in byHand'

LEMMA SameKeeps ==
    ASSUME NEW e \in Edges, EdgeInv(e), Same(e)
    PROVE  EdgeInv(e)'
BY DEF EdgeInv, Same

\* The fields of a session after one of the updates below.
LEMMA Fields ==
    ASSUME NEW r \in Sessions
    PROVE  /\ \A b \in BOOLEAN :
                 /\ [r EXCEPT !.start = b].sdp = r.sdp /\ [r EXCEPT !.start = b].signer = r.signer
                 /\ [r EXCEPT !.start = b].start = b
           /\ \A d :
                 /\ [r EXCEPT !.sdp = d].sdp = d /\ [r EXCEPT !.sdp = d].signer = r.signer
                 /\ [r EXCEPT !.sdp = d].start = r.start
                 /\ [r EXCEPT !.start = FALSE, !.sdp = d].sdp = d
                 /\ [r EXCEPT !.start = FALSE, !.sdp = d].start = FALSE
                 /\ [r EXCEPT !.start = FALSE, !.sdp = d].signer = r.signer
                 /\ \A k, s : /\ [r EXCEPT !.sdp = d, !.met = k, !.signer = s].sdp = d
                              /\ [r EXCEPT !.sdp = d, !.met = k, !.signer = s].start = r.start
                              /\ [r EXCEPT !.sdp = d, !.met = k, !.signer = s].signer = s
           /\ [r EXCEPT !.ready = TRUE].sdp = r.sdp /\ [r EXCEPT !.ready = TRUE].start = r.start
           /\ [r EXCEPT !.ready = TRUE].signer = r.signer
           /\ [r EXCEPT !.dead = TRUE].sdp = r.sdp /\ [r EXCEPT !.dead = TRUE].start = r.start
           /\ [r EXCEPT !.dead = TRUE].signer = r.signer
           /\ [r EXCEPT !.handler = TRUE].sdp = r.sdp /\ [r EXCEPT !.handler = TRUE].start = r.start
           /\ [r EXCEPT !.handler = TRUE].signer = r.signer
BY DEF Sessions

\* sessionFor keeps what EdgeInv says.
LEMMA SessionForEdge ==
    ASSUME TypeOK, NEW e \in Edges, EdgeInv(e)
    PROVE  /\ SessionFor(e).start => offers[e] = 0 /\ SessionFor(e).sdp \in {"fresh", "answering", "stable"}
           /\ SessionFor(e).sdp # "none"
           /\ SessionFor(e).sdp = "gathering" => offers[e] = 0
           /\ SessionFor(e).start \/ SessionFor(e).sdp = "gathering" => e \in byHand \/ e[1] < e[2]
           /\ SessionFor(e).signer \in {0, e[2]}
<1>1. CASE Has(e)
  <2>1. SessionFor(e) = sess[e] /\ sess[e].sdp # "none"
    BY <1>1, SessionForFacts DEF Has
  <2> QED
    BY <2>1 DEF EdgeInv
<1>2. CASE ~Has(e)
  <2>1. SessionFor(e).sdp = "fresh" /\ ~SessionFor(e).start /\ SessionFor(e).signer = 0
    BY <1>2, SessionForFacts
  <2> QED
    BY <2>1
<1> QED
  BY <1>1, <1>2

LEMMA EdgeStep ==
    ASSUME TypeOK, LookedInv, \A e \in Edges : EdgeInv(e), NEW e \in Edges,
           EnsurePeer(e) \/ Session(e) \/ Calling(e) \/ Negotiating(e)
    PROVE  LookedInv' /\ \A f \in Edges : EdgeInv(f)'
<1>0. sess \in [Edges -> Sessions] /\ sess[e] \in Sessions /\ offers \in [Edges -> Nat] /\ EdgeInv(e)
  BY DEF TypeOK
<1>1. CASE EnsurePeer(e) \/ Session(e)
  <2>1. UNCHANGED <<sess, offers, byHand>>
    BY <1>1 DEF EnsurePeer, Session
  <2>2. LookedInv'
    BY <1>1 DEF EnsurePeer, Session, ShouldDial, LookedInv
  <2> QED
    BY <2>1, <2>2 DEF EdgeInv
<1>2. ASSUME NEW c \in {"mesh", "hand"}, Dial(e, c)
      PROVE  LookedInv' /\ \A f \in Edges : EdgeInv(f)'
  <2> DEFINE b == Drives(e) \/ sess[e].start
             r == [SessionFor(e) EXCEPT !.start = b]
  <2>1. /\ sess' = [sess EXCEPT ![e] = r] /\ offers' = offers
        /\ looked' \subseteq looked /\ byHand \subseteq byHand'
    BY <1>2 DEF Dial
  <2>2. b \in BOOLEAN /\ SessionFor(e) \in Sessions
    BY <1>0, SessionForFacts, SessionRecords DEF Drives
  <2>3. r.sdp = SessionFor(e).sdp /\ r.signer = SessionFor(e).signer /\ r.start = b
    BY <2>2, Fields
  <2>4. c = "mesh" => e[1] < e[2]
    BY <1>2 DEF Dial, LookedInv
  <2>5. ~Has(e) => offers[e] = 0 /\ (e \in byHand' \/ e[1] < e[2])
    <3>1. ~Has(e) => offers[e] = 0
      BY <1>0 DEF EdgeInv, Has
    <3>2. ~Has(e) /\ c = "hand" => e \in byHand'
      BY <1>2 DEF Dial
    <3> QED
      BY <2>4, <3>1, <3>2
  <2>6. b => ~Has(e) \/ (Has(e) /\ sess[e].start)
    BY DEF Drives
  <2>7. sess'[e] = r /\ \A f \in Edges \ {e} : sess'[f] = sess[f]
    BY <1>0, <2>1
  <2> HIDE DEF r, b
  <2>8. EdgeInv(e)'
    <3>1. CASE Has(e)
      <4>1. SessionFor(e) = sess[e]
        BY <3>1, SessionForFacts
      <4> QED
        BY <1>0, <2>1, <2>3, <2>6, <2>7, <3>1, <4>1 DEF EdgeInv
    <3>2. CASE ~Has(e)
      <4>1. SessionFor(e).sdp = "fresh" /\ SessionFor(e).signer = 0
        BY <3>2, SessionForFacts
      <4> QED
        BY <2>1, <2>3, <2>5, <2>7, <3>2, <4>1 DEF EdgeInv
    <3> QED
      BY <3>1, <3>2
  <2>9. \A f \in Edges \ {e} : EdgeInv(f)'
    BY <2>1, <2>7, SameKeeps DEF Same
  <2>10. LookedInv'
    BY <2>1 DEF LookedInv
  <2> QED
    BY <2>8, <2>9, <2>10
<1>3. CASE Start(e)
  <2> DEFINE d == LocalOffer(sess[e].sdp)
             r == [sess[e] EXCEPT !.start = FALSE, !.sdp = d]
  <2>1. sess' = [sess EXCEPT ![e] = r] /\ offers' = offers /\ byHand' = byHand /\ looked' = looked
    BY <1>0, <1>3 DEF Start
  <2>2. r.sdp = d /\ r.signer = sess[e].signer /\ ~r.start /\ d \in {"answering", "gathering"}
    BY <1>0, Fields DEF LocalOffer
  <2>3. sess'[e] = r /\ \A f \in Edges \ {e} : sess'[f] = sess[f]
    BY <1>0, <2>1
  <2>4. sess[e].start
    BY <1>3 DEF Start
  <2> HIDE DEF r, d
  <2>5. EdgeInv(e)'
    BY <1>0, <2>1, <2>2, <2>3, <2>4 DEF EdgeInv
  <2>6. \A f \in Edges \ {e} : EdgeInv(f)'
    BY <2>1, <2>3, SameKeeps DEF Same
  <2> QED
    BY <2>1, <2>5, <2>6 DEF LookedInv
<1>4. CASE SendOffer(e)
  <2> DEFINE r == [sess[e] EXCEPT !.sdp = "offered"]
  <2>1. /\ sess' = [sess EXCEPT ![e] = r] /\ byHand' = byHand /\ looked' = looked
        /\ offers' = [offers EXCEPT ![e] = @ + 1] /\ sess[e].sdp = "gathering"
    BY <1>0, <1>4 DEF SendOffer
  <2>2. r.sdp = "offered" /\ r.signer = sess[e].signer /\ (r.start <=> sess[e].start)
    BY <1>0, Fields
  <2>3. sess'[e] = r /\ \A f \in Edges \ {e} : sess'[f] = sess[f]
    BY <1>0, <2>1
  <2>4. offers[e] = 0 /\ ~sess[e].start /\ (e \in byHand \/ e[1] < e[2])
    BY <1>0, <2>1 DEF EdgeInv
  <2>5. offers'[e] = 1 /\ \A f \in Edges \ {e} : offers'[f] = offers[f]
    BY <1>0, <2>1, <2>4
  <2> HIDE DEF r
  <2>6. EdgeInv(e)'
    BY <1>0, <2>1, <2>2, <2>3, <2>4, <2>5 DEF EdgeInv
  <2>7. \A f \in Edges \ {e} : EdgeInv(f)'
    BY <2>1, <2>3, <2>5, SameKeeps DEF Same
  <2> QED
    BY <2>1, <2>6, <2>7 DEF LookedInv
<1>5. CASE Handshake(e)
  <2> DEFINE r == [sess[e] EXCEPT !.ready = TRUE]
  <2>1. /\ sess' = [sess EXCEPT ![e] = r] /\ byHand' = byHand /\ looked' = looked
        /\ offers' = offers
    BY <1>0, <1>5 DEF Handshake
  <2>2. r.sdp = sess[e].sdp /\ r.signer = sess[e].signer /\ (r.start <=> sess[e].start)
    BY <1>0, Fields
  <2>3. sess'[e] = r /\ \A f \in Edges \ {e} : sess'[f] = sess[f]
    BY <1>0, <2>1
  <2> HIDE DEF r
  <2>4. \A f \in Edges : EdgeInv(f)'
    BY <2>1, <2>2, <2>3, SameKeeps DEF Same
  <2> QED
    BY <2>1, <2>4 DEF LookedInv
<1> QED
  BY <1>1, <1>2, <1>3, <1>4, <1>5 DEF Calling, Negotiating

LEMMA RoutingStep ==
    ASSUME TypeOK, RelayInv, LookedInv, \A e \in Edges : EdgeInv(e), NEW n \in Nodes, Routing(n)
    PROVE  LookedInv' /\ \A f \in Edges : EdgeInv(f)'
<1>0. /\ sess \in [Edges -> Sessions] /\ offers \in [Edges -> Nat]
      /\ router \in [Nodes -> Edges \cup {<<>>}]
  BY DEF TypeOK
<1>1. ASSUME inbox[n] # <<>>
      PROVE  \E h \in Relays, e \in Edges :
                h = Head(inbox[n]) /\ e = <<n, Head(inbox[n]).from>> /\ e[1] = n /\ e[2] = h.from
  <2>1. Head(inbox[n]).from \in Nodes \ {n} /\ Head(inbox[n]) \in Relays
    BY <1>1, InboxFacts
  <2>2. <<n, Head(inbox[n]).from>> \in Edges
    BY <2>1, EdgeFacts
  <2> QED
    BY <2>1, <2>2
<1>2. CASE RouteDial(n)
  <2>0. PICK h \in Relays, e \in Edges :
                h = Head(inbox[n]) /\ e = <<n, Head(inbox[n]).from>> /\ e[1] = n /\ e[2] = h.from
    BY <1>1, <1>2 DEF RouteDial, NextIs
  <2>1. UNCHANGED <<sess, offers, byHand>>
    BY <1>2 DEF RouteDial
  <2>2. looked' = looked \/ (n < h.from /\ looked' = looked \cup {<<e, "mesh">>})
    BY <1>2, <2>0 DEF RouteDial, ShouldDial
  <2>3. LookedInv'
    BY <2>0, <2>2 DEF LookedInv
  <2> QED
    BY <2>1, <2>3 DEF EdgeInv
<1>3. CASE RouteOffer(n)
  <2>0. PICK h \in Relays, e \in Edges :
                h = Head(inbox[n]) /\ e = <<n, Head(inbox[n]).from>> /\ e[1] = n /\ e[2] = h.from
    BY <1>1, <1>3 DEF RouteOffer, NextIs
  <2> DEFINE takes == Verified(h) /\ SessionFor(e).sdp \in {"fresh", "stable"}
             u == [SessionFor(e) EXCEPT !.sdp = "answering", !.met = h.epoch, !.signer = h.by,
                                        !.dead = @ \/ OtherProcess(SessionFor(e), h)]
             r == IF takes THEN u ELSE SessionFor(e)
  <2>1. /\ e \in Edges /\ e[2] = h.from
        /\ byHand' = byHand /\ looked' = looked /\ offers' = offers
    BY <1>3, <2>0 DEF RouteOffer
  <2>2. sess' = [sess EXCEPT ![e] = r]
    BY <1>3, <2>0 DEF RouteOffer
  <2>3. SessionFor(e) \in Sessions /\ EdgeInv(e)
    BY <2>1, SessionForFacts
  <2>4. u.sdp = "answering" /\ u.signer = h.by /\ (u.start <=> SessionFor(e).start)
    BY <2>3, Fields
  <2>5. takes => h.by = e[2]
    BY <2>1 DEF Verified
  <2>6. /\ SessionFor(e).start => offers[e] = 0 /\ SessionFor(e).sdp \in {"fresh", "answering", "stable"}
        /\ SessionFor(e).sdp # "none"
        /\ SessionFor(e).sdp = "gathering" => offers[e] = 0
        /\ SessionFor(e).start \/ SessionFor(e).sdp = "gathering" => e \in byHand \/ e[1] < e[2]
        /\ SessionFor(e).signer \in {0, e[2]}
    BY <2>1, <2>3, SessionForEdge
  <2>7. sess'[e] = r /\ \A f \in Edges \ {e} : sess'[f] = sess[f]
    BY <1>0, <2>1, <2>2
  <2>8. \A f \in Edges \ {e} : EdgeInv(f)'
    BY <2>1, <2>7, SameKeeps DEF Same
  <2>9. EdgeInv(e)'
    <3>0. (takes => sess'[e] = u) /\ (~takes => sess'[e] = SessionFor(e))
      BY <2>7
    <3> HIDE DEF u, takes
    <3>1. CASE takes
      BY <2>1, <2>3, <2>4, <2>5, <2>6, <3>0, <3>1 DEF EdgeInv
    <3>2. CASE ~takes
      BY <2>1, <2>3, <2>6, <3>0, <3>2 DEF EdgeInv
    <3> QED
      BY <3>1, <3>2
  <2> QED
    BY <2>1, <2>8, <2>9 DEF LookedInv
<1>4. CASE SendAnswer(n)
  <2>0. PICK g \in Edges : g = router[n]
    BY <1>0, <1>4 DEF SendAnswer
  <2> DEFINE r == [sess[g] EXCEPT !.sdp = "stable"]
  <2>1. /\ sess[g] \in Sessions /\ sess[g].sdp = "answering" /\ EdgeInv(g)
        /\ byHand' = byHand /\ looked' = looked /\ offers' = offers
        /\ sess' = [sess EXCEPT ![g] = r]
    BY <1>0, <1>4, <2>0 DEF SendAnswer, TypeOK
  <2>2. r.sdp = "stable" /\ r.signer = sess[g].signer /\ (r.start <=> sess[g].start)
    BY <2>1, Fields
  <2>3. sess'[g] = r /\ \A f \in Edges \ {g} : sess'[f] = sess[f]
    BY <1>0, <2>1
  <2> HIDE DEF r
  <2>4. EdgeInv(g)'
    BY <2>1, <2>2, <2>3 DEF EdgeInv
  <2>5. \A f \in Edges \ {g} : EdgeInv(f)'
    BY <2>1, <2>3, SameKeeps DEF Same
  <2> QED
    BY <2>1, <2>4, <2>5 DEF LookedInv
<1>5. CASE RouteAnswer(n)
  <2>0. PICK h \in Relays, e \in Edges :
                h = Head(inbox[n]) /\ e = <<n, Head(inbox[n]).from>> /\ e[1] = n /\ e[2] = h.from
    BY <1>1, <1>5 DEF RouteAnswer, NextIs
  <2> DEFINE takes == Verified(h) /\ SessionFor(e).sdp = "offered"
             u == [sess[e] EXCEPT !.sdp = "stable", !.met = h.epoch, !.signer = h.by]
             r == IF takes THEN u ELSE SessionFor(e)
  <2>1. /\ e \in Edges /\ e[2] = h.from
        /\ byHand' = byHand /\ looked' = looked /\ offers' = offers
    BY <1>5, <2>0 DEF RouteAnswer
  <2>2. sess' = [sess EXCEPT ![e] = r]
    BY <1>5, <2>0 DEF RouteAnswer
  <2>3. sess[e] \in Sessions /\ EdgeInv(e)
    BY <1>0, <2>1
  <2>4. u.sdp = "stable" /\ u.signer = h.by /\ (u.start <=> sess[e].start)
    BY <2>3, Fields
  <2>5. takes => h.by = e[2] /\ sess[e].sdp = "offered"
    <3>1. SessionFor(e).sdp = "offered" => Has(e) /\ SessionFor(e) = sess[e]
      BY <2>1, SessionForFacts
    <3> QED
      BY <2>1, <3>1 DEF Verified
  <2>6. /\ SessionFor(e).start => offers[e] = 0 /\ SessionFor(e).sdp \in {"fresh", "answering", "stable"}
        /\ SessionFor(e).sdp # "none"
        /\ SessionFor(e).sdp = "gathering" => offers[e] = 0
        /\ SessionFor(e).start \/ SessionFor(e).sdp = "gathering" => e \in byHand \/ e[1] < e[2]
        /\ SessionFor(e).signer \in {0, e[2]}
    BY <2>1, <2>3, SessionForEdge
  <2>7. sess'[e] = r /\ \A f \in Edges \ {e} : sess'[f] = sess[f]
    BY <1>0, <2>1, <2>2
  <2>8. \A f \in Edges \ {e} : EdgeInv(f)'
    BY <2>1, <2>7, SameKeeps DEF Same
  <2>9. EdgeInv(e)'
    <3>0. (takes => sess'[e] = u) /\ (~takes => sess'[e] = SessionFor(e))
      BY <2>7
    <3> HIDE DEF u, takes
    <3>1. CASE takes
      BY <2>1, <2>3, <2>4, <2>5, <3>0, <3>1 DEF EdgeInv
    <3>2. CASE ~takes
      BY <2>1, <2>3, <2>6, <3>0, <3>2 DEF EdgeInv
    <3> QED
      BY <3>1, <3>2
  <2> QED
    BY <2>1, <2>8, <2>9 DEF LookedInv
<1> QED
  BY <1>2, <1>3, <1>4, <1>5 DEF Routing

LEMMA FaultStep ==
    ASSUME TypeOK, LookedInv, \A e \in Edges : EdgeInv(e), Fault
    PROVE  LookedInv' /\ \A f \in Edges : EdgeInv(f)'
<1>0. sess \in [Edges -> Sessions]
  BY DEF TypeOK
<1>1. ASSUME UNCHANGED <<sess, offers, byHand, looked>>
      PROVE  LookedInv' /\ \A f \in Edges : EdgeInv(f)'
  BY <1>1 DEF LookedInv, EdgeInv
<1>2. ASSUME NEW n \in Nodes, Lose(n)
      PROVE  LookedInv' /\ \A f \in Edges : EdgeInv(f)'
  BY <1>1, <1>2 DEF Lose
<1>3. ASSUME NEW n \in Nodes, Crash(n)
      PROVE  LookedInv' /\ \A f \in Edges : EdgeInv(f)'
  <2>1. LookedInv'
    BY <1>3 DEF Crash, LookedInv
  <2>2. ASSUME NEW f \in Edges, f[1] = n
        PROVE  EdgeInv(f)'
    <3>1. sess'[f] = NoSession /\ offers'[f] = 0
      BY <1>3, <2>2 DEF Crash
    <3>2. NoSession.sdp = "none" /\ ~NoSession.start /\ NoSession.signer = 0
      BY DEF NoSession
    <3> QED
      BY <3>1, <3>2 DEF EdgeInv
  <2>3. ASSUME NEW f \in Edges, f[1] # n
        PROVE  EdgeInv(f)'
    <3>1. sess'[f] = sess[f] /\ offers'[f] = offers[f] /\ (f \in byHand => f \in byHand')
      BY <1>3, <2>3 DEF Crash
    <3> QED
      BY <3>1, SameKeeps DEF Same
  <2> QED
    BY <2>1, <2>2, <2>3
<1>4. ASSUME NEW e \in Edges, GatherTimeout(e)
      PROVE  LookedInv' /\ \A f \in Edges : EdgeInv(f)'
  <2> DEFINE r == [sess[e] EXCEPT !.sdp = "offered"]
  <2>1. /\ sess' = [sess EXCEPT ![e] = r] /\ byHand' = byHand /\ looked' = looked
        /\ offers' = offers /\ sess[e].sdp = "gathering" /\ sess[e] \in Sessions /\ EdgeInv(e)
    BY <1>0, <1>4 DEF GatherTimeout
  <2>2. r.sdp = "offered" /\ r.signer = sess[e].signer /\ (r.start <=> sess[e].start)
    BY <2>1, Fields
  <2>3. sess'[e] = r /\ \A f \in Edges \ {e} : sess'[f] = sess[f]
    BY <1>0, <2>1
  <2> HIDE DEF r
  <2>4. EdgeInv(e)'
    BY <2>1, <2>2, <2>3 DEF EdgeInv
  <2>5. \A f \in Edges \ {e} : EdgeInv(f)'
    BY <2>1, <2>3, SameKeeps DEF Same
  <2> QED
    BY <2>1, <2>4, <2>5 DEF LookedInv
<1>5. ASSUME NEW e \in Edges, Break(e)
      PROVE  LookedInv' /\ \A f \in Edges : EdgeInv(f)'
  <2>2. /\ sess' = [sess EXCEPT ![e].dead = TRUE]
        /\ byHand' = byHand /\ looked' = looked /\ offers' = offers
    BY <1>5 DEF Break
  <2>3. \A f \in Edges : sess'[f] = sess[f] \/ sess'[f] = [sess[f] EXCEPT !.dead = TRUE]
    BY <1>0, <2>2
  <2>4. \A f \in Edges : Same(f)
    <3> TAKE f \in Edges
    <3> DEFINE r == [sess[f] EXCEPT !.dead = TRUE]
    <3>1. r \in Sessions /\ sess[f] \in Sessions
      BY <1>0, SessionRecords
    <3>2. r.sdp = sess[f].sdp /\ r.signer = sess[f].signer /\ (r.start <=> sess[f].start)
      BY <3>1, Fields
    <3>3. sess'[f] = sess[f] \/ sess'[f] = r
      BY <2>3
    <3> HIDE DEF r
    <3> QED
      BY <2>2, <3>2, <3>3 DEF Same
  <2> QED
    BY <2>2, <2>4, SameKeeps DEF LookedInv
<1>6. ASSUME NEW e \in Edges, NEW b \in Nodes, NEW kind \in {"offer", "answer"}, Stray(e, b, kind)
      PROVE  LookedInv' /\ \A f \in Edges : EdgeInv(f)'
  BY <1>1, <1>6 DEF Stray
<1> QED
  BY <1>2, <1>3, <1>4, <1>5, <1>6 DEF Fault

DialInv == (TypeOK /\ RelayInv) /\ LookedInv /\ \A e \in Edges : EdgeInv(e)

LEMMA DialInvHolds == Spec => []DialInv
<1>1. Init => DialInv
  <2> SUFFICES ASSUME Init
               PROVE  DialInv
    OBVIOUS
  <2>1. LookedInv
    BY DEF Init, LookedInv
  <2>2. NoSession.sdp = "none" /\ ~NoSession.start /\ NoSession.signer = 0
    BY DEF NoSession
  <2>3. \A e \in Edges : EdgeInv(e)
    BY <2>2 DEF Init, EdgeInv
  <2> QED
    BY <2>1, <2>3, TypeInit DEF DialInv
<1>2. DialInv /\ [Next]_vars => DialInv'
  <2> SUFFICES ASSUME DialInv, [Next]_vars
               PROVE  LookedInv' /\ \A e \in Edges : EdgeInv(e)'
    BY TypeStep DEF DialInv
  <2>1. ASSUME NEW n \in Nodes, SetCatalog(n)
        PROVE  LookedInv' /\ \A e \in Edges : EdgeInv(e)'
    <3>1. UNCHANGED <<offers, byHand, looked>>
      BY <2>1 DEF SetCatalog
    <3>2. \A e \in Edges : /\ sess'[e] = sess[e] \/ sess'[e] = [sess[e] EXCEPT !.handler = TRUE]
                           /\ sess[e] \in Sessions
      BY <2>1 DEF SetCatalog, DialInv, TypeOK
    <3>3. \A e \in Edges : Same(e)
      <4> TAKE e \in Edges
      <4> DEFINE r == [sess[e] EXCEPT !.handler = TRUE]
      <4>1. r.sdp = sess[e].sdp /\ r.signer = sess[e].signer /\ (r.start <=> sess[e].start)
        BY <3>2, Fields
      <4>2. sess'[e] = sess[e] \/ sess'[e] = r
        BY <3>2
      <4> HIDE DEF r
      <4> QED
        BY <3>1, <4>1, <4>2 DEF Same
    <3> QED
      BY <3>1, <3>3, SameKeeps DEF DialInv, LookedInv
  <2>2. CASE UNCHANGED vars
    BY <2>2 DEF vars, DialInv, LookedInv, EdgeInv
  <2> QED
    BY <2>1, <2>2, EdgeStep, RoutingStep, FaultStep DEF Next, DialInv
<1> QED
  BY <1>1, <1>2, PTL DEF Spec

\* However many Dials, nudges, offers and faults there are, a session sends at most
\* one offer: only the Dial that created it drives it.
THEOREM OneOfferHolds == Spec => []OneOffer
<1>1. DialInv => OneOffer
  BY DEF DialInv, EdgeInv, OneOffer
<1> QED
  BY <1>1, DialInvHolds, PTL

\* The mesh never makes glare: if both ends of an edge offered, an API call made
\* the session of the higher NodeID, against the glare rule.
THEOREM GlareHolds == Spec => []GlareOnlyByHand
<1>1. ASSUME DialInv
      PROVE  GlareOnlyByHand
  <2> SUFFICES ASSUME NEW e \in Edges, offers[e] > 0, e[1] > e[2], e \notin byHand
               PROVE  FALSE
    BY DEF GlareOnlyByHand
  <2>1. e[1] \in Nat /\ e[2] \in Nat
    BY EdgeFacts, DialingAssumption
  <2>2. e[1] < e[2]
    BY <1>1 DEF DialInv, EdgeInv
  <2> QED
    BY <2>1, <2>2
<1> QED
  BY <1>1, DialInvHolds, PTL

\* A description on a session is signed by the session's remote, whatever sender
\* the signaling server names.
THEOREM SignaturesHold == Spec => []SignedByRemote
<1>1. DialInv => SignedByRemote
  BY DEF DialInv, EdgeInv, SignedByRemote
<1> QED
  BY <1>1, DialInvHolds, PTL

=============================================================================
