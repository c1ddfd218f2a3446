-------------------------- MODULE PeerSessionProofs --------------------------
(***************************************************************************)
(* Proofs about PeerSession, for any number of requests, any file sizes    *)
(* and any high-water mark: type correctness, that no entry outlives its   *)
(* request, that flow control bounds the send buffer, and that a bulk      *)
(* request which succeeds has the whole file.                              *)
(***************************************************************************)
EXTENDS PeerSession, FiniteSetTheorems, SequenceTheorems, TLAPS

-----------------------------------------------------------------------------
\* The records: what their constructors give and what their fields are.

LEMMA RequestRecords ==
    /\ \A pc \in {"none", "send", "wait", "cleanup", "returned"}, b \in BOOLEAN, r \in Results :
          RequestAt(pc, b, r) \in RequestStates
    /\ \A q \in RequestStates :
          /\ q.pc \in {"none", "send", "wait", "cleanup", "returned"}
          /\ q.bulk \in BOOLEAN
          /\ q.res \in Results
BY DEF RequestAt, RequestStates

LEMMA LoopRecords ==
    /\ \A pc \in {"read", "put", "signal"}, i \in Ids \cup {0}, r \in Results :
          LoopAt(pc, i, r) \in LoopStates
    /\ \A q \in LoopStates : q.id \in Ids \cup {0} /\ q.res \in Results
BY DEF LoopAt, LoopStates

LEMMA BulkLoopRecords ==
    /\ \A pc \in {"read", "write", "signal"}, i \in Ids \cup {0}, n \in Nat, b \in BOOLEAN :
          BulkLoopAt(pc, i, n, b) \in BulkLoopStates
    /\ \A q \in BulkLoopStates : q.id \in Ids \cup {0} /\ q.n \in Nat /\ q.last \in BOOLEAN
BY DEF BulkLoopAt, BulkLoopStates

LEMMA TransferRecords ==
    /\ \A pc \in {"none", "read", "check", "wait", "send", "fail", "done"}, z, n \in Nat :
          TransferAt(pc, z, n) \in TransferStates
    /\ \A q \in TransferStates : q.size \in Nat /\ q.n \in Nat
BY DEF TransferAt, TransferStates

LEMMA MessageRecords ==
    /\ \A i \in Ids, b \in BOOLEAN : [id |-> i, bulk |-> b] \in Requests
    /\ \A q \in Requests : q.id \in Ids /\ q.bulk \in BOOLEAN
    /\ \A i \in Ids, r \in {"ok", "err"} : [id |-> i, res |-> r] \in Answers
    /\ \A q \in Answers : q.id \in Ids /\ q.res \in {"ok", "err"}
    /\ \A i \in Ids, k \in Nat, b \in BOOLEAN : [id |-> i, n |-> k, last |-> b] \in Frames
    /\ \A q \in Frames : q.id \in Ids /\ q.n \in Nat /\ q.last \in BOOLEAN
BY DEF Requests, Answers, Frames

\* Ids are the numbers 1 to MaxCalls, and a request that may be made has one.
LEMMA IdFacts ==
    /\ Ids \subseteq Nat
    /\ 0 \notin Ids
    /\ lastID \in 0..MaxCalls /\ lastID < MaxCalls
          => NextID \in Ids /\ lastID + 1 \in 0..MaxCalls /\ NextID > lastID
    /\ IsFiniteSet(Ids)
<1>1. IsFiniteSet(1..MaxCalls)
  BY BoundAssumption, FS_Interval
<1> QED
  BY <1>1, BoundAssumption DEF Ids, NextID

LEMMA RunningFinite ==
    /\ IsFiniteSet(Running)
    /\ Cardinality(Running) \in Nat
BY IdFacts, FS_Subset, FS_CardinalityType DEF Running

-----------------------------------------------------------------------------
\* Type correctness of every step of the protocol.
LEMMA TypeStep ==
    ASSUME TypeOK, [Next]_vars
    PROVE  TypeOK'
<1> USE DEF TypeOK, callerVars, remoteVars
<1>0. "none" \in Results /\ "ok" \in Results /\ "err" \in Results
  BY DEF Results
<1>1. CASE UNCHANGED vars
  BY <1>1 DEF vars
<1>2. CASE Call \/ FetchBulkTo
  <2>1. /\ NextID \in Ids
        /\ lastID + 1 \in 0..MaxCalls
    BY <1>2, IdFacts DEF Call, FetchBulkTo
  <2>2. \A b \in BOOLEAN : RequestAt("send", b, "none") \in RequestStates
    BY <1>0, RequestRecords
  <2> QED
    BY <1>2, <2>1, <2>2 DEF Call, FetchBulkTo
<1>3. ASSUME NEW i \in Ids, RequestStep(i) \/ CtxDone(i)
      PROVE  TypeOK'
  <2>0. request[i] \in RequestStates /\ slot[i] \in Results
    OBVIOUS
  <2>1. CASE SendRequest(i)
    <3>1. [id |-> i, bulk |-> request[i].bulk] \in Requests
      BY <2>0, RequestRecords, MessageRecords
    <3>2. RequestAt("wait", request[i].bulk, "none") \in RequestStates
      BY <2>0, <1>0, RequestRecords
    <3>3. requests' \in Seq(Requests)
      BY <2>1, <3>1 DEF SendRequest
    <3> QED
      BY <2>1, <3>2, <3>3 DEF SendRequest
  <2>2. CASE SendRequestFails(i)
    BY <2>2, <2>0, <1>0, RequestRecords DEF SendRequestFails
  <2>3. CASE CtxDone(i)
    BY <2>3, <2>0, <1>0, RequestRecords DEF CtxDone
  <2>4. CASE CleanUp(i)
    BY <2>4, <2>0, RequestRecords DEF CleanUp
  <2>5. CASE TakeReply(i)
    BY <2>5, <2>0, <1>0, RequestRecords DEF TakeReply
  <2>6. CASE TakeDone(i)
    BY <2>6, <2>0, <1>0, RequestRecords DEF TakeDone
  <2> QED
    BY <1>3, <2>1, <2>2, <2>3, <2>4, <2>5, <2>6 DEF RequestStep
<1>4. CASE ControlLoop
  <2>0. ReadingLoop \in LoopStates
    BY <1>0, LoopRecords DEF ReadingLoop
  <2>1. CASE ReadAnswer
    <3>1. Head(answers) \in Answers /\ Tail(answers) \in Seq(Answers)
      BY <2>1 DEF ReadAnswer
    <3>2. /\ LoopAt("signal", Head(answers).id, "err") \in LoopStates
          /\ LoopAt("put", Head(answers).id, Head(answers).res) \in LoopStates
      BY <3>1, <1>0, LoopRecords, MessageRecords
    <3> QED
      BY <2>1, <3>1, <3>2 DEF ReadAnswer
  <2>2. CASE PutReply
    BY <2>2, <2>0, LoopRecords DEF PutReply
  <2>3. CASE SignalError
    BY <2>3, <2>0, <1>0 DEF SignalError, Signalled
  <2> QED
    BY <1>4, <2>1, <2>2, <2>3 DEF ControlLoop
<1>5. CASE BulkLoop
  <2>0. ReadingBulk \in BulkLoopStates
    BY BulkLoopRecords DEF ReadingBulk
  <2>1. CASE ReadFrame
    <3>1. Head(wire) \in Frames /\ Tail(wire) \in Seq(Frames)
      BY <2>1 DEF ReadFrame
    <3>2. BulkLoopAt("write", Head(wire).id, Head(wire).n, Head(wire).last) \in BulkLoopStates
      BY <3>1, BulkLoopRecords, MessageRecords
    <3> QED
      BY <2>1, <3>1, <3>2 DEF ReadFrame
  <2>2. CASE WriteFrame
    <3>1. bulkLoop.n \in Nat
      BY BulkLoopRecords
    <3>2. \A s \in Seq(Nat) : Append(s, bulkLoop.n) \in Seq(Nat)
      BY <3>1
    <3>3. got' \in [Ids -> Seq(Nat)]
      <4>1. CASE bulkLoop.last
        BY <2>2, <4>1 DEF WriteFrame
      <4>2. CASE ~bulkLoop.last
        <5>1. got' = [got EXCEPT ![bulkLoop.id] = Append(got[bulkLoop.id], bulkLoop.n)]
          BY <2>2, <4>2 DEF WriteFrame
        <5>2. CASE bulkLoop.id \in Ids
          BY <5>1, <5>2, <3>2
        <5>3. CASE bulkLoop.id \notin Ids
          BY <5>1, <5>3
        <5> QED
          BY <5>2, <5>3
      <4> QED
        BY <4>1, <4>2
    <3>4. slot' \in [Ids -> Results]
      BY <2>2, <1>0 DEF WriteFrame, Signalled
    <3> QED
      BY <2>2, <2>0, <3>3, <3>4 DEF WriteFrame
  <2>3. CASE WriteFails
    <3>1. BulkLoopAt("signal", bulkLoop.id, 0, FALSE) \in BulkLoopStates
      BY BulkLoopRecords
    <3> QED
      BY <2>3, <3>1 DEF WriteFails
  <2>4. CASE SignalFailure
    BY <2>4, <2>0, <1>0 DEF SignalFailure, Signalled
  <2> QED
    BY <1>5, <2>1, <2>2, <2>3, <2>4 DEF BulkLoop
<1>6. CASE RemoteControl
  <2>1. /\ requests # <<>> => Head(requests) \in Requests /\ Tail(requests) \in Seq(Requests)
        /\ \A a \in Answers : Append(answers, a) \in Seq(Answers)
    OBVIOUS
  <2>2. ASSUME NEW res \in {"ok", "err"}, HandleCall(res)
        PROVE  TypeOK'
    BY <2>1, <2>2, MessageRecords DEF HandleCall
  <2>3. CASE HandleBulkUnavailable
    BY <2>1, <2>3, MessageRecords DEF HandleBulkUnavailable
  <2>4. ASSUME NEW size \in Sizes, HandleBulk(size)
        PROVE  TypeOK'
    <3>1. TransferAt("read", size, 0) \in TransferStates
      BY TransferRecords, BoundAssumption
    <3>2. peak' \in Nat
      BY <2>4, RunningFinite DEF HandleBulk
    <3> QED
      BY <2>1, <2>4, <3>1, <3>2 DEF HandleBulk
  <2> QED
    BY <1>6, <2>2, <2>3, <2>4 DEF RemoteControl
<1>7. ASSUME NEW i \in Ids, TransferStep(i)
      PROVE  TypeOK'
  <2>0. transfer[i].size \in Nat /\ transfer[i].n \in Nat
    BY TransferRecords
  <2>1. ASSUME NEW pc \in {"wait", "check", "send", "fail", "done"}, TransferGoes(i, pc),
               answers' \in Seq(Answers), UNCHANGED outBuf, lowSig' \in BOOLEAN
        PROVE  TypeOK'
    BY <2>0, <2>1, TransferRecords DEF TransferGoes
  <2>2. CASE ReadFails(i)
    BY <2>1, <2>2 DEF ReadFails
  <2>3. CASE BackpressureTimeout(i)
    BY <2>1, <2>3 DEF BackpressureTimeout
  <2>4. CASE SendFrameFails(i)
    BY <2>1, <2>4 DEF SendFrameFails
  <2>5. CASE CheckBuffer(i)
    BY <2>1, <2>5 DEF CheckBuffer
  <2>6. CASE Woken(i)
    BY <2>1, <2>6 DEF Woken
  <2>7. CASE SendFrame(i)
    <3>1. AtEOF(transfer[i]) \in BOOLEAN
      BY DEF AtEOF
    <3>2. [id |-> i, n |-> transfer[i].n + 1, last |-> AtEOF(transfer[i])] \in Frames
      BY <2>0, <3>1, MessageRecords
    <3>3. /\ TransferAt("done", transfer[i].size, transfer[i].n) \in TransferStates
          /\ TransferAt("read", transfer[i].size, transfer[i].n + 1) \in TransferStates
      <4>1. transfer[i].n + 1 \in Nat
        BY <2>0
      <4> QED
        BY <2>0, <4>1, TransferRecords
    <3> QED
      BY <2>7, <3>2, <3>3 DEF SendFrame
  <2>8. CASE ReportFailure(i)
    <3>0. [id |-> i, res |-> "err"] \in Answers
      BY MessageRecords
    <3>1. answers' \in Seq(Answers)
      BY <2>8, <3>0 DEF ReportFailure
    <3> QED
      BY <2>1, <2>8, <3>1 DEF ReportFailure
  <2> QED
    BY <1>7, <2>2, <2>3, <2>4, <2>5, <2>6, <2>7, <2>8 DEF TransferStep
<1>8. CASE BindBulk
  BY <1>8 DEF BindBulk
<1>9. CASE Drain
  <2>1. Head(outBuf) \in Frames /\ Tail(outBuf) \in Seq(Frames)
    BY <1>9 DEF Drain
  <2> QED
    BY <1>9, <2>1 DEF Drain
<1>10. CASE ConnectionLost
  BY <1>10 DEF ConnectionLost
<1> QED
  BY <1>1, <1>2, <1>3, <1>4, <1>5, <1>6, <1>7, <1>8, <1>9, <1>10 DEF Next

LEMMA TypeInit ==
    ASSUME Init
    PROVE  TypeOK
<1>1. /\ NoRequest \in RequestStates
      /\ ReadingLoop \in LoopStates
      /\ ReadingBulk \in BulkLoopStates
      /\ NoTransfer \in TransferStates
      /\ "none" \in Results
  BY RequestRecords, LoopRecords, BulkLoopRecords, TransferRecords
     DEF NoRequest, ReadingLoop, ReadingBulk, NoTransfer, Results
<1>2. 0 \in 0..MaxCalls
  BY BoundAssumption
<1>3. <<>> \in Seq(Nat) /\ <<>> \in Seq(Requests) /\ <<>> \in Seq(Answers)
      /\ <<>> \in Seq(Frames)
  OBVIOUS
<1>4. /\ request \in [Ids -> RequestStates]
      /\ slot \in [Ids -> Results]
      /\ transfer \in [Ids -> TransferStates]
  BY <1>1 DEF Init
<1>5. got \in [Ids -> Seq(Nat)]
  BY <1>3 DEF Init
<1> QED
  BY <1>1, <1>2, <1>3, <1>4, <1>5 DEF Init, TypeOK

\* Type correctness: the fields of the Session, the loops' variables and the
\* channels keep their types, for any number of requests and any file sizes.
THEOREM TypeCorrect == Spec => []TypeOK
BY TypeInit, TypeStep, PTL DEF Spec

-----------------------------------------------------------------------------
\* Entries and reply channels. An entry of pending is a call with an empty
\* channel: deliver removes the entry before it sends. Only bulk requests have
\* sinks, and the two loops hold ids of requests that were made, the bulk loop
\* and the error path of the control loop ids of bulk requests only.

InProgress == {"send", "wait", "cleanup"}

PendingInv ==
    \A i \in pending :
        /\ i <= lastID
        /\ request[i].pc \in InProgress
        /\ ~request[i].bulk
        /\ slot[i] = "none"

SinksInv ==
    \A i \in sinks :
        /\ i <= lastID
        /\ request[i].pc \in InProgress
        /\ request[i].bulk

FreshInv == \A i \in Ids : i > lastID => slot[i] = "none"

LoopsInv ==
    /\ control.pc = "put" =>
          control.id \in Ids /\ control.id <= lastID /\ control.id \notin pending
    /\ control.pc = "signal" =>
          control.id \in Ids /\ control.id <= lastID /\ request[control.id].bulk
    /\ bulkLoop.pc # "read" =>
          bulkLoop.id \in Ids /\ bulkLoop.id <= lastID /\ request[bulkLoop.id].bulk

EntryInv == PendingInv /\ SinksInv /\ FreshInv /\ LoopsInv

\* A step of a request that stays in progress and touches no channel.
LEMMA EntryRequestMoves ==
    ASSUME TypeOK, EntryInv, NEW i \in Ids, NEW pc \in InProgress, NEW r,
           request' = [request EXCEPT ![i] = RequestAt(pc, request[i].bulk, r)],
           UNCHANGED <<lastID, pending, sinks, slot, control, bulkLoop>>
    PROVE  EntryInv'
<1>1. \A j \in Ids : /\ request'[j].bulk = request[j].bulk
                     /\ request[j].pc \in InProgress => request'[j].pc \in InProgress
  BY DEF TypeOK, RequestAt
<1> QED
  BY <1>1 DEF TypeOK, EntryInv, PendingInv, SinksInv, FreshInv, LoopsInv

\* A signal to a bulk request's channel by a loop that goes back to reading.
LEMMA EntrySignalled ==
    ASSUME TypeOK, EntryInv, NEW i \in Ids, NEW r, i <= lastID, request[i].bulk,
           slot' = Signalled(i, r),
           UNCHANGED <<lastID, request, pending, sinks>>,
           control' = control \/ control' = ReadingLoop,
           bulkLoop' = bulkLoop \/ bulkLoop' = ReadingBulk
    PROVE  EntryInv'
<1>1. \A j \in Ids \ {i} : slot'[j] = slot[j]
  BY DEF TypeOK, Signalled
<1>2. i \notin pending
  BY DEF EntryInv, PendingInv
<1>3. ~(i > lastID)
  BY IdFacts DEF TypeOK
<1>4. LoopsInv'
  <2>1. ReadingLoop.pc = "read" /\ ReadingBulk.pc = "read"
    BY DEF ReadingLoop, ReadingBulk, LoopAt, BulkLoopAt
  <2> QED
    BY <2>1 DEF EntryInv, LoopsInv
<1>5. PendingInv' /\ FreshInv'
  BY <1>1, <1>2, <1>3 DEF TypeOK, EntryInv, PendingInv, FreshInv
<1> QED
  BY <1>4, <1>5 DEF EntryInv, SinksInv

LEMMA EntryUnchanged ==
    ASSUME EntryInv, UNCHANGED <<lastID, request, pending, sinks, slot, control, bulkLoop>>
    PROVE  EntryInv'
BY DEF EntryInv, PendingInv, SinksInv, FreshInv, LoopsInv

LEMMA EntryStep ==
    ASSUME TypeOK, EntryInv, [Next]_vars
    PROVE  EntryInv'
<1> USE DEF callerVars, remoteVars
<1>1. CASE UNCHANGED vars
  BY <1>1, EntryUnchanged DEF vars
<1>2. CASE Call \/ FetchBulkTo
  <2>1. /\ NextID \in Ids
        /\ NextID = lastID + 1
        /\ NextID > lastID
        /\ lastID' = lastID + 1
        /\ lastID \in Nat
    <3>1. lastID \in 0..MaxCalls /\ lastID < MaxCalls /\ lastID' = lastID + 1
      BY <1>2 DEF Call, FetchBulkTo, TypeOK
    <3> QED
      BY <3>1, IdFacts, BoundAssumption DEF NextID
  <2>2. \A j \in Ids : j \in Int /\ (j <= lastID => j <= lastID' /\ j # NextID)
    BY <2>1, IdFacts
  <2>3. /\ NextID <= lastID'
        /\ \A j \in Ids : j > lastID' => j > lastID
    BY <2>1, <2>2
  <2>4. \A j \in Ids \ {NextID} : request'[j] = request[j]
    BY <1>2, <2>1 DEF TypeOK, Call, FetchBulkTo
  <2>5. /\ request'[NextID].pc = "send"
        /\ Call => ~request'[NextID].bulk
        /\ FetchBulkTo => request'[NextID].bulk
    BY <1>2, <2>1 DEF TypeOK, Call, FetchBulkTo, RequestAt
  <2>6. slot' = slot /\ slot[NextID] = "none" /\ NextID \notin pending /\ NextID \notin sinks
    BY <1>2, <2>1, <2>2 DEF TypeOK, Call, FetchBulkTo, EntryInv, FreshInv, PendingInv, SinksInv
  <2>7. LoopsInv'
    <3>1. control' = control /\ bulkLoop' = bulkLoop
      BY <1>2 DEF Call, FetchBulkTo
    <3>2. control.pc = "put" => control.id \notin pending'
      BY <1>2, <2>2 DEF Call, FetchBulkTo, EntryInv, LoopsInv
    <3> QED
      BY <3>1, <3>2, <2>2, <2>4 DEF EntryInv, LoopsInv
  <2>8. PendingInv'
    <3>1. pending' \subseteq pending \cup {NextID} /\ (FetchBulkTo => pending' = pending)
      BY <1>2 DEF Call, FetchBulkTo
    <3> QED
      BY <1>2, <3>1, <2>2, <2>3, <2>4, <2>5, <2>6 DEF TypeOK, EntryInv, PendingInv, InProgress
  <2>9. SinksInv'
    <3>1. sinks' \subseteq sinks \cup {NextID} /\ (Call => sinks' = sinks)
      BY <1>2 DEF Call, FetchBulkTo
    <3> QED
      BY <1>2, <3>1, <2>2, <2>3, <2>4, <2>5 DEF TypeOK, EntryInv, SinksInv, InProgress
  <2>10. FreshInv'
    BY <2>3, <2>6 DEF EntryInv, FreshInv
  <2> QED
    BY <2>7, <2>8, <2>9, <2>10 DEF EntryInv
<1>3. ASSUME NEW i \in Ids, RequestStep(i) \/ CtxDone(i)
      PROVE  EntryInv'
  <2>1. CASE SendRequest(i)
    BY <2>1, EntryRequestMoves DEF SendRequest, InProgress
  <2>2. CASE SendRequestFails(i)
    BY <2>2, EntryRequestMoves DEF SendRequestFails, InProgress
  <2>3. CASE CtxDone(i)
    BY <2>3, EntryRequestMoves DEF CtxDone, InProgress
  <2>4. CASE CleanUp(i)
    <3>1. \A j \in Ids \ {i} : request'[j] = request[j]
      BY <2>4 DEF TypeOK, CleanUp
    <3>2. request'[i].bulk = request[i].bulk
      BY <2>4 DEF TypeOK, CleanUp, RequestAt
    <3>3. /\ pending' = pending \ {i} /\ sinks' = sinks \ {i}
          /\ UNCHANGED <<lastID, slot, control, bulkLoop>>
      BY <2>4 DEF CleanUp
    <3> QED
      BY <3>1, <3>2, <3>3 DEF TypeOK, EntryInv, PendingInv, SinksInv, FreshInv, LoopsInv
  <2>5. CASE TakeReply(i) \/ TakeDone(i)
    <3>1. \A j \in Ids \ {i} : request'[j] = request[j] /\ slot'[j] = slot[j]
      BY <2>5 DEF TypeOK, TakeReply, TakeDone
    <3>2. /\ request'[i].bulk = request[i].bulk
          /\ slot'[i] = "none"
          /\ TakeDone(i) => request'[i].pc \in InProgress
      <4>1. request[i].bulk \in BOOLEAN
        BY RequestRecords DEF TypeOK
      <4> QED
        <5>1. CASE TakeReply(i)
          <6>1. request'[i] = RequestAt("returned", FALSE, slot[i]) /\ slot'[i] = "none"
            BY <5>1 DEF TypeOK, TakeReply
          <6>2. ~request[i].bulk /\ ~TakeDone(i)
            BY <5>1 DEF TakeReply, TakeDone
          <6>3. request[i].bulk = FALSE
            BY <4>1, <6>2
          <6>4. request'[i].bulk = FALSE
            BY <6>1 DEF RequestAt
          <6> QED
            BY <6>1, <6>2, <6>3, <6>4
        <5>2. CASE TakeDone(i)
          <6>1. request'[i] = RequestAt("cleanup", TRUE, slot[i]) /\ slot'[i] = "none"
            BY <5>2 DEF TypeOK, TakeDone
          <6>2. request[i].bulk
            BY <5>2 DEF TakeDone
          <6> QED
            BY <4>1, <6>1, <6>2 DEF RequestAt, InProgress
        <5> QED
          BY <2>5, <5>1, <5>2
    <3>3. UNCHANGED <<lastID, pending, sinks, control, bulkLoop>>
      BY <2>5 DEF TakeReply, TakeDone
    <3>4. i \notin pending /\ (TakeReply(i) => i \notin sinks)
      BY <2>5 DEF TakeReply, TakeDone, EntryInv, PendingInv, SinksInv
    <3> QED
      BY <2>5, <3>1, <3>2, <3>3, <3>4
         DEF TypeOK, EntryInv, PendingInv, SinksInv, FreshInv, LoopsInv
  <2> QED
    BY <1>3, <2>1, <2>2, <2>3, <2>4, <2>5 DEF RequestStep
<1>4. CASE ControlLoop
  <2>1. CASE ReadAnswer
    <3>1. Head(answers).id \in Ids
      BY <2>1, MessageRecords DEF ReadAnswer, TypeOK
    <3>2. /\ pending' \subseteq pending
          /\ UNCHANGED <<lastID, request, sinks, slot, bulkLoop>>
      BY <2>1 DEF ReadAnswer
    <3>3. \/ control' = control
          \/ /\ control'.pc = "put" /\ control'.id \in pending
             /\ pending' = pending \ {control'.id}
          \/ control'.pc = "signal" /\ control'.id \in sinks
      BY <2>1 DEF ReadAnswer, LoopAt
    <3>4. LoopsInv'
      BY <3>2, <3>3 DEF TypeOK, EntryInv, LoopsInv, PendingInv, SinksInv
    <3> QED
      BY <3>2, <3>4 DEF EntryInv, PendingInv, SinksInv, FreshInv
  <2>2. CASE PutReply
    <3>1. control.id \in Ids /\ control.id <= lastID /\ control.id \notin pending
      BY <2>2 DEF PutReply, EntryInv, LoopsInv
    <3>2. ~(control.id > lastID)
      <4>1. control.id \in Int /\ lastID \in Int
        <5>1. lastID \in 0..MaxCalls
          BY DEF TypeOK
        <5>2. Ids \subseteq Nat
          BY IdFacts
        <5>3. lastID \in Int
          BY <5>1, BoundAssumption
        <5>4. control.id \in Int
          <6>1. \A j \in Ids : j \in Int
            BY <5>2
          <6> QED
            BY <3>1, <6>1
        <5> QED
          BY <5>3, <5>4
      <4> QED
        BY <3>1, <4>1
    <3>3. \A j \in Ids \ {control.id} : slot'[j] = slot[j]
      BY <2>2 DEF PutReply, TypeOK
    <3>4. UNCHANGED <<lastID, request, pending, sinks, bulkLoop>> /\ control'.pc = "read"
      BY <2>2 DEF PutReply, ReadingLoop, LoopAt
    <3> QED
      BY <3>1, <3>2, <3>3, <3>4
         DEF TypeOK, EntryInv, PendingInv, SinksInv, FreshInv, LoopsInv
  <2>3. CASE SignalError
    <3>1. control.id \in Ids /\ control.id <= lastID /\ request[control.id].bulk
      BY <2>3 DEF SignalError, EntryInv, LoopsInv
    <3> QED
      BY <2>3, <3>1, EntrySignalled DEF SignalError
  <2> QED
    BY <1>4, <2>1, <2>2, <2>3 DEF ControlLoop
<1>5. CASE BulkLoop
  <2>0. bulkLoop.pc # "read" =>
           bulkLoop.id \in Ids /\ bulkLoop.id <= lastID /\ request[bulkLoop.id].bulk
    BY DEF EntryInv, LoopsInv
  <2>1. CASE ReadFrame
    <3>1. UNCHANGED <<lastID, request, pending, sinks, slot, control>>
      BY <2>1 DEF ReadFrame
    <3>2. bulkLoop' = bulkLoop \/ bulkLoop'.id \in sinks
      BY <2>1 DEF ReadFrame, BulkLoopAt
    <3>3. LoopsInv'
      BY <3>1, <3>2 DEF TypeOK, EntryInv, LoopsInv, SinksInv
    <3> QED
      BY <3>1, <3>3 DEF EntryInv, PendingInv, SinksInv, FreshInv
  <2>2. CASE WriteFrame
    <3>1. CASE bulkLoop.last
      BY <2>0, <2>2, <3>1, EntrySignalled DEF WriteFrame
    <3>2. CASE ~bulkLoop.last
      <4>1. UNCHANGED <<lastID, request, pending, sinks, slot, control>> /\ bulkLoop'.pc = "read"
        BY <2>2, <3>2 DEF WriteFrame, ReadingBulk, BulkLoopAt
      <4> QED
        BY <4>1 DEF EntryInv, PendingInv, SinksInv, FreshInv, LoopsInv
    <3> QED
      BY <3>1, <3>2
  <2>3. CASE WriteFails
    <3>1. /\ UNCHANGED <<lastID, request, pending, slot, control>>
          /\ sinks' \subseteq sinks
          /\ bulkLoop'.id = bulkLoop.id
      BY <2>3 DEF WriteFails, BulkLoopAt
    <3>2. bulkLoop.id \in Ids /\ bulkLoop.id <= lastID /\ request[bulkLoop.id].bulk
      BY <2>0, <2>3 DEF WriteFails
    <3> QED
      BY <3>1, <3>2 DEF EntryInv, PendingInv, SinksInv, FreshInv, LoopsInv
  <2>4. CASE SignalFailure
    BY <2>0, <2>4, EntrySignalled DEF SignalFailure
  <2> QED
    BY <1>5, <2>1, <2>2, <2>3, <2>4 DEF BulkLoop
<1>6. CASE RemoteControl
  BY <1>6, EntryUnchanged DEF RemoteControl, HandleCall, HandleBulkUnavailable, HandleBulk
<1>7. ASSUME NEW i \in Ids, TransferStep(i)
      PROVE  EntryInv'
  BY <1>7, EntryUnchanged
     DEF TransferStep, ReadFails, CheckBuffer, Woken, BackpressureTimeout, SendFrame,
         SendFrameFails, ReportFailure, TransferGoes
<1>8. CASE BindBulk \/ Drain \/ ConnectionLost
  BY <1>8, EntryUnchanged DEF BindBulk, Drain, ConnectionLost
<1> QED
  BY <1>1, <1>2, <1>3, <1>4, <1>5, <1>6, <1>7, <1>8 DEF Next

LEMMA EntryInit ==
    ASSUME Init
    PROVE  EntryInv
<1>1. control.pc = "read" /\ bulkLoop.pc = "read"
  BY DEF Init, ReadingLoop, ReadingBulk, LoopAt, BulkLoopAt
<1>2. pending = {} /\ sinks = {} /\ \A i \in Ids : slot[i] = "none"
  BY DEF Init
<1> QED
  BY <1>1, <1>2 DEF EntryInv, PendingInv, SinksInv, FreshInv, LoopsInv

LEMMA EntryHolds == Spec => [](TypeOK /\ EntryInv)
<1>1. Init => TypeOK /\ EntryInv
  BY TypeInit, EntryInit
<1>2. TypeOK /\ EntryInv /\ [Next]_vars => (TypeOK /\ EntryInv)'
  BY TypeStep, EntryStep
<1> QED
  BY <1>1, <1>2, PTL DEF Spec

\* No entry of pending or bulkSinks outlives its request, for any number of
\* requests: whoever returns has removed its entry, or deliver did before it sent.
THEOREM EntriesRemoved == Spec => []NoEntryLeft
<1>1. TypeOK /\ EntryInv => NoEntryLeft
  BY DEF TypeOK, EntryInv, PendingInv, SinksInv, NoEntryLeft, InProgress
<1> QED
  BY <1>1, EntryHolds, PTL

-----------------------------------------------------------------------------
\* Flow control. A transfer between its test and its send holds a frame that is
\* as good as buffered, and no more of them run than peak has seen.

Sending == {i \in Ids : transfer[i].pc = "send"}

FlowInv ==
    /\ Cardinality(Running) <= peak
    /\ Len(outBuf) + Cardinality(Sending) <= HighWater + peak

LEMMA SendingFinite ==
    /\ IsFiniteSet(Sending)
    /\ Cardinality(Sending) \in Nat
    /\ Cardinality(Sending) <= Cardinality(Running)
<1>1. Sending \subseteq Running
  BY DEF Sending, Running
<1> QED
  BY <1>1, RunningFinite, FS_Subset, FS_CardinalityType

\* The cardinalities of Running and Sending when one transfer changes its pc.
LEMMA TransferMoves ==
    ASSUME NEW i \in Ids, NEW pc,
           \A j \in Ids \ {i} : transfer'[j] = transfer[j],
           transfer'[i].pc = pc
    PROVE  /\ Cardinality(Running') <= Cardinality(Running) + 1
           /\ i \in Running => Cardinality(Running') <= Cardinality(Running)
           /\ Cardinality(Sending') <= Cardinality(Running')
           /\ pc # "send" => Cardinality(Sending') <= Cardinality(Sending)
           /\ pc # "send" /\ i \in Sending => Cardinality(Sending') = Cardinality(Sending) - 1
           /\ Cardinality(Running') \in Nat
           /\ Cardinality(Sending') \in Nat
<1>2. /\ Running' \subseteq Running \cup {i}
      /\ Sending' \subseteq Running'
      /\ pc # "send" => Sending' = Sending \ {i}
  BY DEF Running, Sending
<1>3. /\ IsFiniteSet(Running \cup {i})
      /\ Cardinality(Running \cup {i}) =
            IF i \in Running THEN Cardinality(Running) ELSE Cardinality(Running) + 1
  BY RunningFinite, FS_AddElement
<1>4. /\ IsFiniteSet(Running')
      /\ Cardinality(Running') <= Cardinality(Running \cup {i})
  BY <1>2, <1>3, FS_Subset
<1>5. /\ IsFiniteSet(Sending')
      /\ Cardinality(Sending') <= Cardinality(Running')
  BY <1>2, <1>4, FS_Subset
<1>6. /\ IsFiniteSet(Sending \ {i})
      /\ Cardinality(Sending \ {i}) =
            IF i \in Sending THEN Cardinality(Sending) - 1 ELSE Cardinality(Sending)
  BY SendingFinite, FS_RemoveElement
<1>7. Cardinality(Running') \in Nat /\ Cardinality(Sending') \in Nat
  BY <1>4, <1>5, FS_CardinalityType
<1>8. Cardinality(Running) \in Nat /\ Cardinality(Sending) \in Nat
  BY RunningFinite, SendingFinite
<1>9. /\ Cardinality(Running') <= Cardinality(Running) + 1
      /\ i \in Running => Cardinality(Running') <= Cardinality(Running)
  <2>1. Cardinality(Running \cup {i}) \in Nat
    BY <1>3, FS_CardinalityType
  <2> QED
    BY <1>3, <1>4, <1>7, <1>8, <2>1
<1>10. pc # "send" => Cardinality(Sending') <= Cardinality(Sending)
  BY <1>2, <1>6, <1>8
<1>11. pc # "send" /\ i \in Sending => Cardinality(Sending') = Cardinality(Sending) - 1
  BY <1>2, <1>6
<1> QED
  BY <1>5, <1>7, <1>9, <1>10, <1>11

\* A transfer in progress goes on without the send buffer.
LEMMA FlowGoes ==
    ASSUME TypeOK, FlowInv, NEW i \in Running, NEW pc, TransferGoes(i, pc), UNCHANGED outBuf,
           pc # "send" \/ Len(outBuf) <= HighWater
    PROVE  FlowInv'
<1>0. /\ Cardinality(Running) \in Nat
      /\ Cardinality(Sending) \in Nat
      /\ i \in Ids
  BY RunningFinite, SendingFinite DEF Running
<1>1. peak' = peak /\ peak \in Nat /\ Len(outBuf) \in Nat /\ HighWater \in Nat
  BY BoundAssumption DEF TypeOK, TransferGoes
<1>2. /\ \A j \in Ids \ {i} : transfer'[j] = transfer[j]
      /\ transfer'[i].pc = pc
  BY <1>0 DEF TransferGoes, TransferAt, TypeOK
<1>3. /\ Cardinality(Running') <= Cardinality(Running)
      /\ Cardinality(Sending') <= Cardinality(Running')
      /\ pc # "send" => Cardinality(Sending') <= Cardinality(Sending)
      /\ Cardinality(Running') \in Nat
      /\ Cardinality(Sending') \in Nat
  BY <1>0, <1>2, TransferMoves
<1>4. Cardinality(Running) <= peak /\ Len(outBuf) + Cardinality(Sending) <= HighWater + peak
  BY DEF FlowInv
<1>5. Cardinality(Running') <= peak
  BY <1>0, <1>1, <1>3, <1>4
<1>6. Len(outBuf) + Cardinality(Sending') <= HighWater + peak
  BY <1>0, <1>1, <1>3, <1>4
<1> QED
  BY <1>1, <1>5, <1>6 DEF FlowInv

LEMMA FlowUnchanged ==
    ASSUME FlowInv, UNCHANGED <<transfer, outBuf, peak>>
    PROVE  FlowInv'
BY DEF FlowInv, Running, Sending

LEMMA FlowStep ==
    ASSUME TypeOK, FlowInv, [Next]_vars
    PROVE  FlowInv'
<1> USE DEF callerVars, remoteVars
<1>1. CASE UNCHANGED vars
  BY <1>1, FlowUnchanged DEF vars
<1>2. CASE Call \/ FetchBulkTo
  BY <1>2, FlowUnchanged DEF Call, FetchBulkTo
<1>3. ASSUME NEW i \in Ids, RequestStep(i) \/ CtxDone(i)
      PROVE  FlowInv'
  BY <1>3, FlowUnchanged
     DEF RequestStep, SendRequest, SendRequestFails, TakeReply, TakeDone, CleanUp, CtxDone
<1>4. CASE ControlLoop \/ BulkLoop
  BY <1>4, FlowUnchanged
     DEF ControlLoop, ReadAnswer, PutReply, SignalError, BulkLoop, ReadFrame, WriteFrame,
         WriteFails, SignalFailure
<1>5. CASE RemoteControl
  <2>1. CASE HandleBulkUnavailable \/ \E res \in {"ok", "err"} : HandleCall(res)
    BY <2>1, FlowUnchanged DEF HandleCall, HandleBulkUnavailable
  <2>2. ASSUME NEW size \in Sizes, HandleBulk(size)
        PROVE  FlowInv'
    <3>1. Head(requests).id \in Ids
      BY <2>2, MessageRecords DEF HandleBulk, TypeOK
    <3>2. /\ \A j \in Ids \ {Head(requests).id} : transfer'[j] = transfer[j]
          /\ transfer'[Head(requests).id].pc = "read"
      BY <2>2, <3>1 DEF HandleBulk, TransferAt, TypeOK
    <3>3. /\ Cardinality(Running') <= Cardinality(Running) + 1
          /\ Cardinality(Sending') <= Cardinality(Sending)
          /\ Cardinality(Running') \in Nat
          /\ Cardinality(Sending') \in Nat
      BY <3>1, <3>2, TransferMoves
    <3>4. /\ Cardinality(Running) \in Nat
          /\ Cardinality(Sending) \in Nat
      BY RunningFinite, SendingFinite
    <3>5. /\ peak' = IF Cardinality(Running) < peak THEN peak ELSE Cardinality(Running) + 1
          /\ outBuf' = outBuf
      BY <2>2 DEF HandleBulk
    <3>6. peak \in Nat /\ Len(outBuf) \in Nat /\ HighWater \in Nat
      BY BoundAssumption DEF TypeOK
    <3>7. Cardinality(Running) <= peak /\ Len(outBuf) + Cardinality(Sending) <= HighWater + peak
      BY DEF FlowInv
    <3>8. peak' \in Nat /\ peak <= peak' /\ Cardinality(Running) + 1 <= peak'
      BY <3>4, <3>5, <3>6, <3>7
    <3>9. Cardinality(Running') <= peak'
      BY <3>3, <3>4, <3>8
    <3>10. Len(outBuf) + Cardinality(Sending') <= HighWater + peak'
      BY <3>3, <3>4, <3>6, <3>7, <3>8
    <3> QED
      BY <3>5, <3>9, <3>10 DEF FlowInv
  <2> QED
    BY <1>5, <2>1, <2>2 DEF RemoteControl
<1>6. ASSUME NEW i \in Ids, TransferStep(i)
      PROVE  FlowInv'
  <2>0. i \in Running
    BY <1>6 DEF TransferStep, ReadFails, CheckBuffer, Woken, BackpressureTimeout, SendFrame,
                SendFrameFails, ReportFailure, Running
  <2>1. CASE ReadFails(i)
    BY <2>0, <2>1, FlowGoes DEF ReadFails
  <2>2. CASE BackpressureTimeout(i)
    BY <2>0, <2>2, FlowGoes DEF BackpressureTimeout
  <2>3. CASE SendFrameFails(i)
    BY <2>0, <2>3, FlowGoes DEF SendFrameFails
  <2>4. CASE Woken(i)
    BY <2>0, <2>4, FlowGoes DEF Woken
  <2>5. CASE ReportFailure(i)
    BY <2>0, <2>5, FlowGoes DEF ReportFailure
  <2>6. CASE CheckBuffer(i)
    <3>1. outBuf' = outBuf
      BY <2>6 DEF CheckBuffer
    <3>2. Len(outBuf) > HighWater \/ Len(outBuf) <= HighWater
      BY BoundAssumption DEF TypeOK
    <3>3. \/ TransferGoes(i, "fail") \/ TransferGoes(i, "wait")
          \/ TransferGoes(i, "send") /\ ~BufferFull
      BY <2>6 DEF CheckBuffer
    <3> QED
      BY <2>0, <3>1, <3>2, <3>3, FlowGoes DEF BufferFull
  <2>7. CASE SendFrame(i)
    <3>1. /\ \A j \in Ids \ {i} : transfer'[j] = transfer[j]
          /\ transfer'[i].pc \in {"done", "read"}
      BY <2>7 DEF SendFrame, TransferAt, TypeOK
    <3>2. i \in Sending
      BY <2>7 DEF SendFrame, Sending
    <3>3. /\ Cardinality(Running') <= Cardinality(Running)
          /\ Cardinality(Sending') = Cardinality(Sending) - 1
          /\ Cardinality(Running') \in Nat
          /\ Cardinality(Sending') \in Nat
      BY <2>0, <3>1, <3>2, TransferMoves
    <3>4. /\ Cardinality(Running) \in Nat
          /\ Cardinality(Sending) \in Nat
      BY RunningFinite, SendingFinite
    <3>5. peak' = peak /\ Len(outBuf') = Len(outBuf) + 1
      BY <2>7 DEF SendFrame, TypeOK
    <3>6. peak \in Nat /\ Len(outBuf) \in Nat /\ HighWater \in Nat
      BY BoundAssumption DEF TypeOK
    <3>7. Cardinality(Running) <= peak /\ Len(outBuf) + Cardinality(Sending) <= HighWater + peak
      BY DEF FlowInv
    <3>8. Cardinality(Running') <= peak
      BY <3>3, <3>4, <3>6, <3>7
    <3>9. Len(outBuf') + Cardinality(Sending') <= HighWater + peak
      BY <3>3, <3>4, <3>5, <3>6, <3>7
    <3> QED
      BY <3>5, <3>8, <3>9 DEF FlowInv
  <2> QED
    BY <1>6, <2>1, <2>2, <2>3, <2>4, <2>5, <2>6, <2>7 DEF TransferStep
<1>7. CASE BindBulk \/ ConnectionLost
  BY <1>7, FlowUnchanged DEF BindBulk, ConnectionLost
<1>8. CASE Drain
  <2>1. transfer' = transfer /\ peak' = peak /\ Len(outBuf') = Len(outBuf) - 1
    BY <1>8 DEF Drain, TypeOK
  <2>2. Running' = Running /\ Sending' = Sending
    BY <2>1 DEF Running, Sending
  <2>3. Len(outBuf) \in Nat /\ peak \in Nat /\ HighWater \in Nat /\ Cardinality(Sending) \in Nat
    BY BoundAssumption, SendingFinite DEF TypeOK
  <2>4. Len(outBuf) + Cardinality(Sending) <= HighWater + peak
    BY DEF FlowInv
  <2>5. Len(outBuf') + Cardinality(Sending) <= HighWater + peak
    BY <2>1, <2>3, <2>4
  <2> QED
    BY <2>1, <2>2, <2>5 DEF FlowInv
<1> QED
  BY <1>1, <1>2, <1>3, <1>4, <1>5, <1>6, <1>7, <1>8 DEF Next

LEMMA FlowInit ==
    ASSUME Init
    PROVE  FlowInv
<1>1. \A i \in Ids : transfer[i].pc = "none"
  BY DEF Init, NoTransfer, TransferAt
<1>2. Running = {} /\ Sending = {}
  BY <1>1 DEF Running, Sending
<1>3. Cardinality({}) = 0
  BY FS_EmptySet
<1>4. Cardinality(Running) = 0 /\ Cardinality(Sending) = 0
  BY <1>2, <1>3
<1>5. peak = 0 /\ Len(outBuf) = 0
  BY DEF Init
<1> QED
  BY <1>4, <1>5, BoundAssumption DEF FlowInv

\* The send buffer never holds more than the high-water mark and one frame for
\* each transfer that ran at once, for any number of transfers and any sizes:
\* sendFrameFlow's test and send are two steps, and each transfer is at most
\* once between them.
THEOREM BufferStaysBounded == Spec => []BufferBounded
<1>1. Init => TypeOK /\ FlowInv
  BY TypeInit, FlowInit
<1>2. TypeOK /\ FlowInv /\ [Next]_vars => (TypeOK /\ FlowInv)'
  BY TypeStep, FlowStep
<1>3. TypeOK /\ FlowInv => BufferBounded
  <2> SUFFICES ASSUME TypeOK, FlowInv
               PROVE  BufferBounded
    OBVIOUS
  <2>1. Len(outBuf) \in Nat /\ peak \in Nat /\ HighWater \in Nat /\ Cardinality(Sending) \in Nat
    BY BoundAssumption, SendingFinite DEF TypeOK
  <2>2. Len(outBuf) + Cardinality(Sending) <= HighWater + peak
    BY DEF FlowInv
  <2> QED
    BY <2>1, <2>2 DEF BufferBounded
<1> QED
  BY <1>1, <1>2, <1>3, PTL DEF Spec

-----------------------------------------------------------------------------
\* Whole transfers. What the remote has sent and the bulk loop has not read is one
\* stream of frames, those on the wire before those still in the send buffer.
Stream == wire \o outBuf

\* A frame f was sent by t, the transfer of its request: payloads are numbered from
\* 1, and the last frame follows the payload with the number size and ends t.
Sent(f, t) ==
    /\ t.pc # "none"
    /\ 1 <= f.n
    /\ ~f.last => f.n <= t.n
    /\ f.last => t.pc = "done" /\ t.n = t.size /\ f.n = t.size + 1

\* The frames of one transfer are in order, whatever is interleaved with them.
StreamInv ==
    /\ \A a \in 1..Len(Stream) : Sent(Stream[a], transfer[Stream[a].id])
    /\ \A a, b \in 1..Len(Stream) :
          a < b /\ Stream[a].id = Stream[b].id => Stream[a].n < Stream[b].n

\* The frame in the bulk loop's hands is the next one of its transfer.
InHand ==
    bulkLoop.pc = "write" =>
        /\ Sent(bulkLoop, transfer[bulkLoop.id])
        /\ bulkLoop.n = Len(got[bulkLoop.id]) + 1
        /\ \A a \in 1..Len(Stream) : Stream[a].id = bulkLoop.id => bulkLoop.n < Stream[a].n

Holds(i, k) == bulkLoop.pc = "write" /\ bulkLoop.id = i /\ bulkLoop.n = k

\* What was written are the first payloads of the transfer, once and in order.
WrittenInv ==
    \A i \in Ids :
        /\ Len(got[i]) <= transfer[i].n
        /\ \A k \in 1..Len(got[i]) : got[i][k] = k

\* While a request has its sink no payload is lost: those sent and not written are
\* in the bulk loop's hands or in the stream.
NothingLost ==
    \A i \in sinks :
        /\ \A a \in 1..Len(Stream) : Stream[a].id = i => Len(got[i]) < Stream[a].n
        /\ \A k \in 1..transfer[i].n :
              \/ k <= Len(got[i])
              \/ Holds(i, k)
              \/ \E a \in 1..Len(Stream) : Stream[a].id = i /\ Stream[a].n = k

\* A bulk request is handled at most once: a request on the way was sent, has no
\* transfer yet and is on the way once.
OnceInv ==
    /\ \A i \in Ids :
          /\ i > lastID => request[i].pc = "none"
          /\ transfer[i].n <= transfer[i].size
          /\ transfer[i].pc = "none" => transfer[i].n = 0
          /\ request[i].pc \in {"none", "send"} => transfer[i].pc = "none"
    /\ \A a \in 1..Len(requests) :
          /\ request[requests[a].id].pc \notin {"none", "send"}
          /\ transfer[requests[a].id].pc = "none"
    /\ \A a, b \in 1..Len(requests) : a # b => requests[a].id # requests[b].id

\* The last frame of i was handled: every payload is written and no frame is left.
Complete(i) ==
    /\ transfer[i].pc = "done"
    /\ Len(got[i]) = transfer[i].size
    /\ bulkLoop.pc = "write" => bulkLoop.id # i
    /\ \A a \in 1..Len(Stream) : Stream[a].id # i

\* Only a transfer that is complete signals its sink "ok": an answer never does.
OkInv ==
    /\ control.pc = "put" => ~request[control.id].bulk
    /\ \A i \in Ids :
          request[i].bulk /\ (slot[i] = "ok" \/ request[i].res = "ok") => Complete(i)


\* The stream and its frames.
LEMMA StreamFacts ==
    ASSUME TypeOK
    PROVE  /\ Stream \in Seq(Frames)
           /\ Len(Stream) \in Nat
           /\ Len(Stream) = Len(wire) + Len(outBuf)
           /\ \A a \in 1..Len(Stream) :
                 /\ Stream[a].id \in Ids
                 /\ Stream[a].n \in Nat
                 /\ Stream[a].last \in BOOLEAN
           /\ \A a \in 1..Len(Stream) :
                 Stream[a] = IF a <= Len(wire) THEN wire[a] ELSE outBuf[a - Len(wire)]
<1>1. wire \in Seq(Frames) /\ outBuf \in Seq(Frames)
  BY DEF TypeOK
<1>2. /\ Stream \in Seq(Frames)
      /\ Len(Stream) = Len(wire) + Len(outBuf)
      /\ \A a \in 1..Len(wire) + Len(outBuf) :
            Stream[a] = IF a <= Len(wire) THEN wire[a] ELSE outBuf[a - Len(wire)]
  BY <1>1, ConcatProperties DEF Stream
<1>3. \A a \in 1..Len(Stream) : Stream[a] \in Frames
  BY <1>2
<1> QED
  BY <1>2, <1>3, MessageRecords

\* A frame that leaves the send buffer for the wire keeps its place.
LEMMA StreamDrained ==
    ASSUME TypeOK, TypeOK', Drain
    PROVE  Stream' = Stream
<1>1. /\ outBuf \in Seq(Frames) /\ outBuf # <<>> /\ wire \in Seq(Frames)
      /\ wire' = Append(wire, Head(outBuf))
      /\ outBuf' = Tail(outBuf)
  BY DEF Drain, TypeOK
<1>2. /\ Head(outBuf) = outBuf[1]
      /\ Len(outBuf') = Len(outBuf) - 1
      /\ \A a \in 1..Len(outBuf') : outBuf'[a] = outBuf[a + 1]
  BY <1>1, HeadTailProperties
<1>3. /\ Len(wire') = Len(wire) + 1
      /\ \A a \in 1..Len(wire) : wire'[a] = wire[a]
      /\ wire'[Len(wire) + 1] = outBuf[1]
  BY <1>1, <1>2, HeadTailProperties, AppendProperties
<1>4. Len(wire) \in Nat /\ Len(outBuf) \in Nat /\ Len(outBuf) # 0
  BY <1>1
<1>5. Len(Stream') = Len(Stream)
  <2>1. Len(Stream') = Len(wire') + Len(outBuf')
    BY StreamFacts, ConcatProperties DEF Stream, TypeOK
  <2>2. Len(Stream) = Len(wire) + Len(outBuf)
    BY StreamFacts
  <2> QED
    BY <2>1, <2>2, <1>2, <1>3, <1>4
<1>6. ASSUME NEW a \in 1..Len(Stream)
      PROVE  Stream'[a] = Stream[a]
  <2>1. Stream'[a] = IF a <= Len(wire') THEN wire'[a] ELSE outBuf'[a - Len(wire')]
    <3>1. a \in 1..Len(wire') + Len(outBuf')
      BY StreamFacts, <1>2, <1>3, <1>4
    <3> QED
      BY <3>1, ConcatProperties DEF Stream, TypeOK
  <2>2. Stream[a] = IF a <= Len(wire) THEN wire[a] ELSE outBuf[a - Len(wire)]
    BY StreamFacts
  <2>3. Len(Stream) = Len(wire) + Len(outBuf)
    BY StreamFacts
  <2>4. CASE a <= Len(wire)
    BY <2>1, <2>2, <2>4, <1>3, <1>4
  <2>5. CASE a = Len(wire) + 1
    BY <2>1, <2>2, <2>5, <1>3, <1>4
  <2>6. CASE a > Len(wire) + 1
    <3>1. /\ a - Len(wire') \in 1..Len(outBuf')
          /\ a - Len(wire') + 1 = a - Len(wire)
          /\ ~(a <= Len(wire)) /\ ~(a <= Len(wire'))
      BY <2>6, <2>3, <1>2, <1>3, <1>4
    <3> QED
      BY <2>1, <2>2, <3>1, <1>2
  <2> QED
    BY <2>4, <2>5, <2>6, <1>4
<1>7. Stream' \in Seq(Frames)
  BY ConcatProperties DEF Stream, TypeOK
<1> QED
  BY <1>5, <1>6, <1>7, StreamFacts, SeqEqual

\* The bulk loop takes the first frame of the stream.
LEMMA StreamRead ==
    ASSUME TypeOK, TypeOK', wire # <<>>, wire' = Tail(wire), outBuf' = outBuf
    PROVE  /\ Len(Stream) > 0
           /\ Head(wire) = Stream[1]
           /\ Len(Stream') = Len(Stream) - 1
           /\ \A a \in 1..Len(Stream') : a + 1 \in 1..Len(Stream) /\ Stream'[a] = Stream[a + 1]
           /\ \A a \in 1..Len(Stream) :
                 a # 1 => a - 1 \in 1..Len(Stream') /\ Stream'[a - 1] = Stream[a]
<1>1. wire \in Seq(Frames) /\ outBuf \in Seq(Frames)
  BY DEF TypeOK
<1>2. /\ Head(wire) = wire[1]
      /\ Len(wire') = Len(wire) - 1
      /\ \A a \in 1..Len(wire') : wire'[a] = wire[a + 1]
  BY <1>1, HeadTailProperties
<1>3. Len(wire) \in Nat /\ Len(outBuf) \in Nat /\ Len(wire) # 0
  BY <1>1
<1>4. /\ Len(Stream') = Len(wire') + Len(outBuf)
      /\ \A a \in 1..Len(wire') + Len(outBuf) :
            Stream'[a] = IF a <= Len(wire') THEN wire'[a] ELSE outBuf[a - Len(wire')]
  BY ConcatProperties DEF Stream, TypeOK
<1>5. /\ Len(Stream) = Len(wire) + Len(outBuf)
      /\ \A a \in 1..Len(Stream) :
            Stream[a] = IF a <= Len(wire) THEN wire[a] ELSE outBuf[a - Len(wire)]
  BY StreamFacts
<1>6. ASSUME NEW a \in 1..Len(Stream')
      PROVE  a + 1 \in 1..Len(Stream) /\ Stream'[a] = Stream[a + 1]
  <2>1. a + 1 \in 1..Len(Stream)
    BY <1>2, <1>3, <1>4, <1>5
  <2>2. CASE a <= Len(wire')
    <3>1. a + 1 <= Len(wire) /\ a \in 1..Len(wire')
      BY <2>2, <1>2, <1>3, <1>4
    <3> QED
      BY <2>1, <3>1, <1>2, <1>4, <1>5
  <2>3. CASE ~(a <= Len(wire'))
    <3>1. ~(a + 1 <= Len(wire)) /\ a - Len(wire') = a + 1 - Len(wire)
      BY <2>3, <1>2, <1>3, <1>4
    <3>2. a \in 1..Len(wire') + Len(outBuf)
      BY <1>4
    <3>3. Stream'[a] = outBuf[a - Len(wire')]
      BY <2>3, <3>2, <1>4
    <3>4. Stream[a + 1] = outBuf[a + 1 - Len(wire)]
      BY <2>1, <3>1, <1>5
    <3> QED
      BY <2>1, <3>1, <3>3, <3>4
  <2> QED
    BY <2>1, <2>2, <2>3
<1>7. Head(wire) = Stream[1] /\ Len(Stream) > 0 /\ Len(Stream') = Len(Stream) - 1
  BY <1>2, <1>3, <1>4, <1>5
<1>8. ASSUME NEW a \in 1..Len(Stream), a # 1
      PROVE  a - 1 \in 1..Len(Stream') /\ Stream'[a - 1] = Stream[a]
  <2>1. a - 1 \in 1..Len(Stream') /\ (a - 1) + 1 = a
    BY <1>3, <1>5, <1>7, <1>8
  <2> QED
    BY <2>1, <1>6
<1> QED
  BY <1>6, <1>7, <1>8

\* A frame that is sent goes to the end of the stream.
LEMMA StreamSent ==
    ASSUME TypeOK, TypeOK', NEW f \in Frames, outBuf' = Append(outBuf, f), wire' = wire
    PROVE  /\ Len(Stream') = Len(Stream) + 1
           /\ \A a \in 1..Len(Stream) : Stream'[a] = Stream[a]
           /\ Stream'[Len(Stream) + 1] = f
<1>1. wire \in Seq(Frames) /\ outBuf \in Seq(Frames)
  BY DEF TypeOK
<1>2. /\ Len(outBuf') = Len(outBuf) + 1
      /\ \A a \in 1..Len(outBuf) : outBuf'[a] = outBuf[a]
      /\ outBuf'[Len(outBuf) + 1] = f
  BY <1>1, AppendProperties
<1>3. Len(wire) \in Nat /\ Len(outBuf) \in Nat
  BY <1>1
<1>4. /\ Len(Stream') = Len(wire) + Len(outBuf')
      /\ \A a \in 1..Len(wire) + Len(outBuf') :
            Stream'[a] = IF a <= Len(wire) THEN wire[a] ELSE outBuf'[a - Len(wire)]
  BY ConcatProperties DEF Stream, TypeOK
<1>5. /\ Len(Stream) = Len(wire) + Len(outBuf)
      /\ \A a \in 1..Len(Stream) :
            Stream[a] = IF a <= Len(wire) THEN wire[a] ELSE outBuf[a - Len(wire)]
  BY StreamFacts
<1>6. ASSUME NEW a \in 1..Len(Stream)
      PROVE  Stream'[a] = Stream[a]
  <2>1. a \in 1..Len(wire) + Len(outBuf')
    BY <1>2, <1>3, <1>5
  <2>2. ~(a <= Len(wire)) => a - Len(wire) \in 1..Len(outBuf)
    BY <1>3, <1>5
  <2> QED
    BY <2>1, <2>2, <1>2, <1>4, <1>5
<1>7. Stream'[Len(Stream) + 1] = f
  <2>1. /\ Len(Stream) + 1 \in 1..Len(wire) + Len(outBuf')
        /\ ~(Len(Stream) + 1 <= Len(wire))
        /\ Len(Stream) + 1 - Len(wire) = Len(outBuf) + 1
    BY <1>2, <1>3, <1>5
  <2> QED
    BY <2>1, <1>2, <1>4
<1> QED
  BY <1>2, <1>3, <1>4, <1>5, <1>6, <1>7

-----------------------------------------------------------------------------
\* OnceInv: a request is sent once, and handled at most once.

LEMMA OnceUnchanged ==
    ASSUME OnceInv, UNCHANGED <<lastID, request, requests, transfer>>
    PROVE  OnceInv'
BY DEF OnceInv

\* A request goes on and sends nothing.
LEMMA OnceGoesOn ==
    ASSUME TypeOK, OnceInv, NEW i \in Ids, NEW pc, NEW b, NEW r, pc \notin {"none", "send"},
           request[i].pc # "none",
           request' = [request EXCEPT ![i] = RequestAt(pc, b, r)],
           UNCHANGED <<lastID, requests, transfer>>
    PROVE  OnceInv'
<1>1. \A j \in Ids : /\ j # i => request'[j] = request[j]
                     /\ request'[i].pc = pc
  BY DEF TypeOK, RequestAt
<1>2. \A a \in 1..Len(requests) : requests[a].id \in Ids
  BY MessageRecords DEF TypeOK
<1>3. \A j \in Ids :
        /\ request'[j].pc \in {"none", "send"} => j # i /\ request[j].pc \in {"none", "send"}
        /\ request[j].pc = "none" => request'[j].pc = "none"
  BY <1>1
<1> QED
  BY <1>2, <1>3 DEF OnceInv

\* The remote takes a request off the channel; its transfer may start.
LEMMA OnceHandled ==
    ASSUME TypeOK, OnceInv, requests # <<>>, requests' = Tail(requests),
           UNCHANGED <<lastID, request>>,
           \A j \in Ids \ {Head(requests).id} : transfer'[j] = transfer[j],
           \/ transfer'[Head(requests).id] = transfer[Head(requests).id]
           \/ /\ transfer'[Head(requests).id].n = 0
              /\ transfer'[Head(requests).id].size \in Nat
              /\ transfer'[Head(requests).id].pc # "none"
    PROVE  OnceInv'
<1>1. requests \in Seq(Requests)
  BY DEF TypeOK
<1>2. /\ Head(requests) = requests[1]
      /\ Len(requests') = Len(requests) - 1
      /\ \A a \in 1..Len(requests') : requests'[a] = requests[a + 1]
      /\ Len(requests) \in Nat /\ Len(requests) # 0
  BY <1>1, HeadTailProperties
<1>3. 1 \in 1..Len(requests) /\ Head(requests).id \in Ids
  BY <1>1, <1>2, MessageRecords
<1>4. \A a \in 1..Len(requests') :
         /\ a + 1 \in 1..Len(requests)
         /\ a + 1 # 1
         /\ requests'[a].id = requests[a + 1].id
         /\ requests[a + 1].id \in Ids
  <2>1. \A a \in 1..Len(requests') : a + 1 \in 1..Len(requests) /\ a + 1 # 1
    BY <1>2
  <2>2. \A a \in 1..Len(requests) : requests[a].id \in Ids
    BY <1>1, MessageRecords
  <2> QED
    BY <2>1, <2>2, <1>2
<1>5. /\ request[Head(requests).id].pc \notin {"none", "send"}
      /\ \A a \in 1..Len(requests') : requests'[a].id # Head(requests).id
  BY <1>2, <1>3, <1>4 DEF OnceInv
<1>6. \A a, b \in 1..Len(requests') : a # b => requests'[a].id # requests'[b].id
  <2> SUFFICES ASSUME NEW a \in 1..Len(requests'), NEW b \in 1..Len(requests'), a # b
               PROVE  requests'[a].id # requests'[b].id
    OBVIOUS
  <2>1. a + 1 # b + 1
    BY <1>2
  <2> QED
    BY <2>1, <1>4 DEF OnceInv
<1>7. \A a \in 1..Len(requests') :
         /\ request'[requests'[a].id].pc \notin {"none", "send"}
         /\ transfer'[requests'[a].id].pc = "none"
  BY <1>4, <1>5 DEF OnceInv
<1>8. \A j \in Ids :
         /\ j > lastID' => request'[j].pc = "none"
         /\ transfer'[j].n <= transfer'[j].size
         /\ transfer'[j].pc = "none" => transfer'[j].n = 0
         /\ request'[j].pc \in {"none", "send"} => transfer'[j].pc = "none"
  <2> SUFFICES ASSUME NEW j \in Ids
               PROVE  /\ j > lastID' => request'[j].pc = "none"
                      /\ transfer'[j].n <= transfer'[j].size
                      /\ transfer'[j].pc = "none" => transfer'[j].n = 0
                      /\ request'[j].pc \in {"none", "send"} => transfer'[j].pc = "none"
    OBVIOUS
  <2>1. CASE transfer'[j] = transfer[j]
    BY <2>1 DEF OnceInv
  <2>2. CASE transfer'[j] # transfer[j]
    BY <2>2, <1>5 DEF OnceInv
  <2> QED
    BY <2>1, <2>2
<1> QED
  BY <1>6, <1>7, <1>8 DEF OnceInv

\* A transfer that runs goes on, with or without a frame sent.
LEMMA OnceTransfer ==
    ASSUME TypeOK, OnceInv, NEW i \in Ids, transfer[i].pc # "none",
           \A j \in Ids \ {i} : transfer'[j] = transfer[j],
           transfer'[i].pc # "none",
           transfer'[i].n <= transfer'[i].size,
           UNCHANGED <<lastID, request, requests>>
    PROVE  OnceInv'
<1>1. \A a \in 1..Len(requests) : requests[a].id \in Ids /\ requests[a].id # i
  BY MessageRecords DEF TypeOK, OnceInv
<1> QED
  BY <1>1 DEF OnceInv

LEMMA OnceStep ==
    ASSUME TypeOK, OnceInv, [Next]_vars
    PROVE  OnceInv'
<1> USE DEF callerVars, remoteVars
<1>1. CASE UNCHANGED vars
  BY <1>1, OnceUnchanged DEF vars
<1>2. CASE Call \/ FetchBulkTo
  <2>1. /\ NextID \in Ids /\ NextID > lastID /\ lastID' = lastID + 1
        /\ NextID = lastID + 1 /\ lastID \in Nat
    <3>1. lastID \in 0..MaxCalls /\ lastID < MaxCalls /\ lastID' = lastID + 1
      BY <1>2 DEF Call, FetchBulkTo, TypeOK
    <3> QED
      BY <3>1, IdFacts, BoundAssumption DEF NextID
  <2>2. /\ \A j \in Ids \ {NextID} : request'[j] = request[j]
        /\ request'[NextID].pc = "send"
        /\ UNCHANGED <<requests, transfer>>
    BY <1>2, <2>1 DEF Call, FetchBulkTo, TypeOK, RequestAt
  <2>3. request[NextID].pc = "none"
    BY <2>1 DEF OnceInv
  <2>4. \A j \in Ids : j > lastID' => j # NextID /\ j > lastID
    BY <2>1, IdFacts
  <2>5. \A a \in 1..Len(requests) : requests[a].id \in Ids /\ requests[a].id # NextID
    BY <2>3, MessageRecords DEF TypeOK, OnceInv
  <2> QED
    BY <2>1, <2>2, <2>3, <2>4, <2>5 DEF OnceInv
<1>3. ASSUME NEW i \in Ids, RequestStep(i) \/ CtxDone(i)
      PROVE  OnceInv'
  <2>1. CASE SendRequest(i)
    <3>1. /\ requests \in Seq(Requests) /\ request[i].pc = "send"
          /\ requests' = Append(requests, [id |-> i, bulk |-> request[i].bulk])
          /\ [id |-> i, bulk |-> request[i].bulk] \in Requests
      BY <2>1, RequestRecords, MessageRecords DEF SendRequest, TypeOK
    <3>2. /\ Len(requests') = Len(requests) + 1
          /\ \A a \in 1..Len(requests) : requests'[a] = requests[a]
          /\ requests'[Len(requests) + 1].id = i
          /\ Len(requests) \in Nat
      BY <3>1, AppendProperties
    <3>3. /\ \A j \in Ids \ {i} : request'[j] = request[j]
          /\ request'[i].pc = "wait"
          /\ UNCHANGED <<lastID, transfer>>
      BY <2>1 DEF SendRequest, TypeOK, RequestAt
    <3>4. transfer[i].pc = "none"
      BY <3>1 DEF OnceInv
    <3>5. \A a \in 1..Len(requests) : requests[a].id \in Ids /\ requests[a].id # i
      BY <3>1, MessageRecords DEF TypeOK, OnceInv
    <3>6. \A a \in 1..Len(requests') : a \in 1..Len(requests) \/ a = Len(requests) + 1
      BY <3>2
    <3>7. \A a \in 1..Len(requests') :
             /\ request'[requests'[a].id].pc \notin {"none", "send"}
             /\ transfer'[requests'[a].id].pc = "none"
      <4> SUFFICES ASSUME NEW a \in 1..Len(requests')
                   PROVE  /\ request'[requests'[a].id].pc \notin {"none", "send"}
                          /\ transfer'[requests'[a].id].pc = "none"
        OBVIOUS
      <4>1. CASE a \in 1..Len(requests)
        BY <4>1, <3>2, <3>3, <3>5 DEF OnceInv
      <4>2. CASE a = Len(requests) + 1
        BY <4>2, <3>2, <3>3, <3>4
      <4> QED
        BY <4>1, <4>2, <3>6
    <3>8. \A a, b \in 1..Len(requests') : a # b => requests'[a].id # requests'[b].id
      BY <3>2, <3>5, <3>6 DEF OnceInv
    <3>9. \A j \in Ids :
            /\ j > lastID' => request'[j].pc = "none"
            /\ request'[j].pc \in {"none", "send"} => transfer'[j].pc = "none"
      BY <3>1, <3>3 DEF OnceInv
    <3> QED
      BY <3>3, <3>7, <3>8, <3>9 DEF OnceInv
  <2>2. ASSUME NEW pc \in {"wait", "cleanup", "returned"}, NEW b, NEW r,
               request[i].pc # "none",
               request' = [request EXCEPT ![i] = RequestAt(pc, b, r)],
               UNCHANGED <<lastID, requests, transfer>>
        PROVE  OnceInv'
    BY <2>2, OnceGoesOn
  <2>3. CASE SendRequestFails(i)
    <3>1. /\ request[i].pc # "none"
          /\ request' = [request EXCEPT ![i] = RequestAt("cleanup", request[i].bulk, "err")]
          /\ UNCHANGED <<lastID, requests, transfer>>
      BY <2>3 DEF SendRequestFails
    <3> QED
      BY <2>2, <3>1
  <2>4. CASE CtxDone(i)
    <3>1. /\ request[i].pc # "none"
          /\ request' = [request EXCEPT ![i] = RequestAt("cleanup", request[i].bulk, "err")]
          /\ UNCHANGED <<lastID, requests, transfer>>
      BY <2>4 DEF CtxDone
    <3> QED
      BY <2>2, <3>1
  <2>5. CASE CleanUp(i)
    <3>1. /\ request[i].pc # "none"
          /\ request' = [request EXCEPT ![i] =
                            RequestAt("returned", request[i].bulk, request[i].res)]
          /\ UNCHANGED <<lastID, requests, transfer>>
      BY <2>5 DEF CleanUp
    <3> QED
      BY <2>2, <3>1
  <2>6. CASE TakeReply(i)
    <3>1. /\ request[i].pc # "none"
          /\ request' = [request EXCEPT ![i] = RequestAt("returned", FALSE, slot[i])]
          /\ UNCHANGED <<lastID, requests, transfer>>
      BY <2>6 DEF TakeReply
    <3> QED
      BY <2>2, <3>1
  <2>7. CASE TakeDone(i)
    BY <2>7, OnceGoesOn DEF TakeDone
  <2> QED
    BY <1>3, <2>1, <2>3, <2>4, <2>5, <2>6, <2>7 DEF RequestStep
<1>4. CASE ControlLoop \/ BulkLoop
  BY <1>4, OnceUnchanged
     DEF ControlLoop, ReadAnswer, PutReply, SignalError, BulkLoop, ReadFrame, WriteFrame,
         WriteFails, SignalFailure
<1>5. CASE RemoteControl
  <2>1. ASSUME NEW res \in {"ok", "err"}, HandleCall(res)
        PROVE  OnceInv'
    BY <2>1, OnceHandled DEF HandleCall
  <2>2. CASE HandleBulkUnavailable
    BY <2>2, OnceHandled DEF HandleBulkUnavailable
  <2>3. ASSUME NEW size \in Sizes, HandleBulk(size)
        PROVE  OnceInv'
    <3>1. Head(requests).id \in Ids
      BY <2>3, MessageRecords DEF HandleBulk, TypeOK
    <3>2. /\ \A j \in Ids \ {Head(requests).id} : transfer'[j] = transfer[j]
          /\ transfer'[Head(requests).id] = TransferAt("read", size, 0)
      BY <2>3, <3>1 DEF HandleBulk, TypeOK
    <3>3. /\ TransferAt("read", size, 0).n = 0
          /\ TransferAt("read", size, 0).size \in Nat
          /\ TransferAt("read", size, 0).pc # "none"
      BY BoundAssumption DEF TransferAt
    <3>4. /\ requests # <<>> /\ requests' = Tail(requests)
          /\ UNCHANGED <<lastID, request>>
      BY <2>3 DEF HandleBulk
    <3> QED
      BY <3>2, <3>3, <3>4, OnceHandled
  <2> QED
    BY <1>5, <2>1, <2>2, <2>3 DEF RemoteControl
<1>6. ASSUME NEW i \in Ids, TransferStep(i)
      PROVE  OnceInv'
  <2>0. transfer[i].n \in Nat /\ transfer[i].size \in Nat /\ transfer[i].n <= transfer[i].size
    BY TransferRecords DEF TypeOK, OnceInv
  <2>1. transfer[i].pc # "none" /\ UNCHANGED <<lastID, request, requests>>
    BY <1>6 DEF TransferStep, ReadFails, CheckBuffer, Woken, BackpressureTimeout, SendFrame,
                SendFrameFails, ReportFailure, TransferGoes
  <2>2. ASSUME NEW pc, TransferGoes(i, pc), pc # "none"
        PROVE  OnceInv'
    <3>1. /\ \A j \in Ids \ {i} : transfer'[j] = transfer[j]
          /\ transfer'[i].pc = pc
          /\ transfer'[i].n = transfer[i].n
          /\ transfer'[i].size = transfer[i].size
      BY <2>2 DEF TransferGoes, TransferAt, TypeOK
    <3> QED
      BY <2>0, <2>1, <2>2, <3>1, OnceTransfer
  <2>3. CASE SendFrame(i)
    <3>1. \A j \in Ids \ {i} : transfer'[j] = transfer[j]
      BY <2>3 DEF SendFrame, TypeOK
    <3>2. CASE AtEOF(transfer[i])
      <4>1. /\ transfer'[i].pc = "done"
            /\ transfer'[i].n = transfer[i].n
            /\ transfer'[i].size = transfer[i].size
        BY <2>3, <3>2 DEF SendFrame, TransferAt, TypeOK
      <4> QED
        BY <2>0, <2>1, <3>1, <4>1, OnceTransfer
    <3>3. CASE ~AtEOF(transfer[i])
      <4>1. /\ transfer'[i].pc = "read"
            /\ transfer'[i].n = transfer[i].n + 1
            /\ transfer'[i].size = transfer[i].size
        BY <2>3, <3>3 DEF SendFrame, TransferAt, TypeOK
      <4>2. transfer'[i].n <= transfer'[i].size
        BY <2>0, <3>3, <4>1 DEF AtEOF
      <4> QED
        BY <2>1, <3>1, <4>1, <4>2, OnceTransfer
    <3> QED
      BY <3>2, <3>3
  <2>4. SendFrame(i) \/ \E pc \in {"wait", "check", "send", "fail", "done"} : TransferGoes(i, pc)
    BY <1>6 DEF TransferStep, ReadFails, CheckBuffer, Woken, BackpressureTimeout,
                SendFrameFails, ReportFailure
  <2> QED
    BY <2>2, <2>3, <2>4
<1>7. CASE BindBulk \/ Drain \/ ConnectionLost
  BY <1>7, OnceUnchanged DEF BindBulk, Drain, ConnectionLost
<1> QED
  BY <1>1, <1>2, <1>3, <1>4, <1>5, <1>6, <1>7 DEF Next

-----------------------------------------------------------------------------
\* The path of the frames, from the transfer to the sink's writer.

PipeInv == StreamInv /\ InHand /\ WrittenInv /\ NothingLost

\* Steps of the callers and of the control loop: a sink may go.
LEMMA PipeKept ==
    ASSUME PipeInv, Stream' = Stream, UNCHANGED <<got, transfer, bulkLoop>>,
           sinks' \subseteq sinks
    PROVE  PipeInv'
<1>1. StreamInv'
  BY DEF PipeInv, StreamInv, Sent
<1>2. InHand'
  BY DEF PipeInv, InHand, Sent
<1>3. WrittenInv'
  BY DEF PipeInv, WrittenInv
<1>4. NothingLost'
  BY DEF PipeInv, NothingLost, Holds
<1> QED
  BY <1>1, <1>2, <1>3, <1>4 DEF PipeInv

\* A new sink: nothing was sent for it yet.
LEMMA PipeRegisters ==
    ASSUME TypeOK, PipeInv, OnceInv, NEW i \in Ids, transfer[i].pc = "none",
           Stream' = Stream, UNCHANGED <<got, transfer, bulkLoop>>, sinks' = sinks \cup {i}
    PROVE  PipeInv'
<1>1. StreamInv'
  BY DEF PipeInv, StreamInv, Sent
<1>2. InHand'
  BY DEF PipeInv, InHand, Sent
<1>3. WrittenInv'
  BY DEF PipeInv, WrittenInv
<1>4. /\ \A a \in 1..Len(Stream) : Stream[a].id # i
      /\ transfer[i].n = 0
  BY DEF PipeInv, StreamInv, Sent, OnceInv
<1>5. \A k \in 1..transfer[i].n : FALSE
  BY <1>4
<1>6. NothingLost'
  BY <1>4, <1>5 DEF PipeInv, NothingLost, Holds
<1> QED
  BY <1>1, <1>2, <1>3, <1>6 DEF PipeInv

\* A transfer that has not ended moves to another place, its counts unchanged, or
\* starts with none sent.
LEMMA PipeGoes ==
    ASSUME TypeOK, EntryInv, PipeInv, NEW i \in Ids, transfer[i].pc # "done",
           \A j \in Ids \ {i} : transfer'[j] = transfer[j],
           transfer'[i].pc # "none",
           transfer'[i].n = transfer[i].n,
           Stream' = Stream, UNCHANGED <<got, bulkLoop, sinks>>
    PROVE  PipeInv'
<1>1. \A f : f.id \in Ids /\ Sent(f, transfer[f.id]) => Sent(f, transfer'[f.id])
  BY DEF Sent
<1>2. \A a \in 1..Len(Stream) : Stream[a].id \in Ids
  BY StreamFacts
<1>3. StreamInv'
  BY <1>1, <1>2 DEF PipeInv, StreamInv
<1>4. \A j \in Ids : transfer'[j].n = transfer[j].n
  OBVIOUS
<1>5. WrittenInv'
  BY <1>4 DEF PipeInv, WrittenInv
<1>6. sinks \subseteq Ids
  BY DEF TypeOK
<1>7. NothingLost'
  BY <1>4, <1>6 DEF PipeInv, NothingLost, Holds
<1>8. InHand'
  <2>1. bulkLoop.pc = "write" => bulkLoop.id \in Ids
    BY DEF EntryInv, LoopsInv
  <2>2. bulkLoop.pc = "write" => Sent(bulkLoop, transfer'[bulkLoop.id])
    BY <2>1, <1>1 DEF PipeInv, InHand
  <2> QED
    BY <2>2 DEF PipeInv, InHand
<1> QED
  BY <1>3, <1>5, <1>7, <1>8 DEF PipeInv

\* A frame is sent: the next payload, or the last frame after all of them.
LEMMA PipeSends ==
    ASSUME TypeOK, TypeOK', EntryInv, PipeInv, OnceInv, NEW i \in Ids, SendFrame(i)
    PROVE  PipeInv'
<1> DEFINE t == transfer[i]
           f == [id |-> i, n |-> t.n + 1, last |-> AtEOF(t)]
           N == Len(Stream)
<1>0. /\ t.n \in Nat /\ t.size \in Nat /\ t.n <= t.size /\ t.pc = "send"
      /\ N \in Nat
  BY TransferRecords, StreamFacts DEF SendFrame, TypeOK, OnceInv
<1>1. /\ f \in Frames
      /\ f.id = i /\ f.n = t.n + 1 /\ (f.last <=> t.n = t.size)
  <2>1. AtEOF(t) \in BOOLEAN /\ t.n + 1 \in Nat
    BY <1>0 DEF AtEOF
  <2>2. f \in Frames
    BY <2>1, MessageRecords
  <2>3. f.last <=> t.n = t.size
    <3>1. f.last = AtEOF(t)
      OBVIOUS
    <3>2. AtEOF(t) <=> t.n = t.size
      BY <1>0 DEF AtEOF
    <3> HIDE DEF f, t
    <3> QED
      BY <3>1, <3>2
  <2> QED
    BY <2>2, <2>3
<1>2. /\ Len(Stream') = N + 1
      /\ \A a \in 1..N : Stream'[a] = Stream[a]
      /\ Stream'[N + 1] = f
  BY <1>1, StreamSent DEF SendFrame
<1>3. /\ \A j \in Ids \ {i} : transfer'[j] = transfer[j]
      /\ transfer'[i].size = t.size
      /\ f.last => transfer'[i].pc = "done" /\ transfer'[i].n = t.n
      /\ ~f.last => transfer'[i].pc = "read" /\ transfer'[i].n = t.n + 1
      /\ UNCHANGED <<got, bulkLoop, sinks>>
  BY DEF SendFrame, TransferAt, TypeOK, callerVars
<1> HIDE DEF f
<1>4. \A a \in 1..Len(Stream') : a \in 1..N \/ a = N + 1
  BY <1>0, <1>2
<1>5. \A a \in 1..N : /\ Stream[a].id \in Ids
                      /\ Stream[a].n \in Nat
                      /\ Stream'[a] = Stream[a]
                      /\ a \in 1..Len(Stream')
                      /\ a # N + 1
  BY <1>0, <1>2, StreamFacts
<1>6. \A g : g.id \in Ids /\ g.n \in Nat /\ Sent(g, transfer[g.id]) =>
                /\ Sent(g, transfer'[g.id])
                /\ g.id = i => g.n <= t.n
  <2> SUFFICES ASSUME NEW g, g.id \in Ids, g.n \in Nat, Sent(g, transfer[g.id])
               PROVE  Sent(g, transfer'[g.id]) /\ (g.id = i => g.n <= t.n)
    OBVIOUS
  <2>1. CASE g.id # i
    BY <2>1, <1>3 DEF Sent
  <2>2. CASE g.id = i
    <3>1. ~g.last /\ g.n <= t.n /\ 1 <= g.n
      BY <2>2, <1>0 DEF Sent
    <3>2. g.n <= transfer'[i].n /\ transfer'[i].pc # "none"
      BY <1>0, <1>3, <3>1
    <3> QED
      BY <2>2, <3>1, <3>2 DEF Sent
  <2> QED
    BY <2>1, <2>2
<1>7. Sent(f, transfer'[f.id])
  <2>1. 1 <= f.n /\ (~f.last => f.n <= transfer'[i].n) /\ transfer'[i].pc # "none"
    BY <1>0, <1>1, <1>3
  <2>2. f.last => /\ transfer'[i].pc = "done"
                  /\ transfer'[i].n = transfer'[i].size
                  /\ f.n = transfer'[i].size + 1
    BY <1>0, <1>1, <1>3
  <2> QED
    BY <1>1, <2>1, <2>2 DEF Sent
<1>8. StreamInv'
  <2>1. \A a \in 1..Len(Stream') : Sent(Stream'[a], transfer'[Stream'[a].id])
    BY <1>2, <1>4, <1>5, <1>6, <1>7 DEF PipeInv, StreamInv
  <2>2. ASSUME NEW a \in 1..Len(Stream'), NEW b \in 1..Len(Stream'), a < b,
               Stream'[a].id = Stream'[b].id
        PROVE  Stream'[a].n < Stream'[b].n
    <3>1. a \in 1..N
      BY <2>2, <1>0, <1>2
    <3>2. CASE b \in 1..N
      BY <2>2, <3>1, <3>2, <1>5 DEF PipeInv, StreamInv
    <3>3. CASE b = N + 1
      <4>1. Stream[a].id = i /\ Sent(Stream[a], transfer[Stream[a].id])
        BY <2>2, <3>1, <3>3, <1>1, <1>2, <1>5 DEF PipeInv, StreamInv
      <4>2. Stream[a].n <= t.n /\ Stream[a].n \in Nat
        BY <3>1, <4>1, <1>5, <1>6
      <4> QED
        BY <3>1, <3>3, <4>2, <1>0, <1>1, <1>2, <1>5
    <3> QED
      BY <3>2, <3>3, <1>4
  <2> QED
    BY <2>1, <2>2 DEF StreamInv
<1>9. InHand'
  <2> SUFFICES ASSUME bulkLoop.pc = "write"
               PROVE  /\ Sent(bulkLoop, transfer'[bulkLoop.id])
                      /\ bulkLoop.n = Len(got[bulkLoop.id]) + 1
                      /\ \A a \in 1..Len(Stream') :
                            Stream'[a].id = bulkLoop.id => bulkLoop.n < Stream'[a].n
    BY <1>3 DEF InHand
  <2>1. bulkLoop.id \in Ids /\ bulkLoop.n \in Nat
    BY BulkLoopRecords DEF TypeOK, EntryInv, LoopsInv
  <2>2. /\ Sent(bulkLoop, transfer[bulkLoop.id])
        /\ bulkLoop.n = Len(got[bulkLoop.id]) + 1
        /\ \A a \in 1..N : Stream[a].id = bulkLoop.id => bulkLoop.n < Stream[a].n
    BY DEF PipeInv, InHand
  <2>3. Sent(bulkLoop, transfer'[bulkLoop.id]) /\ (bulkLoop.id = i => bulkLoop.n <= t.n)
    BY <2>1, <2>2, <1>6
  <2>4. bulkLoop.id = i => bulkLoop.n < f.n
    BY <2>1, <2>3, <1>0, <1>1
  <2> QED
    BY <2>2, <2>3, <2>4, <1>1, <1>2, <1>4, <1>5
<1>10. \A j \in Ids : transfer'[j].n \in Nat /\ transfer[j].n \in Nat
                       /\ transfer[j].n <= transfer'[j].n
  <2>1. \A j \in Ids : transfer'[j].n \in Nat /\ transfer[j].n \in Nat
    BY TransferRecords DEF TypeOK
  <2> QED
    BY <2>1, <1>0, <1>3
<1>11. WrittenInv'
  <2>1. \A j \in Ids : Len(got[j]) \in Nat /\ Len(got[j]) <= transfer[j].n
    BY DEF TypeOK, PipeInv, WrittenInv
  <2>2. \A j \in Ids : Len(got[j]) <= transfer'[j].n
    BY <2>1, <1>10
  <2> QED
    BY <2>2, <1>3 DEF PipeInv, WrittenInv
<1>12. NothingLost'
  <2> SUFFICES ASSUME NEW j \in sinks
               PROVE  /\ \A a \in 1..Len(Stream') : Stream'[a].id = j => Len(got[j]) < Stream'[a].n
                      /\ \A k \in 1..transfer'[j].n :
                            \/ k <= Len(got[j])
                            \/ Holds(j, k)
                            \/ \E a \in 1..Len(Stream') : Stream'[a].id = j /\ Stream'[a].n = k
    BY <1>3 DEF NothingLost, Holds
  <2>0. j \in Ids
    BY DEF TypeOK
  <2>1. Len(got[j]) \in Nat /\ Len(got[j]) <= transfer[j].n
    BY <2>0 DEF TypeOK, PipeInv, WrittenInv
  <2>2. j = i => Len(got[j]) < f.n
    BY <2>1, <1>0, <1>1
  <2>3. \A a \in 1..N : Stream[a].id = j => Len(got[j]) < Stream[a].n
    BY DEF PipeInv, NothingLost
  <2>4. \A a \in 1..Len(Stream') : Stream'[a].id = j => Len(got[j]) < Stream'[a].n
    BY <2>2, <2>3, <1>1, <1>2, <1>4, <1>5
  <2>5. ASSUME NEW k \in 1..transfer'[j].n
        PROVE  \/ k <= Len(got[j])
               \/ Holds(j, k)
               \/ \E a \in 1..Len(Stream') : Stream'[a].id = j /\ Stream'[a].n = k
    <3>1. CASE k <= transfer[j].n
      <4>1. k \in 1..transfer[j].n
        BY <2>0, <3>1, <1>10
      <4>2. \/ k <= Len(got[j])
            \/ Holds(j, k)
            \/ \E a \in 1..N : Stream[a].id = j /\ Stream[a].n = k
        BY <4>1 DEF PipeInv, NothingLost
      <4> QED
        BY <4>2, <1>5
    <3>2. CASE ~(k <= transfer[j].n)
      <4>1. j = i /\ k = t.n + 1
        BY <2>0, <3>2, <1>0, <1>3
      <4>2. N + 1 \in 1..Len(Stream')
        BY <1>0, <1>2
      <4> QED
        BY <4>1, <4>2, <1>1, <1>2
    <3> QED
      BY <3>1, <3>2
  <2> QED
    BY <2>4, <2>5
<1> QED
  BY <1>8, <1>9, <1>11, <1>12 DEF PipeInv

\* The bulk loop drops the frame in its hands with the sink, or has none.
LEMMA PipeDrops ==
    ASSUME TypeOK, PipeInv, Stream' = Stream, UNCHANGED <<got, transfer>>,
           sinks' \subseteq sinks, bulkLoop'.pc # "write",
           bulkLoop.pc = "write" => bulkLoop.id \notin sinks'
    PROVE  PipeInv'
<1>1. StreamInv'
  BY DEF PipeInv, StreamInv
<1>2. InHand'
  BY DEF InHand
<1>3. WrittenInv'
  BY DEF PipeInv, WrittenInv
<1>4. \A j \in sinks' : \A k : ~Holds(j, k)
  BY DEF Holds
<1>5. NothingLost'
  BY <1>4 DEF PipeInv, NothingLost
<1> QED
  BY <1>1, <1>2, <1>3, <1>5 DEF PipeInv

\* The bulk loop reads the next frame, and takes it if it has a sink.
LEMMA PipeReads ==
    ASSUME TypeOK, TypeOK', PipeInv, ReadFrame
    PROVE  PipeInv'
<1> DEFINE f == Stream[1]
           N == Len(Stream)
<1>1. /\ N \in Nat /\ N > 0
      /\ Head(wire) = f
      /\ Len(Stream') = N - 1
      /\ \A a \in 1..Len(Stream') : a + 1 \in 1..N /\ Stream'[a] = Stream[a + 1]
      /\ \A a \in 1..N : a # 1 => a - 1 \in 1..Len(Stream') /\ Stream'[a - 1] = Stream[a]
  BY StreamFacts, StreamRead DEF ReadFrame, remoteVars
<1>2. /\ bulkLoop.pc = "read"
      /\ f.id \in sinks => bulkLoop' = BulkLoopAt("write", f.id, f.n, f.last)
      /\ f.id \notin sinks => bulkLoop' = bulkLoop
      /\ UNCHANGED <<got, transfer, sinks>>
  BY <1>1 DEF ReadFrame, callerVars, remoteVars
<1>3. /\ \A a \in 1..N : Stream[a].id \in Ids /\ Stream[a].n \in Nat
      /\ 1 \in 1..N
      /\ \A a \in 1..N : a # 1 => 1 < a
  BY <1>1, StreamFacts
<1>4. Sent(f, transfer[f.id])
  BY <1>3 DEF PipeInv, StreamInv
<1>5. \A a \in 1..Len(Stream') : Stream'[a].id = f.id => f.n < Stream'[a].n
  <2> SUFFICES ASSUME NEW a \in 1..Len(Stream'), Stream'[a].id = f.id
               PROVE  f.n < Stream'[a].n
    OBVIOUS
  <2>1. a + 1 \in 1..N /\ 1 < a + 1 /\ Stream'[a] = Stream[a + 1]
    BY <1>1
  <2> QED
    BY <2>1, <1>3 DEF PipeInv, StreamInv
<1>6. StreamInv'
  <2>1. \A a \in 1..Len(Stream') : Sent(Stream'[a], transfer'[Stream'[a].id])
    BY <1>1, <1>2 DEF PipeInv, StreamInv
  <2>2. ASSUME NEW a \in 1..Len(Stream'), NEW b \in 1..Len(Stream'), a < b,
               Stream'[a].id = Stream'[b].id
        PROVE  Stream'[a].n < Stream'[b].n
    <3>1. a + 1 < b + 1
      BY <2>2
    <3> QED
      BY <2>2, <3>1, <1>1 DEF PipeInv, StreamInv
  <2> QED
    BY <2>1, <2>2 DEF StreamInv
<1>7. f.id \in sinks => f.n = Len(got[f.id]) + 1
  <2> SUFFICES ASSUME f.id \in sinks
               PROVE  f.n = Len(got[f.id]) + 1
    OBVIOUS
  <2> DEFINE l == Len(got[f.id])
             t == transfer[f.id]
  <2>1. /\ l \in Nat /\ l < f.n /\ f.n \in Nat /\ t.n \in Nat
        /\ f.n <= t.n + 1
    <3>1. l \in Nat /\ t.n \in Nat /\ f.n \in Nat
      <4>1. f.id \in Ids /\ f.n \in Nat
        BY <1>3
      <4>2. got[f.id] \in Seq(Nat) /\ t \in TransferStates
        BY <4>1 DEF TypeOK
      <4>3. t.n \in Nat
        BY <4>2, TransferRecords
      <4> QED
        BY <4>1, <4>2, <4>3
    <3>2. l < f.n
      BY <1>3 DEF PipeInv, NothingLost
    <3>3. f.n <= t.n + 1
      <4>1. f.n <= t.n \/ f.n = t.n + 1
        BY <1>4 DEF Sent
      <4> HIDE DEF f, t
      <4> QED
        BY <4>1, <3>1
    <3> QED
      BY <3>1, <3>2, <3>3
  <2>2. ASSUME l + 1 < f.n
        PROVE  FALSE
    <3>1. l + 1 \in 1..t.n /\ ~(l + 1 <= l)
      <4> HIDE DEF f, l, t
      <4> QED
        BY <2>1, <2>2
    <3>2. \E a \in 1..N : Stream[a].id = f.id /\ Stream[a].n = l + 1
      BY <3>1, <1>2 DEF PipeInv, NothingLost, Holds
    <3>3. PICK a \in 1..N : Stream[a].id = f.id /\ Stream[a].n = l + 1
      BY <3>2
    <3>4. a # 1
      <4> HIDE DEF l
      <4> QED
        BY <3>3, <2>1, <2>2
    <3>5. f.n < l + 1
      BY <3>3, <3>4, <1>3 DEF PipeInv, StreamInv
    <3> HIDE DEF f, l
    <3> QED
      BY <3>5, <2>1, <2>2
  <2> HIDE DEF l
  <2>3. f.n = l + 1
    <3> HIDE DEF f
    <3> QED
      BY <2>1, <2>2
  <2> QED
    BY <2>3 DEF l
<1>8. f.id \in sinks => /\ bulkLoop'.pc = "write"
                        /\ bulkLoop'.id = f.id
                        /\ bulkLoop'.n = f.n
                        /\ bulkLoop'.last = f.last
  BY <1>2 DEF BulkLoopAt
<1>9. InHand'
  <2>1. CASE f.id \notin sinks
    BY <2>1, <1>2 DEF InHand
  <2>2. CASE f.id \in sinks
    <3>1. Sent(bulkLoop', transfer'[bulkLoop'.id])
      BY <2>2, <1>2, <1>4, <1>8 DEF Sent
    <3> QED
      BY <2>2, <3>1, <1>2, <1>5, <1>7, <1>8 DEF InHand
  <2> QED
    BY <2>1, <2>2
<1>10. WrittenInv'
  BY <1>2 DEF PipeInv, WrittenInv
<1>11. NothingLost'
  <2> SUFFICES ASSUME NEW j \in sinks
               PROVE  /\ \A a \in 1..Len(Stream') : Stream'[a].id = j => Len(got[j]) < Stream'[a].n
                      /\ \A k \in 1..transfer[j].n :
                            \/ k <= Len(got[j])
                            \/ bulkLoop'.pc = "write" /\ bulkLoop'.id = j /\ bulkLoop'.n = k
                            \/ \E a \in 1..Len(Stream') : Stream'[a].id = j /\ Stream'[a].n = k
    BY <1>2 DEF NothingLost, Holds
  <2>1. \A a \in 1..Len(Stream') : Stream'[a].id = j => Len(got[j]) < Stream'[a].n
    BY <1>1 DEF PipeInv, NothingLost
  <2>2. ASSUME NEW k \in 1..transfer[j].n, ~(k <= Len(got[j]))
        PROVE  \/ bulkLoop'.pc = "write" /\ bulkLoop'.id = j /\ bulkLoop'.n = k
               \/ \E a \in 1..Len(Stream') : Stream'[a].id = j /\ Stream'[a].n = k
    <3>1. \E a \in 1..N : Stream[a].id = j /\ Stream[a].n = k
      BY <2>2, <1>2 DEF PipeInv, NothingLost, Holds
    <3>2. PICK a \in 1..N : Stream[a].id = j /\ Stream[a].n = k
      BY <3>1
    <3>3. CASE a = 1
      BY <3>2, <3>3, <1>8
    <3>4. CASE a # 1
      BY <3>2, <3>4, <1>1
    <3> QED
      BY <3>3, <3>4
  <2> QED
    BY <2>1, <2>2
<1> QED
  BY <1>6, <1>9, <1>10, <1>11 DEF PipeInv

\* The bulk loop writes the payload in its hands, or signals after the last.
LEMMA PipeWrites ==
    ASSUME TypeOK, EntryInv, PipeInv, WriteFrame
    PROVE  PipeInv'
<1> DEFINE i == bulkLoop.id
           l == Len(got[i])
           t == transfer[i]
<1>1. /\ i \in Ids /\ bulkLoop.n \in Nat /\ l \in Nat /\ got[i] \in Seq(Nat)
      /\ t.n \in Nat /\ t.size \in Nat /\ sinks \subseteq Ids
  <2>1. i \in Ids /\ bulkLoop.n \in Nat
    BY BulkLoopRecords DEF WriteFrame, EntryInv, LoopsInv, TypeOK
  <2>2. got[i] \in Seq(Nat) /\ t \in TransferStates /\ sinks \subseteq Ids
    BY <2>1 DEF TypeOK
  <2>3. t.n \in Nat /\ t.size \in Nat
    BY <2>2, TransferRecords
  <2> QED
    BY <2>1, <2>2, <2>3
<1>2. /\ Stream' = Stream
      /\ UNCHANGED <<transfer, sinks>>
      /\ bulkLoop'.pc # "write"
      /\ bulkLoop.pc = "write"
  BY DEF WriteFrame, Stream, remoteVars, ReadingBulk, BulkLoopAt
<1>3. /\ Sent(bulkLoop, t)
      /\ bulkLoop.n = l + 1
      /\ \A a \in 1..Len(Stream) : Stream[a].id = i => bulkLoop.n < Stream[a].n
  BY <1>2 DEF PipeInv, InHand
<1>4. StreamInv' /\ InHand'
  BY <1>2 DEF PipeInv, StreamInv, InHand
<1>5. CASE bulkLoop.last
  <2>1. got' = got
    BY <1>5 DEF WriteFrame
  <2>2. WrittenInv'
    BY <2>1, <1>2 DEF PipeInv, WrittenInv
  <2>3. \A k \in 1..t.n : k # bulkLoop.n
    <3>1. bulkLoop.n = t.n + 1
      BY <1>3, <1>5 DEF Sent
    <3> HIDE DEF t
    <3> QED
      BY <3>1, <1>1
  <2>4. NothingLost'
    BY <2>1, <2>3, <1>2 DEF PipeInv, NothingLost, Holds
  <2> QED
    BY <2>2, <2>4, <1>4 DEF PipeInv
<1>6. CASE ~bulkLoop.last
  <2>1. got' = [got EXCEPT ![i] = Append(got[i], bulkLoop.n)]
    BY <1>6 DEF WriteFrame
  <2>2. /\ \A j \in Ids \ {i} : got'[j] = got[j]
        /\ got'[i] = Append(got[i], bulkLoop.n)
    BY <2>1, <1>1 DEF TypeOK
  <2>3. /\ Len(got'[i]) = bulkLoop.n
        /\ \A k \in 1..l : got'[i][k] = got[i][k]
        /\ got'[i][l + 1] = l + 1
    BY <2>2, <1>1, <1>3, AppendProperties
  <2>4. bulkLoop.n <= t.n
    BY <1>3, <1>6 DEF Sent
  <2>5. \A k \in 1..Len(got'[i]) : k \in 1..l \/ k = l + 1
    <3> HIDE DEF l
    <3> QED
      BY <2>3, <1>1, <1>3
  <2>6. WrittenInv'
    <3>1. \A k \in 1..Len(got'[i]) : got'[i][k] = k
      BY <1>1, <2>3, <2>5 DEF PipeInv, WrittenInv
    <3> QED
      BY <2>2, <2>3, <2>4, <3>1, <1>2 DEF PipeInv, WrittenInv
  <2>7. NothingLost'
    <3> SUFFICES ASSUME NEW j \in sinks
                 PROVE  /\ \A a \in 1..Len(Stream) : Stream[a].id = j => Len(got'[j]) < Stream[a].n
                        /\ \A k \in 1..transfer[j].n :
                              \/ k <= Len(got'[j])
                              \/ \E a \in 1..Len(Stream) : Stream[a].id = j /\ Stream[a].n = k
      BY <1>2 DEF NothingLost
    <3>1. CASE j = i
      <4>1. \A k \in 1..t.n : k <= l \/ k = bulkLoop.n => k <= bulkLoop.n
        <5> HIDE DEF l, t
        <5> QED
          BY <1>1, <1>3
      <4> QED
        BY <3>1, <4>1, <2>3, <1>3 DEF PipeInv, NothingLost, Holds
    <3>2. CASE j # i
      BY <3>2, <2>2, <1>1 DEF PipeInv, NothingLost, Holds
    <3> QED
      BY <3>1, <3>2
  <2> QED
    BY <2>6, <2>7, <1>4 DEF PipeInv
<1> QED
  BY <1>5, <1>6

LEMMA PipeStep ==
    ASSUME TypeOK, TypeOK', EntryInv, OnceInv, PipeInv, [Next]_vars
    PROVE  PipeInv'
<1> USE DEF callerVars, remoteVars
<1>1. CASE UNCHANGED vars
  <2>1. Stream' = Stream /\ UNCHANGED <<got, transfer, bulkLoop, sinks>>
    BY <1>1 DEF vars, Stream
  <2> QED
    BY <2>1, PipeKept
<1>2. CASE Call
  <2>1. Stream' = Stream /\ UNCHANGED <<got, transfer, bulkLoop, sinks>>
    BY <1>2 DEF Call, Stream
  <2> QED
    BY <2>1, PipeKept
<1>3. CASE FetchBulkTo
  <2>1. NextID \in Ids /\ NextID > lastID
    BY <1>3, IdFacts DEF FetchBulkTo, TypeOK
  <2>2. transfer[NextID].pc = "none"
    BY <2>1 DEF OnceInv
  <2>3. /\ Stream' = Stream
        /\ UNCHANGED <<got, transfer, bulkLoop>>
        /\ sinks' = sinks \cup {NextID}
    BY <1>3 DEF FetchBulkTo, Stream
  <2> QED
    BY <2>1, <2>2, <2>3, PipeRegisters
<1>4. ASSUME NEW i \in Ids, RequestStep(i) \/ CtxDone(i)
      PROVE  PipeInv'
  <2>1. Stream' = Stream /\ UNCHANGED <<got, transfer, bulkLoop>> /\ sinks' \subseteq sinks
    BY <1>4 DEF RequestStep, SendRequest, SendRequestFails, TakeReply, TakeDone, CleanUp,
                CtxDone, Stream
  <2> QED
    BY <2>1, PipeKept
<1>5. CASE ControlLoop
  <2>1. Stream' = Stream /\ UNCHANGED <<got, transfer, bulkLoop, sinks>>
    BY <1>5 DEF ControlLoop, ReadAnswer, PutReply, SignalError, Stream
  <2> QED
    BY <2>1, PipeKept
<1>6. CASE BulkLoop
  <2>1. CASE ReadFrame
    BY <2>1, PipeReads
  <2>2. CASE WriteFrame
    BY <2>2, PipeWrites
  <2>3. CASE WriteFails
    <3>1. /\ Stream' = Stream /\ UNCHANGED <<got, transfer>>
          /\ sinks' = sinks \ {bulkLoop.id}
          /\ bulkLoop'.pc # "write"
      BY <2>3 DEF WriteFails, Stream, BulkLoopAt
    <3> QED
      BY <3>1, PipeDrops
  <2>4. CASE SignalFailure
    <3>1. /\ Stream' = Stream /\ UNCHANGED <<got, transfer, sinks>>
          /\ bulkLoop'.pc # "write"
          /\ bulkLoop.pc # "write"
      BY <2>4 DEF SignalFailure, Stream, ReadingBulk, BulkLoopAt
    <3> QED
      BY <3>1, PipeDrops
  <2> QED
    BY <1>6, <2>1, <2>2, <2>3, <2>4 DEF BulkLoop
<1>7. CASE RemoteControl
  <2>1. CASE HandleBulkUnavailable \/ \E res \in {"ok", "err"} : HandleCall(res)
    <3>1. Stream' = Stream /\ UNCHANGED <<got, transfer, bulkLoop, sinks>>
      BY <2>1 DEF HandleBulkUnavailable, HandleCall, Stream
    <3> QED
      BY <3>1, PipeKept
  <2>2. ASSUME NEW size \in Sizes, HandleBulk(size)
        PROVE  PipeInv'
    <3>1. requests # <<>> /\ requests \in Seq(Requests)
      BY <2>2 DEF HandleBulk, TypeOK
    <3>2. Head(requests) = requests[1] /\ 1 \in 1..Len(requests) /\ Head(requests).id \in Ids
      BY <3>1, MessageRecords
    <3>3. transfer[Head(requests).id].pc = "none" /\ transfer[Head(requests).id].n = 0
      BY <3>2 DEF OnceInv
    <3>4. /\ \A j \in Ids \ {Head(requests).id} : transfer'[j] = transfer[j]
          /\ transfer'[Head(requests).id].pc = "read"
          /\ transfer'[Head(requests).id].n = 0
      BY <2>2, <3>2 DEF HandleBulk, TypeOK, TransferAt
    <3>5. Stream' = Stream /\ UNCHANGED <<got, bulkLoop, sinks>>
      BY <2>2 DEF HandleBulk, Stream
    <3> QED
      BY <3>2, <3>3, <3>4, <3>5, PipeGoes
  <2> QED
    BY <1>7, <2>1, <2>2 DEF RemoteControl
<1>8. ASSUME NEW i \in Ids, TransferStep(i)
      PROVE  PipeInv'
  <2>1. CASE SendFrame(i)
    BY <2>1, PipeSends
  <2>2. CASE ~SendFrame(i)
    <3>1. /\ transfer[i].pc # "done"
          /\ UNCHANGED outBuf
          /\ \E pc \in {"wait", "check", "send", "fail", "done"} : TransferGoes(i, pc)
      BY <1>8, <2>2 DEF TransferStep, ReadFails, CheckBuffer, Woken, BackpressureTimeout,
                        SendFrameFails, ReportFailure
    <3>2. PICK pc \in {"wait", "check", "send", "fail", "done"} : TransferGoes(i, pc)
      BY <3>1
    <3>3. /\ \A j \in Ids \ {i} : transfer'[j] = transfer[j]
          /\ transfer'[i].pc # "none"
          /\ transfer'[i].n = transfer[i].n
      BY <3>2 DEF TransferGoes, TransferAt, TypeOK
    <3>4. Stream' = Stream /\ UNCHANGED <<got, bulkLoop, sinks>>
      BY <3>1, <3>2 DEF TransferGoes, Stream
    <3> QED
      BY <3>1, <3>3, <3>4, PipeGoes
  <2> QED
    BY <2>1, <2>2
<1>9. CASE BindBulk \/ ConnectionLost
  <2>1. Stream' = Stream /\ UNCHANGED <<got, transfer, bulkLoop, sinks>>
    BY <1>9 DEF BindBulk, ConnectionLost, Stream
  <2> QED
    BY <2>1, PipeKept
<1>10. CASE Drain
  <2>1. Stream' = Stream
    BY <1>10, StreamDrained
  <2>2. UNCHANGED <<got, transfer, bulkLoop, sinks>>
    BY <1>10 DEF Drain
  <2> QED
    BY <2>1, <2>2, PipeKept
<1> QED
  BY <1>1, <1>2, <1>3, <1>4, <1>5, <1>6, <1>7, <1>8, <1>9, <1>10 DEF Next

-----------------------------------------------------------------------------
\* What is complete stays complete: nothing is written to it afterwards.
LEMMA CompleteStep ==
    ASSUME TypeOK, TypeOK', EntryInv, OnceInv, NEW i \in Ids, Complete(i), [Next]_vars
    PROVE  Complete(i)'
<1> USE DEF callerVars, remoteVars
<1>0. ASSUME transfer'[i] = transfer[i], got'[i] = got[i],
             bulkLoop'.pc = "write" => bulkLoop'.id # i,
             \A a \in 1..Len(Stream') : Stream'[a].id # i
      PROVE  Complete(i)'
  BY <1>0 DEF Complete
<1>1. CASE \/ UNCHANGED vars \/ Call \/ FetchBulkTo \/ ControlLoop \/ BindBulk \/ ConnectionLost
           \/ HandleBulkUnavailable \/ \E res \in {"ok", "err"} : HandleCall(res)
           \/ \E j \in Ids : RequestStep(j) \/ CtxDone(j)
  <2>1. Stream' = Stream /\ UNCHANGED <<got, transfer, bulkLoop>>
    BY <1>1 DEF vars, Call, FetchBulkTo, ControlLoop, ReadAnswer, PutReply, SignalError,
                BindBulk, ConnectionLost, HandleBulkUnavailable, HandleCall, RequestStep,
                SendRequest, SendRequestFails, TakeReply, TakeDone, CleanUp, CtxDone, Stream
  <2> QED
    BY <2>1, <1>0 DEF Complete
<1>2. CASE ReadFrame
  <2>1. /\ Len(Stream) > 0 /\ Len(Stream) \in Nat
        /\ Head(wire) = Stream[1]
        /\ \A a \in 1..Len(Stream') : a + 1 \in 1..Len(Stream) /\ Stream'[a] = Stream[a + 1]
    BY <1>2, StreamFacts, StreamRead DEF ReadFrame
  <2>2. Head(wire).id # i
    BY <2>1 DEF Complete
  <2>3. \A a \in 1..Len(Stream') : Stream'[a].id # i
    BY <2>1 DEF Complete
  <2>4. bulkLoop'.pc = "write" => bulkLoop'.id # i
    BY <1>2, <2>2 DEF ReadFrame, BulkLoopAt, Complete
  <2>5. transfer'[i] = transfer[i] /\ got'[i] = got[i]
    BY <1>2 DEF ReadFrame
  <2> QED
    BY <2>3, <2>4, <2>5, <1>0
<1>3. CASE WriteFrame \/ WriteFails \/ SignalFailure
  <2>1. Stream' = Stream /\ transfer' = transfer /\ bulkLoop'.pc # "write"
    BY <1>3 DEF WriteFrame, WriteFails, SignalFailure, Stream, ReadingBulk, BulkLoopAt
  <2>2. got'[i] = got[i]
    BY <1>3 DEF WriteFrame, WriteFails, SignalFailure, Complete, TypeOK
  <2> QED
    BY <2>1, <2>2, <1>0 DEF Complete
<1>4. ASSUME NEW size \in Sizes, HandleBulk(size)
      PROVE  Complete(i)'
  <2>1. requests # <<>> /\ requests \in Seq(Requests)
    BY <1>4 DEF HandleBulk, TypeOK
  <2>2. Head(requests) = requests[1] /\ 1 \in 1..Len(requests) /\ Head(requests).id \in Ids
    BY <2>1, MessageRecords
  <2>3. Head(requests).id # i
    BY <2>2 DEF OnceInv, Complete
  <2>4. Stream' = Stream /\ UNCHANGED <<got, bulkLoop>> /\ transfer'[i] = transfer[i]
    BY <1>4, <2>3 DEF HandleBulk, Stream, TypeOK
  <2> QED
    BY <2>4, <1>0 DEF Complete
<1>5. ASSUME NEW j \in Ids, TransferStep(j)
      PROVE  Complete(i)'
  <2>1. j # i
    BY <1>5 DEF TransferStep, ReadFails, CheckBuffer, Woken, BackpressureTimeout, SendFrame,
                SendFrameFails, ReportFailure, Complete
  <2>2. UNCHANGED <<got, bulkLoop, wire>> /\ transfer'[i] = transfer[i]
    BY <1>5, <2>1 DEF TransferStep, ReadFails, CheckBuffer, Woken, BackpressureTimeout,
                SendFrame, SendFrameFails, ReportFailure, TransferGoes, TypeOK
  <2>3. CASE SendFrame(j)
    <3> DEFINE f == [id |-> j, n |-> transfer[j].n + 1, last |-> AtEOF(transfer[j])]
    <3>1. f \in Frames
      <4>1. AtEOF(transfer[j]) \in BOOLEAN /\ transfer[j].n + 1 \in Nat
        <5>1. transfer[j].n \in Nat
          BY TransferRecords DEF TypeOK
        <5> QED
          BY <5>1 DEF AtEOF
      <4> QED
        BY <4>1, MessageRecords
    <3>2. f.id # i
      BY <2>1
    <3>3. outBuf' = Append(outBuf, f)
      BY <2>3 DEF SendFrame
    <3> HIDE DEF f
    <3>4. /\ Len(Stream') = Len(Stream) + 1
          /\ \A a \in 1..Len(Stream) : Stream'[a] = Stream[a]
          /\ Stream'[Len(Stream) + 1] = f
          /\ Len(Stream) \in Nat
      BY <2>2, <3>1, <3>3, StreamSent, StreamFacts
    <3>5. \A a \in 1..Len(Stream') : a \in 1..Len(Stream) \/ a = Len(Stream) + 1
      BY <3>4
    <3>6. \A a \in 1..Len(Stream') : Stream'[a].id # i
      BY <3>2, <3>4, <3>5 DEF Complete
    <3> QED
      BY <2>2, <3>6, <1>0 DEF Complete
  <2>4. CASE ~SendFrame(j)
    <3>1. Stream' = Stream
      BY <1>5, <2>2, <2>4 DEF TransferStep, ReadFails, CheckBuffer, Woken, BackpressureTimeout,
                              SendFrameFails, ReportFailure, Stream
    <3> QED
      BY <2>2, <3>1, <1>0 DEF Complete
  <2> QED
    BY <2>3, <2>4
<1>6. CASE Drain
  <2>1. Stream' = Stream
    BY <1>6, StreamDrained
  <2>2. UNCHANGED <<got, transfer, bulkLoop>>
    BY <1>6 DEF Drain
  <2> QED
    BY <2>1, <2>2, <1>0 DEF Complete
<1> QED
  BY <1>1, <1>2, <1>3, <1>4, <1>5, <1>6 DEF Next, BulkLoop, RemoteControl

\* The last frame is written when everything before it was, and none comes after it.
LEMMA CompleteWritten ==
    ASSUME TypeOK, EntryInv, PipeInv, WriteFrame, bulkLoop.last, NEW i, i = bulkLoop.id
    PROVE  Complete(i)'
<1> DEFINE t == transfer[i]
<1>1. i \in Ids /\ got[i] \in Seq(Nat) /\ t \in TransferStates
  BY DEF WriteFrame, EntryInv, LoopsInv, TypeOK
<1>2. t.size \in Nat /\ Len(got[i]) \in Nat
  BY <1>1, TransferRecords
<1>3. /\ Sent(bulkLoop, t)
      /\ bulkLoop.n = Len(got[i]) + 1
      /\ \A a \in 1..Len(Stream) : Stream[a].id = i => bulkLoop.n < Stream[a].n
  BY DEF WriteFrame, PipeInv, InHand
<1>4. t.pc = "done" /\ bulkLoop.n = t.size + 1 /\ t.n = t.size
  BY <1>3 DEF Sent
<1>5. Len(got[i]) = t.size
  BY <1>2, <1>3, <1>4
<1>6. \A a \in 1..Len(Stream) : Stream[a].id # i
  <2> SUFFICES ASSUME NEW a \in 1..Len(Stream), Stream[a].id = i
               PROVE  FALSE
    OBVIOUS
  <2>1. Stream[a].n \in Nat /\ t.size + 1 < Stream[a].n
    BY <1>3, <1>4, StreamFacts
  <2>2. Stream[a].n <= t.size \/ Stream[a].n = t.size + 1
    <3>1. Sent(Stream[a], t)
      BY DEF PipeInv, StreamInv
    <3> QED
      BY <3>1, <1>4 DEF Sent
  <2> HIDE DEF t
  <2> QED
    BY <2>1, <2>2, <1>2
<1>7. /\ UNCHANGED <<transfer, got>>
      /\ Stream' = Stream
      /\ bulkLoop'.pc # "write"
  BY DEF WriteFrame, Stream, remoteVars, ReadingBulk, BulkLoopAt
<1> QED
  BY <1>4, <1>5, <1>6, <1>7 DEF Complete

\* A bulk request was told "ok", or is about to be.
Told(i) == request[i].bulk /\ (slot[i] = "ok" \/ request[i].res = "ok")

\* Only the last frame in the bulk loop's hands tells anyone anew.
LEMMA ToldStep ==
    ASSUME TypeOK, EntryInv, OkInv, [Next]_vars, NEW i \in Ids, Told(i)'
    PROVE  Told(i) \/ (WriteFrame /\ bulkLoop.last /\ i = bulkLoop.id)
<1> USE DEF callerVars, remoteVars
<1>0. slot \in [Ids -> Results] /\ request \in [Ids -> RequestStates]
  BY DEF TypeOK
<1>1. ASSUME UNCHANGED <<request, slot>>
      PROVE  Told(i)
  BY <1>1 DEF Told
<1>2. CASE Call \/ FetchBulkTo
  <2>1. NextID \in Ids /\ NextID > lastID
    BY <1>2, IdFacts DEF Call, FetchBulkTo, TypeOK
  <2>2. slot[NextID] = "none"
    BY <2>1 DEF EntryInv, FreshInv
  <2>3. CASE i = NextID
    BY <2>1, <2>2, <2>3, <1>0, <1>2 DEF Call, FetchBulkTo, Told, RequestAt
  <2>4. CASE i # NextID
    BY <2>4, <1>0, <1>2 DEF Call, FetchBulkTo, Told
  <2> QED
    BY <2>3, <2>4
<1>3. ASSUME NEW j \in Ids, RequestStep(j) \/ CtxDone(j)
      PROVE  Told(i)
  <2>1. CASE i # j
    <3>1. request'[i] = request[i] /\ slot'[i] = slot[i]
      BY <2>1, <1>0, <1>3 DEF RequestStep, CtxDone, SendRequest, SendRequestFails, TakeReply,
                              TakeDone, CleanUp
    <3> QED
      BY <3>1 DEF Told
  <2>2. CASE i = j
    <3>1. CASE TakeReply(i)
      BY <3>1, <1>0 DEF TakeReply, Told, RequestAt
    <3>2. CASE TakeDone(i)
      BY <3>2, <1>0 DEF TakeDone, Told, RequestAt
    <3>3. CASE SendRequest(i)
      BY <3>3, <1>0 DEF SendRequest, Told, RequestAt
    <3>4. CASE SendRequestFails(i)
      BY <3>4, <1>0 DEF SendRequestFails, Told, RequestAt
    <3>5. CASE CtxDone(i)
      BY <3>5, <1>0 DEF CtxDone, Told, RequestAt
    <3>6. CASE CleanUp(i)
      BY <3>6, <1>0 DEF CleanUp, Told, RequestAt
    <3> QED
      BY <2>2, <1>3, <3>1, <3>2, <3>3, <3>4, <3>5, <3>6 DEF RequestStep
  <2> QED
    BY <2>1, <2>2
<1>4. CASE ReadAnswer
  BY <1>1, <1>4 DEF ReadAnswer
<1>5. CASE PutReply
  <2>1. control.id \in Ids /\ ~request[control.id].bulk
    BY <1>5 DEF PutReply, EntryInv, LoopsInv, OkInv
  <2> QED
    BY <2>1, <1>0, <1>5 DEF PutReply, Told
<1>6. ASSUME NEW j, slot' = Signalled(j, "err"), request' = request
      PROVE  Told(i)
  BY <1>0, <1>6 DEF Signalled, Told
<1>7. CASE SignalError
  BY <1>6, <1>7 DEF SignalError
<1>8. CASE SignalFailure
  BY <1>6, <1>8 DEF SignalFailure
<1>9. CASE WriteFrame
  <2>1. CASE bulkLoop.last /\ i # bulkLoop.id
    BY <2>1, <1>0, <1>9 DEF WriteFrame, Signalled, Told
  <2>2. CASE ~bulkLoop.last
    BY <2>2, <1>1, <1>9 DEF WriteFrame
  <2> QED
    BY <2>1, <2>2, <1>9
<1>10. CASE \/ UNCHANGED vars \/ ReadFrame \/ WriteFails \/ RemoteControl
            \/ BindBulk \/ Drain \/ ConnectionLost
  BY <1>10, <1>1 DEF vars, ReadFrame, WriteFails, RemoteControl, HandleCall,
                     HandleBulkUnavailable, HandleBulk, BindBulk, Drain, ConnectionLost
<1>11. ASSUME NEW j \in Ids, TransferStep(j)
       PROVE  Told(i)
  BY <1>11, <1>1 DEF TransferStep, ReadFails, CheckBuffer, Woken, BackpressureTimeout, SendFrame,
                     SendFrameFails, ReportFailure, TransferGoes
<1> QED
  BY <1>2, <1>3, <1>4, <1>5, <1>7, <1>8, <1>9, <1>10, <1>11 DEF Next, ControlLoop, BulkLoop

LEMMA OkStep ==
    ASSUME TypeOK, TypeOK', EntryInv, OnceInv, PipeInv, OkInv, [Next]_vars
    PROVE  OkInv'
<1> USE DEF callerVars, remoteVars
<1>1. ASSUME NEW i \in Ids, Told(i)'
      PROVE  Complete(i)'
  <2>1. CASE Told(i)
    <3>1. Complete(i)
      BY <2>1 DEF OkInv, Told
    <3> QED
      BY <3>1, CompleteStep
  <2>2. CASE WriteFrame /\ bulkLoop.last /\ i = bulkLoop.id
    BY <2>2, CompleteWritten
  <2> QED
    BY <1>1, <2>1, <2>2, ToldStep
<1>2. \A i \in Ids : i <= lastID => request'[i].bulk = request[i].bulk
  <2>0. request \in [Ids -> RequestStates] /\ \A i \in Ids : request[i].bulk \in BOOLEAN
    BY RequestRecords DEF TypeOK
  <2>1. CASE Call \/ FetchBulkTo
    <3>1. NextID \in Ids /\ NextID > lastID /\ lastID \in Int
      <4>1. lastID \in 0..MaxCalls /\ lastID < MaxCalls
        BY <2>1 DEF Call, FetchBulkTo, TypeOK
      <4> QED
        BY <4>1, IdFacts, BoundAssumption
    <3>2. \A i \in Ids : i <= lastID => i # NextID
      BY <3>1, IdFacts
    <3> QED
      BY <2>0, <2>1, <3>2 DEF Call, FetchBulkTo
  <2>2. ASSUME NEW j \in Ids, RequestStep(j) \/ CtxDone(j)
        PROVE  \A i \in Ids : request'[i].bulk = request[i].bulk
    <3>1. CASE TakeReply(j)
      <4>1. request' = [request EXCEPT ![j] = RequestAt("returned", FALSE, slot[j])]
            /\ request[j].bulk = FALSE
        BY <2>0, <3>1 DEF TakeReply
      <4> QED
        BY <2>0, <4>1 DEF RequestAt
    <3>2. CASE TakeDone(j)
      <4>1. request' = [request EXCEPT ![j] = RequestAt("cleanup", TRUE, slot[j])]
            /\ request[j].bulk = TRUE
        BY <2>0, <3>2 DEF TakeDone
      <4> QED
        BY <2>0, <4>1 DEF RequestAt
    <3>3. CASE SendRequest(j) \/ SendRequestFails(j) \/ CleanUp(j) \/ CtxDone(j)
      BY <2>0, <3>3 DEF SendRequest, SendRequestFails, CleanUp, CtxDone, RequestAt
    <3> QED
      BY <2>2, <3>1, <3>2, <3>3 DEF RequestStep
  <2>3. CASE \/ UNCHANGED vars \/ ControlLoop \/ BulkLoop \/ RemoteControl
             \/ BindBulk \/ Drain \/ ConnectionLost
    BY <2>3 DEF vars, ControlLoop, ReadAnswer, PutReply, SignalError, BulkLoop, ReadFrame,
                WriteFrame, WriteFails, SignalFailure, RemoteControl, HandleCall,
                HandleBulkUnavailable, HandleBulk, BindBulk, Drain, ConnectionLost
  <2>4. ASSUME NEW j \in Ids, TransferStep(j)
        PROVE  request' = request
    BY <2>4 DEF TransferStep, ReadFails, CheckBuffer, Woken, BackpressureTimeout, SendFrame,
                SendFrameFails, ReportFailure, TransferGoes
  <2> QED
    BY <2>1, <2>2, <2>3, <2>4 DEF Next
<1>3. control'.pc = "put" => ~request'[control'.id].bulk
  <2>1. CASE ReadAnswer
    <3>1. control' = control \/ control'.pc # "put" \/ control'.id \in pending
      BY <2>1 DEF ReadAnswer, LoopAt
    <3>2. request' = request
      BY <2>1 DEF ReadAnswer
    <3> QED
      BY <3>1, <3>2 DEF EntryInv, PendingInv, OkInv
  <2>2. CASE PutReply \/ SignalError
    BY <2>2 DEF PutReply, SignalError, ReadingLoop, LoopAt
  <2>3. CASE ~(ReadAnswer \/ PutReply \/ SignalError)
    <3>1. control' = control
      BY <2>3 DEF Next, vars, Call, FetchBulkTo, RequestStep, SendRequest, SendRequestFails,
                  TakeReply, TakeDone, CleanUp, CtxDone, ControlLoop, BulkLoop, ReadFrame,
                  WriteFrame, WriteFails, SignalFailure, RemoteControl, HandleCall,
                  HandleBulkUnavailable, HandleBulk, TransferStep, ReadFails, CheckBuffer,
                  Woken, BackpressureTimeout, SendFrame, SendFrameFails, ReportFailure,
                  TransferGoes, BindBulk, Drain, ConnectionLost
    <3> QED
      BY <3>1, <1>2 DEF EntryInv, LoopsInv, OkInv
  <2> QED
    BY <2>1, <2>2, <2>3
<1> QED
  BY <1>1, <1>3 DEF OkInv, Told

LEMMA TransferInit ==
    ASSUME Init
    PROVE  OnceInv /\ PipeInv /\ OkInv
<1>1. /\ \A i \in Ids : /\ request[i].pc = "none" /\ request[i].res = "none"
                        /\ slot[i] = "none"
                        /\ transfer[i].pc = "none" /\ transfer[i].n = 0 /\ transfer[i].size = 0
                        /\ Len(got[i]) = 0
      /\ control.pc = "read" /\ bulkLoop.pc = "read" /\ sinks = {}
  BY DEF Init, NoRequest, RequestAt, NoTransfer, TransferAt, ReadingLoop, LoopAt, ReadingBulk,
         BulkLoopAt
<1>2. Len(requests) = 0 /\ Len(Stream) = 0
  <2>1. TypeOK
    BY TypeInit
  <2>2. Len(Stream) = Len(wire) + Len(outBuf)
    BY <2>1, StreamFacts
  <2> QED
    BY <2>2 DEF Init
<1>3. \A a \in 1..0 : FALSE
  OBVIOUS
<1>4. OnceInv
  BY <1>1, <1>2, <1>3 DEF OnceInv
<1>5. StreamInv /\ InHand /\ NothingLost
  BY <1>1, <1>2, <1>3 DEF StreamInv, InHand, NothingLost
<1>6. WrittenInv
  BY <1>1, <1>3 DEF WrittenInv
<1>7. OkInv
  BY <1>1 DEF OkInv
<1> QED
  BY <1>4, <1>5, <1>6, <1>7 DEF PipeInv

LEMMA TransferHolds == Spec => [](TypeOK /\ OnceInv /\ PipeInv /\ OkInv)
<1>1. Init => TypeOK /\ EntryInv /\ OnceInv /\ PipeInv /\ OkInv
  BY TypeInit, EntryInit, TransferInit
<1>2. TypeOK /\ EntryInv /\ OnceInv /\ PipeInv /\ OkInv /\ [Next]_vars
         => (TypeOK /\ EntryInv /\ OnceInv /\ PipeInv /\ OkInv)'
  BY TypeStep, EntryStep, OnceStep, PipeStep, OkStep
<1> QED
  BY <1>1, <1>2, PTL DEF Spec

\* A bulk request that returned without an error has the whole file, every payload
\* once and in order, for any number of requests, any sizes and any high-water mark:
\* the bulk channel keeps the frames of a transfer in order behind one another, a
\* frame that fetchBulkTo's sink misses is the end of that sink, and only the last
\* frame makes it succeed.
THEOREM TransfersWhole == Spec => []WholeTransfers
<1>1. TypeOK /\ OnceInv /\ PipeInv /\ OkInv => WholeTransfers
  <2> SUFFICES ASSUME TypeOK, PipeInv, OkInv, NEW i \in Ids, request[i].bulk,
                      request[i].res = "ok"
               PROVE  got[i] = [k \in 1..transfer[i].size |-> k]
    BY DEF WholeTransfers
  <2>1. Len(got[i]) = transfer[i].size /\ got[i] \in Seq(Nat)
    BY DEF OkInv, Complete, TypeOK
  <2>2. \A k \in 1..Len(got[i]) : got[i][k] = k
    BY DEF PipeInv, WrittenInv
  <2>3. got[i] = [k \in 1..Len(got[i]) |-> got[i][k]]
    BY <2>1
  <2> QED
    BY <2>1, <2>2, <2>3
<1> QED
  BY <1>1, TransferHolds, PTL

\* Once a bulk request was told "ok" nothing is written to its file any more.
NoLateWrite == \A i \in Ids : Told(i) => got'[i] = got[i]

\* The "Late-frame safety" of bindBulk as a step property, for any number of requests
\* and any sizes: the writer of a request that was told "ok", and may have been closed
\* by the caller, is never used again.
THEOREM LateFramesSafe == Spec => [][NoLateWrite]_vars
<1>1. TypeOK /\ OnceInv /\ PipeInv /\ OkInv /\ [Next]_vars => [NoLateWrite]_vars
  <2> SUFFICES ASSUME TypeOK, OkInv, Next, NEW i \in Ids, Told(i)
               PROVE  got'[i] = got[i]
    BY DEF NoLateWrite
  <2>1. Complete(i)
    BY DEF OkInv, Told
  <2>2. CASE WriteFrame
    BY <2>1, <2>2 DEF WriteFrame, Complete, TypeOK
  <2>3. CASE ~WriteFrame
    BY <2>3 DEF Next, Call, FetchBulkTo, RequestStep, SendRequest, SendRequestFails,
                TakeReply, TakeDone, CleanUp, CtxDone, ControlLoop, ReadAnswer, PutReply,
                SignalError, BulkLoop, ReadFrame, WriteFails, SignalFailure, RemoteControl,
                HandleCall, HandleBulkUnavailable, HandleBulk, TransferStep, ReadFails,
                CheckBuffer, Woken, BackpressureTimeout, SendFrame, SendFrameFails,
                ReportFailure, TransferGoes, BindBulk, Drain, ConnectionLost, callerVars,
                remoteVars
  <2> QED
    BY <2>2, <2>3
<1> QED
  BY <1>1, TransferHolds, PTL DEF Spec
=============================================================================
