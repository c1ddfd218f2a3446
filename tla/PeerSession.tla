----------------------------- MODULE PeerSession -----------------------------
(***************************************************************************)
(* One Session between two Nodes (internal/peer/session.go), seen from the *)
(* Node that calls: request correlation over the control channel (call,    *)
(* deliver), bulk transfers (fetchBulkTo, bindBulk), and the remote's      *)
(* goroutines that answer them under flow control (sendBulkReader,         *)
(* sendFrameFlow). Start is after the handshake: callers wait for Ready.   *)
(*                                                                         *)
(* Every critical section under Session.mu, every channel operation and    *)
(* every use of the connection is one action. An envelope is its request   *)
(* id and whether it is an Error; a frame is its request id, its number    *)
(* and the last flag. The buffered amount is counted in frames. A call's   *)
(* reply channel and a sink's done channel both hold one value: slot.      *)
(***************************************************************************)
EXTENDS Integers, Sequences, FiniteSets

CONSTANTS
    HighWater,   \* bulkHighWater = bulkLowWater, in frames
    MaxCalls,    \* bound: requests in all
    Sizes        \* how many payload frames a transfer may have

ASSUME BoundAssumption ==
    /\ HighWater \in Nat
    /\ MaxCalls \in Nat
    /\ Sizes \subseteq Nat

VARIABLES
    alive,      \* the peer connection
    bulkOpen,   \* the remote's bulk channel is bound
    lastID,     \* requestIDs.n
    request,    \* [Ids -> the goroutine in call or fetchBulkTo that made it]
    pending,    \* Session.pending: the ids with a reply channel
    sinks,      \* Session.bulkSinks: the ids with a sink
    slot,       \* [Ids -> the value in the reply or done channel]
    got,        \* [Ids -> the payloads written to the sink's writer]
    requests,   \* control channel, to the remote
    answers,    \* control channel, from the remote
    control,    \* the goroutine of the control channel's OnMessage
    bulkLoop,   \* the goroutine of the bulk channel's OnMessage
    transfer,   \* [Ids -> the remote's goroutine that serves a bulk request]
    outBuf,     \* frames in the remote's send buffer
    wire,       \* frames that left it and are not handled yet
    lowSig,     \* the remote's Session.lowSig holds a token
    peak        \* history: the most transfers in progress at once

vars == <<alive, bulkOpen, lastID, request, pending, sinks, slot, got, requests,
          answers, control, bulkLoop, transfer, outBuf, wire, lowSig, peak>>

callerVars == <<request, pending, sinks, slot>>
remoteVars == <<bulkOpen, transfer, outBuf, lowSig, peak>>

Ids == 1..MaxCalls
Results == {"none", "ok", "err"}

-----------------------------------------------------------------------------
Requests == [id : Ids, bulk : BOOLEAN]
Answers == [id : Ids, res : {"ok", "err"}]
Frames == [id : Ids, n : Nat, last : BOOLEAN]

RequestStates == [pc : {"none", "send", "wait", "cleanup", "returned"}, bulk : BOOLEAN,
                  res : Results]

RequestAt(pc, b, res) == [pc |-> pc, bulk |-> b, res |-> res]

NoRequest == RequestAt("none", FALSE, "none")

LoopStates == [pc : {"read", "put", "signal"}, id : Ids \cup {0}, res : Results]

LoopAt(pc, i, res) == [pc |-> pc, id |-> i, res |-> res]

ReadingLoop == LoopAt("read", 0, "none")

BulkLoopStates == [pc : {"read", "write", "signal"}, id : Ids \cup {0}, n : Nat,
                   last : BOOLEAN]

BulkLoopAt(pc, i, n, last) == [pc |-> pc, id |-> i, n |-> n, last |-> last]

ReadingBulk == BulkLoopAt("read", 0, 0, FALSE)

\* The chunk a transfer is at is its own business between two uses of the Session:
\* size is the number of chunks Read returns before EOF, n how many were sent.
TransferStates == [pc : {"none", "read", "check", "wait", "send", "fail", "done"},
                   size : Nat, n : Nat]

TransferAt(pc, size, n) == [pc |-> pc, size |-> size, n |-> n]

NoTransfer == TransferAt("none", 0, 0)

-----------------------------------------------------------------------------
\* This Node's requests, each on the goroutine that makes it

\* requestIDs.next
NextID == lastID + 1

\* call: allocate an id and register its reply channel.
Call ==
    /\ lastID < MaxCalls
    /\ lastID' = lastID + 1
    /\ pending' = pending \cup {NextID}
    /\ request' = [request EXCEPT ![NextID] = RequestAt("send", FALSE, "none")]
    /\ UNCHANGED <<alive, sinks, slot, got, requests, answers, control, bulkLoop, wire,
                   remoteVars>>

\* fetchBulkTo: allocate an id and register its sink.
FetchBulkTo ==
    /\ lastID < MaxCalls
    /\ lastID' = lastID + 1
    /\ sinks' = sinks \cup {NextID}
    /\ request' = [request EXCEPT ![NextID] = RequestAt("send", TRUE, "none")]
    /\ UNCHANGED <<alive, pending, slot, got, requests, answers, control, bulkLoop, wire,
                   remoteVars>>

SendRequest(i) ==
    /\ request[i].pc = "send"
    /\ alive
    /\ requests' = Append(requests, [id |-> i, bulk |-> request[i].bulk])
    /\ request' = [request EXCEPT ![i] = RequestAt("wait", request[i].bulk, "none")]
    /\ UNCHANGED <<alive, lastID, pending, sinks, slot, got, answers, control, bulkLoop, wire,
                   remoteVars>>

SendRequestFails(i) ==
    /\ request[i].pc = "send"
    /\ ~alive
    /\ request' = [request EXCEPT ![i] = RequestAt("cleanup", request[i].bulk, "err")]
    /\ UNCHANGED <<alive, lastID, pending, sinks, slot, got, requests, answers, control,
                   bulkLoop, wire, remoteVars>>

\* The select of call takes the reply and returns it: deliver removed the entry.
TakeReply(i) ==
    /\ request[i].pc = "wait"
    /\ ~request[i].bulk
    /\ slot[i] # "none"
    /\ request' = [request EXCEPT ![i] = RequestAt("returned", FALSE, slot[i])]
    /\ slot' = [slot EXCEPT ![i] = "none"]
    /\ UNCHANGED <<alive, lastID, pending, sinks, got, requests, answers, control, bulkLoop,
                   wire, remoteVars>>

\* The select of fetchBulkTo takes the sink's result.
TakeDone(i) ==
    /\ request[i].pc = "wait"
    /\ request[i].bulk
    /\ slot[i] # "none"
    /\ request' = [request EXCEPT ![i] = RequestAt("cleanup", TRUE, slot[i])]
    /\ slot' = [slot EXCEPT ![i] = "none"]
    /\ UNCHANGED <<alive, lastID, pending, sinks, got, requests, answers, control, bulkLoop,
                   wire, remoteVars>>

\* A request that returns on ctx.Done without removing its entry.
CtxDoneForgets(i) ==
    /\ request[i].pc = "wait"
    /\ request' = [request EXCEPT ![i] = RequestAt("returned", request[i].bulk, "err")]
    /\ UNCHANGED <<alive, lastID, pending, sinks, slot, got, requests, answers, control,
                   bulkLoop, wire, remoteVars>>

\* The request's context ends first.
CtxDone(i) ==
    /\ request[i].pc = "wait"
    /\ request' = [request EXCEPT ![i] = RequestAt("cleanup", request[i].bulk, "err")]
    /\ UNCHANGED <<alive, lastID, pending, sinks, slot, got, requests, answers, control,
                   bulkLoop, wire, remoteVars>>

\* delete(s.pending, id) of call, cleanup of fetchBulkTo, and the return.
CleanUp(i) ==
    /\ request[i].pc = "cleanup"
    /\ pending' = pending \ {i}
    /\ sinks' = sinks \ {i}
    /\ request' = [request EXCEPT ![i] = RequestAt("returned", request[i].bulk, request[i].res)]
    /\ UNCHANGED <<alive, lastID, slot, got, requests, answers, control, bulkLoop, wire,
                   remoteVars>>

-----------------------------------------------------------------------------
\* The control channel's OnMessage goroutine: an Error whose id has a sink goes
\* to the sink, everything else to deliver, which takes the reply channel out of
\* pending under the lock and sends to it after the unlock.

ReadAnswer ==
    /\ alive
    /\ control.pc = "read"
    /\ answers # <<>>
    /\ answers' = Tail(answers)
    /\ LET m == Head(answers) IN
          \/ /\ m.res = "err"
             /\ m.id \in sinks
             /\ control' = LoopAt("signal", m.id, "err")
             /\ UNCHANGED pending
          \/ /\ m.res = "ok" \/ m.id \notin sinks
             /\ m.id \in pending
             /\ control' = LoopAt("put", m.id, m.res)
             /\ pending' = pending \ {m.id}
          \/ /\ m.res = "ok" \/ m.id \notin sinks
             /\ m.id \notin pending
             /\ UNCHANGED <<control, pending>>
    /\ UNCHANGED <<alive, lastID, request, sinks, slot, got, requests, bulkLoop, wire, remoteVars>>

\* ch <- env: would block on a full channel.
PutReply ==
    /\ control.pc = "put"
    /\ slot[control.id] = "none"
    /\ slot' = [slot EXCEPT ![control.id] = control.res]
    /\ control' = ReadingLoop
    /\ UNCHANGED <<alive, lastID, request, pending, sinks, got, requests, answers,
                   bulkLoop, wire, remoteVars>>

\* signalSink: never blocks, a second result is dropped.
Signalled(i, res) == IF slot[i] = "none" THEN [slot EXCEPT ![i] = res] ELSE slot

SignalError ==
    /\ control.pc = "signal"
    /\ slot' = Signalled(control.id, "err")
    /\ control' = ReadingLoop
    /\ UNCHANGED <<alive, lastID, request, pending, sinks, got, requests, answers,
                   bulkLoop, wire, remoteVars>>

-----------------------------------------------------------------------------
\* The bulk channel's OnMessage goroutine: look the sink up under the lock, write
\* after the unlock, signal after the last write.

ReadFrame ==
    /\ alive
    /\ bulkLoop.pc = "read"
    /\ wire # <<>>
    /\ wire' = Tail(wire)
    /\ LET f == Head(wire) IN
          IF f.id \in sinks
          THEN bulkLoop' = BulkLoopAt("write", f.id, f.n, f.last)
          ELSE UNCHANGED bulkLoop
    /\ UNCHANGED <<alive, lastID, got, requests, answers, control, callerVars,
                   remoteVars>>

WriteFrame ==
    /\ bulkLoop.pc = "write"
    /\ IF bulkLoop.last
       THEN /\ slot' = Signalled(bulkLoop.id, "ok")
            /\ UNCHANGED got
       ELSE /\ got' = [got EXCEPT ![bulkLoop.id] = Append(@, bulkLoop.n)]
            /\ UNCHANGED slot
    /\ bulkLoop' = ReadingBulk
    /\ UNCHANGED <<alive, lastID, request, pending, sinks, requests, answers, control,
                   wire, remoteVars>>

\* The writer (a file on a full disk) fails: failSink unregisters the sink ...
WriteFails ==
    /\ bulkLoop.pc = "write"
    /\ ~bulkLoop.last
    /\ sinks' = sinks \ {bulkLoop.id}
    /\ bulkLoop' = BulkLoopAt("signal", bulkLoop.id, 0, FALSE)
    /\ UNCHANGED <<alive, lastID, request, pending, slot, got, requests, answers,
                   control, wire, remoteVars>>

\* ... and signals it.
SignalFailure ==
    /\ bulkLoop.pc = "signal"
    /\ slot' = Signalled(bulkLoop.id, "err")
    /\ bulkLoop' = ReadingBulk
    /\ UNCHANGED <<alive, lastID, request, pending, sinks, got, requests, answers,
                   control, wire, remoteVars>>

-----------------------------------------------------------------------------
\* The remote: its control goroutine answers calls in order and starts a
\* goroutine per bulk request.

\* handleBrowse, handleGetPlaylist, handleJoinParty, Ping, ...: one answer, an
\* Error when there is no handler or the handler fails.
HandleCall(res) ==
    /\ alive
    /\ requests # <<>>
    /\ ~Head(requests).bulk
    /\ requests' = Tail(requests)
    /\ answers' = Append(answers, [id |-> Head(requests).id, res |-> res])
    /\ UNCHANGED <<alive, lastID, got, control, bulkLoop, wire, callerVars,
                   remoteVars>>

\* handleGetSegment, handleDownload, handleGetSwarmSegment without a handler.
HandleBulkUnavailable ==
    /\ alive
    /\ requests # <<>>
    /\ Head(requests).bulk
    /\ requests' = Tail(requests)
    /\ answers' = Append(answers, [id |-> Head(requests).id, res |-> "err"])
    /\ UNCHANGED <<alive, lastID, got, control, bulkLoop, wire, callerVars,
                   remoteVars>>

\* The transfers whose goroutine runs.
Running == {i \in Ids : transfer[i].pc \notin {"none", "done"}}

\* The goroutine of a bulk request: h.Segment, h.OpenFile or h.SwarmSegment
\* returns size frames' worth of bytes.
HandleBulk(size) ==
    /\ alive
    /\ requests # <<>>
    /\ Head(requests).bulk
    /\ requests' = Tail(requests)
    /\ transfer' = [transfer EXCEPT ![Head(requests).id] = TransferAt("read", size, 0)]
    /\ peak' = IF Cardinality(Running) < peak THEN peak ELSE Cardinality(Running) + 1
    /\ UNCHANGED <<alive, bulkOpen, lastID, got, answers, control, bulkLoop, outBuf, wire,
                   lowSig, callerVars>>

\* The transfer's goroutine goes to pc and leaves everything else alone.
TransferGoes(i, pc) ==
    /\ transfer' = [transfer EXCEPT ![i] = TransferAt(pc, transfer[i].size, transfer[i].n)]
    /\ UNCHANGED <<alive, bulkOpen, lastID, got, requests, control, bulkLoop, wire, peak,
                   callerVars>>

\* The handler fails, or a Read of sendBulkReader does.
ReadFails(i) ==
    /\ transfer[i].pc = "read"
    /\ TransferGoes(i, "fail")
    /\ UNCHANGED <<answers, outBuf, lowSig>>

\* A gate that looks at what has left the buffer.
BufferFullBehind == Len(wire) > HighWater

\* bulk.BufferedAmount() > bulkHighWater
BufferFull == Len(outBuf) > HighWater

\* Read the next chunk, or hold the one in hand, and test sendFrameFlow's loop
\* condition.
CheckBuffer(i) ==
    /\ transfer[i].pc \in {"read", "check"}
    /\ \/ ~bulkOpen /\ TransferGoes(i, "fail")
       \/ bulkOpen /\ BufferFull /\ TransferGoes(i, "wait")
       \/ bulkOpen /\ ~BufferFull /\ TransferGoes(i, "send")
    /\ UNCHANGED <<answers, outBuf, lowSig>>

\* <-s.lowSig
Woken(i) ==
    /\ transfer[i].pc = "wait"
    /\ lowSig
    /\ lowSig' = FALSE
    /\ TransferGoes(i, "check")
    /\ UNCHANGED <<answers, outBuf>>

\* The ten-second timer.
BackpressureTimeout(i) ==
    /\ transfer[i].pc = "wait"
    /\ TransferGoes(i, "fail")
    /\ UNCHANGED <<answers, outBuf, lowSig>>

\* A reader loop that takes its last chunk for EOF.
AtEOFEarly(t) == t.n + 1 >= t.size

AtEOF(t) == t.n >= t.size

\* bulk.Send: the empty last frame at EOF, a payload before.
SendFrame(i) ==
    /\ transfer[i].pc = "send"
    /\ alive
    /\ outBuf' = Append(outBuf, [id |-> i, n |-> transfer[i].n + 1, last |-> AtEOF(transfer[i])])
    /\ transfer' = [transfer EXCEPT ![i] =
                       IF AtEOF(transfer[i])
                       THEN TransferAt("done", transfer[i].size, transfer[i].n)
                       ELSE TransferAt("read", transfer[i].size, transfer[i].n + 1)]
    /\ UNCHANGED <<alive, bulkOpen, lastID, got, requests, answers, control, bulkLoop, wire,
                   lowSig, peak, callerVars>>

SendFrameFails(i) ==
    /\ transfer[i].pc = "send"
    /\ ~alive
    /\ TransferGoes(i, "fail")
    /\ UNCHANGED <<answers, outBuf, lowSig>>

\* A handler that gives a failed transfer up without telling the caller.
ReportFailureSilently(i) ==
    /\ transfer[i].pc = "fail"
    /\ TransferGoes(i, "done")
    /\ UNCHANGED <<answers, outBuf, lowSig>>

\* The Error envelope of a failed transfer: _ = s.send(errEnvelope(...)).
ReportFailure(i) ==
    /\ transfer[i].pc = "fail"
    /\ answers' = IF alive THEN Append(answers, [id |-> i, res |-> "err"]) ELSE answers
    /\ TransferGoes(i, "done")
    /\ UNCHANGED <<outBuf, lowSig>>

-----------------------------------------------------------------------------
\* The connection

\* OnDataChannel("bulk") at the remote.
BindBulk ==
    /\ alive
    /\ ~bulkOpen
    /\ bulkOpen' = TRUE
    /\ UNCHANGED <<alive, lastID, got, requests, answers, control, bulkLoop, transfer, outBuf,
                   wire, lowSig, peak, callerVars>>

\* SCTP acknowledges a frame; OnBufferedAmountLow fires when the amount falls to
\* the threshold, and puts a token into lowSig unless one is there.
Drain ==
    /\ alive
    /\ outBuf # <<>>
    /\ wire' = Append(wire, Head(outBuf))
    /\ outBuf' = Tail(outBuf)
    /\ lowSig' = (lowSig \/ Len(outBuf) = HighWater + 1)
    /\ UNCHANGED <<alive, bulkOpen, lastID, got, requests, answers, control, bulkLoop,
                   transfer, peak, callerVars>>

\* The connection is lost or closed. Nothing wakes the requests in progress.
ConnectionLost ==
    /\ alive
    /\ alive' = FALSE
    /\ UNCHANGED <<lastID, got, requests, answers, control, bulkLoop, wire, callerVars,
                   remoteVars>>

-----------------------------------------------------------------------------
Init ==
    /\ alive = TRUE
    /\ bulkOpen = FALSE
    /\ lastID = 0
    /\ request = [i \in Ids |-> NoRequest]
    /\ pending = {}
    /\ sinks = {}
    /\ slot = [i \in Ids |-> "none"]
    /\ got = [i \in Ids |-> <<>>]
    /\ requests = <<>>
    /\ answers = <<>>
    /\ control = ReadingLoop
    /\ bulkLoop = ReadingBulk
    /\ transfer = [i \in Ids |-> NoTransfer]
    /\ outBuf = <<>>
    /\ wire = <<>>
    /\ lowSig = FALSE
    /\ peak = 0

RequestStep(i) ==
    \/ SendRequest(i)
    \/ SendRequestFails(i)
    \/ TakeReply(i)
    \/ TakeDone(i)
    \/ CleanUp(i)

ControlLoop == ReadAnswer \/ PutReply \/ SignalError

BulkLoop == ReadFrame \/ WriteFrame \/ WriteFails \/ SignalFailure

RemoteControl ==
    \/ \E res \in {"ok", "err"} : HandleCall(res)
    \/ HandleBulkUnavailable
    \/ \E size \in Sizes : HandleBulk(size)

TransferStep(i) ==
    \/ ReadFails(i)
    \/ CheckBuffer(i)
    \/ Woken(i)
    \/ BackpressureTimeout(i)
    \/ SendFrame(i)
    \/ SendFrameFails(i)
    \/ ReportFailure(i)

Next ==
    \/ Call \/ FetchBulkTo
    \/ \E i \in Ids : RequestStep(i) \/ CtxDone(i)
    \/ ControlLoop
    \/ BulkLoop
    \/ RemoteControl
    \/ \E i \in Ids : TransferStep(i)
    \/ BindBulk
    \/ Drain
    \/ ConnectionLost

Spec == Init /\ [][Next]_vars

\* Runnable goroutines run, timers fire and the connection carries what it is
\* given. No context need ever end: gossipLoop measures with Background.
Fairness ==
    /\ \A i \in Ids : WF_vars(RequestStep(i)) /\ WF_vars(TransferStep(i))
    /\ WF_vars(ControlLoop)
    /\ WF_vars(BulkLoop)
    /\ WF_vars(RemoteControl)
    /\ WF_vars(Drain)

FairSpec == Spec /\ Fairness

-----------------------------------------------------------------------------
\* Type invariant: ids, channels, loops and transfers stay in the sets their Go
\* types and the protocol give them.
TypeOK ==
    /\ alive \in BOOLEAN
    /\ bulkOpen \in BOOLEAN
    /\ lastID \in 0..MaxCalls
    /\ request \in [Ids -> RequestStates]
    /\ pending \subseteq Ids
    /\ sinks \subseteq Ids
    /\ slot \in [Ids -> Results]
    /\ got \in [Ids -> Seq(Nat)]
    /\ requests \in Seq(Requests)
    /\ answers \in Seq(Answers)
    /\ control \in LoopStates
    /\ bulkLoop \in BulkLoopStates
    /\ transfer \in [Ids -> TransferStates]
    /\ outBuf \in Seq(Frames)
    /\ wire \in Seq(Frames)
    /\ lowSig \in BOOLEAN
    /\ peak \in Nat

\* A bulk request that returns without an error has the whole file, every payload
\* once and in order, whatever was interleaved on the bulk channel, failed or
\* answered twice, and nothing is written to it afterwards: the argument of the
\* "Late-frame safety" comment in bindBulk.
WholeTransfers ==
    \A i \in Ids :
        request[i].bulk /\ request[i].pc = "returned" /\ request[i].res = "ok"
            => got[i] = [k \in 1..transfer[i].size |-> k]

\* An entry of pending or bulkSinks belongs to a request in progress: a context
\* that ends while its answer is being delivered leaves nothing behind.
NoEntryLeft ==
    \A i \in pending \cup sinks : request[i].pc \in {"send", "wait", "cleanup"}

\* Flow control bounds what a slow Viewer costs the Host: the transfers that ran at
\* once add at most one frame each above the high-water mark, although each tests the buffered amount
\* and sends in two steps.
BufferBounded == Len(outBuf) <= HighWater + peak

\* Liveness: while the connection lives every request returns, with no context that
\* ends: each handler answers on every path, backpressure timeouts included.
RequestsReturn ==
    \A i \in Ids : request[i].pc = "wait" ~> request[i].pc = "returned" \/ ~alive
=============================================================================
