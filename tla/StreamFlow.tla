----------------------------- MODULE StreamFlow -----------------------------
(***************************************************************************)
(* One item direction of a stream: the goroutines that call Stream.Send    *)
(* and CloseSend on one endpoint, the goroutines that call Stream.Recv on  *)
(* the other, and the two connection readers between them (stream.go,      *)
(* stream_flow.go).  The item direction carries item and end frames, the   *)
(* opposite direction carries the credit (window) frames; both are FIFO,   *)
(* as one TCP connection is.                                               *)
(*                                                                         *)
(* A payload is its length in bytes: the credit scheme tells payloads      *)
(* apart by nothing else.  Steps are the critical sections of Stream.mu    *)
(* and the channel operations; Stream.sendMu is held exactly while         *)
(* sendPc # "idle".                                                        *)
(***************************************************************************)
EXTENDS Naturals, Sequences, Sums

CONSTANTS
  RecvBuffer,    \* cap(recvCh) of the receiving stream
  RecvBytes,     \* its recvByteLimit
  Sizes,         \* the encoded sizes an item may have
  NumReceivers,  \* goroutines that call Recv on the receiving stream
  FlowControl,   \* stream-credit-v1 was negotiated (flow # nil)
  BidiHandler,   \* the receiver is the handler of a bidirectional stream
  MaxSends       \* bound: items written in one behaviour

ASSUME StreamAssumption ==
  /\ RecvBuffer \in Nat \ {0}    \* normalizeStreamOptions
  /\ RecvBytes \in Nat \ {0}
  /\ Sizes \subseteq Nat
  /\ NumReceivers \in Nat \ {0}
  /\ FlowControl \in BOOLEAN
  /\ BidiHandler \in BOOLEAN
  /\ MaxSends \in Nat

Receivers == 1..NumReceivers

VARIABLES
  \* sending endpoint
  initialized, items, bytes,   \* streamFlow of the sender
  maxItems, maxBytes,
  changed,                     \* a token is in the channel flow.changed
  sendPc, sendSize,            \* the Send call that holds sendMu
  sendState,                   \* "open", "closing" (sendClosed), "closed"
  senderCtx, senderDone,       \* its context has ended; finish has run
  \* the connection
  wire,                        \* item and end frames in flight
  windows,                     \* stream_window frames in flight
  \* receiving endpoint
  granted,                     \* the initial window was written
  recvCh, bufferedBytes,
  returnItems, returnBytes,    \* streamFlow of the receiver
  recvErr,                     \* "none" until closeRecvLocked
  receiverCtx, receiverDone,
  silent,                      \* finish ran and no frame tells the sender
  recvPc,                      \* per goroutine in Recv
  heldItems, heldBytes,        \* credit a goroutine in Recv accounts for
  \* history
  sent, received,              \* items written, items taken from recvCh
  fault,                       \* a limit or credit error one side raised
  sawEOF                       \* some Recv returned io.EOF

creditVars == <<initialized, items, bytes, maxItems, maxBytes>>
callVars   == <<sendPc, sendSize>>
recvVars   == <<recvPc, heldItems, heldBytes>>
returnVars == <<returnItems, returnBytes>>
sendEnds   == <<senderCtx, senderDone>>
recvEnds   == <<receiverCtx, receiverDone, silent>>
sendVars   == <<creditVars, changed, callVars, sendState, sendEnds, sent>>
readVars   == <<granted, recvCh, bufferedBytes, returnVars, recvErr,
                recvEnds, recvVars, received, sawEOF>>
vars       == <<sendVars, wire, windows, readVars, fault>>

ItemFrame(size)  == [type |-> "item", items |-> 1, bytes |-> size]
EndFrame         == [type |-> "end", items |-> 0, bytes |-> 0]
WindowFrame(i, b) == [type |-> "window", items |-> i, bytes |-> b]

sendClosed == sendState # "open"
recvClosed == recvErr # "none"

\* sendError: the context is done or the send side is closed.
sendError == senderCtx \/ sendClosed

Init ==
  /\ initialized = FALSE /\ items = 0 /\ bytes = 0
  /\ maxItems = 0 /\ maxBytes = 0
  /\ changed = FALSE
  /\ sendPc = "idle" /\ sendSize = 0
  /\ sendState = "open" /\ senderCtx = FALSE /\ senderDone = FALSE
  /\ wire = <<>> /\ windows = <<>>
  /\ granted = FALSE
  /\ recvCh = <<>> /\ bufferedBytes = 0
  /\ returnItems = 0 /\ returnBytes = 0
  /\ recvErr = "none" /\ receiverCtx = FALSE /\ receiverDone = FALSE
  /\ silent = FALSE
  /\ recvPc = [r \in Receivers |-> "idle"]
  /\ heldItems = [r \in Receivers |-> 0]
  /\ heldBytes = [r \in Receivers |-> 0]
  /\ sent = 0 /\ received = 0
  /\ fault = "none" /\ sawEOF = FALSE
-----------------------------------------------------------------------------
(***************************************************************************)
(* Sending endpoint.                                                       *)
(***************************************************************************)

\* finish: done, and the context is cancelled.
FinishSender == senderDone' = TRUE /\ senderCtx' = TRUE

\* Stream.Send takes sendMu, finds no send error and encodes the item.
SendBegin ==
  /\ sendPc = "idle" /\ ~sendError /\ sent < MaxSends
  /\ \E size \in Sizes : sendSize' = size
  /\ sendPc' = "check"
  /\ UNCHANGED <<creditVars, changed, sendState, sendEnds, sent, wire,
                 windows, readVars, fault>>

\* takeCredit, top of the loop: sendError.
TakeCreditCheck ==
  /\ sendPc = "check"
  /\ sendPc' = IF sendError THEN "idle" ELSE "take"
  /\ UNCHANGED <<creditVars, changed, sendSize, sendState, sendEnds, sent,
                 wire, windows, readVars, fault>>

\* takeCredit's condition for sending now.  Mutant: the bytes are forgotten.
HasItemCredit == items > 0
HasCredit     == items > 0 /\ sendSize <= bytes

\* What it then takes.  Mutant: the bytes are not charged.
SpendItem   == items' = items - 1 /\ UNCHANGED bytes
SpendCredit == items' = items - 1 /\ bytes' = bytes - sendSize

\* takeCredit under Stream.mu: no flow control, an item that can never fit,
\* credit at hand, or nothing to do but wait.
TakeCredit ==
  /\ sendPc = "take"
  /\ \/ /\ ~FlowControl
        /\ sendPc' = "write"
        /\ UNCHANGED <<items, bytes>>
     \/ /\ FlowControl /\ initialized /\ sendSize > maxBytes
        /\ sendPc' = "idle"
        /\ UNCHANGED <<items, bytes>>
     \/ /\ FlowControl /\ ~(initialized /\ sendSize > maxBytes)
        /\ HasCredit /\ SpendCredit
        /\ sendPc' = "write"
     \/ /\ FlowControl /\ ~(initialized /\ sendSize > maxBytes)
        /\ ~HasCredit
        /\ sendPc' = "parked"
        /\ UNCHANGED <<items, bytes>>
  /\ UNCHANGED <<initialized, maxItems, maxBytes, changed, sendSize,
                 sendState, sendEnds, sent, wire, windows, readVars, fault>>

\* takeCredit's select: a token in changed, sendDone closed or ctx done.
SenderWake ==
  /\ sendPc = "parked"
  /\ \/ changed /\ changed' = FALSE
     \/ sendError /\ UNCHANGED changed
  /\ sendPc' = "check"
  /\ UNCHANGED <<creditVars, sendSize, sendState, sendEnds, sent, wire,
                 windows, readVars, fault>>

\* Send writes the item frame and releases sendMu.
SendWrite ==
  /\ sendPc = "write"
  /\ wire' = Append(wire, ItemFrame(sendSize))
  /\ sent' = sent + 1
  /\ sendPc' = "idle"
  /\ UNCHANGED <<creditVars, changed, sendSize, sendState, sendEnds,
                 windows, readVars, fault>>

\* The write of the item fails (socket, frame size, write admission): abort.
SendWriteFails ==
  /\ sendPc = "write"
  /\ FinishSender
  /\ sendPc' = "idle"
  /\ UNCHANGED <<creditVars, changed, sendSize, sendState, sent, wire,
                 windows, readVars, fault>>

\* CloseSend, first critical section: close(sendDone).
CloseSend ==
  /\ sendState = "open"
  /\ sendState' = "closing"
  /\ UNCHANGED <<creditVars, changed, callVars, sendEnds, sent, wire,
                 windows, readVars, fault>>

\* Mutant of CloseSendEnd: it does not wait for the Send that holds sendMu.
CloseSendUnlocked ==
  /\ sendState = "closing"
  /\ sendState' = "closed"
  /\ \/ ~senderCtx /\ wire' = Append(wire, EndFrame) /\ UNCHANGED sendEnds
     \/ FinishSender /\ UNCHANGED wire
  /\ UNCHANGED <<creditVars, changed, callVars, sent, windows, readVars,
                 fault>>

\* CloseSend holds sendMu: the end frame, unless the stream is over already.
\* A failed write aborts the stream.
CloseSendEnd ==
  /\ sendState = "closing" /\ sendPc = "idle"
  /\ sendState' = "closed"
  /\ \/ ~senderCtx /\ wire' = Append(wire, EndFrame) /\ UNCHANGED sendEnds
     \/ FinishSender /\ UNCHANGED wire
  /\ UNCHANGED <<creditVars, changed, callVars, sent, windows, readVars,
                 fault>>

\* The non-blocking send on changed, a channel of capacity one.  Mutant: only
\* the first item of credit is announced.
NotifyIfEmpty(taken) == changed' = (changed \/ (taken /\ items = 0))
Notify(taken)        == changed' = (changed \/ taken)

\* acceptCredit, called by the sending endpoint's connection reader.
AcceptCredit ==
  /\ windows # <<>>
  /\ windows' = Tail(windows)
  /\ LET w     == Head(windows)
         legal == IF initialized
                  THEN /\ w.items # 0
                       /\ w.items <= maxItems - items
                       /\ w.bytes <= maxBytes - bytes
                  ELSE w.items # 0 /\ w.bytes # 0
         open  == ~senderDone /\ ~sendClosed
         taken == open /\ legal
         bad   == open /\ ~legal
     IN  /\ initialized' = (initialized \/ taken)
         /\ maxItems' = IF taken /\ ~initialized THEN w.items ELSE maxItems
         /\ maxBytes' = IF taken /\ ~initialized THEN w.bytes ELSE maxBytes
         /\ items' = IF taken THEN items + w.items ELSE items
         /\ bytes' = IF taken THEN bytes + w.bytes ELSE bytes
         /\ Notify(taken)
         /\ senderDone' = (senderDone \/ bad)
         /\ senderCtx' = (senderCtx \/ bad)
         /\ fault' = IF bad THEN "protocol" ELSE fault
  /\ UNCHANGED <<callVars, sendState, sent, wire, readVars>>

\* The context the stream was opened or accepted with ends.
SenderContext ==
  /\ ~senderCtx
  /\ senderCtx' = TRUE
  /\ UNCHANGED <<creditVars, changed, callVars, sendState, senderDone, sent,
                 wire, windows, readVars, fault>>

\* finish on the sending endpoint: Cancel, watchContext, the handler's return,
\* an error or cancel frame.
SenderFinish ==
  /\ ~senderDone
  /\ FinishSender
  /\ UNCHANGED <<creditVars, changed, callVars, sendState, sent, wire,
                 windows, readVars, fault>>

\* The cases of it that must come: watchContext runs, and the error, cancel or
\* response frame of a finished receiver, or the loss of the connection that
\* finished it, reaches the sending endpoint.
SenderTold ==
  /\ (receiverDone /\ ~silent) \/ senderCtx
  /\ SenderFinish
-----------------------------------------------------------------------------
(***************************************************************************)
(* Receiving endpoint.                                                     *)
(***************************************************************************)

\* finish: done, the context is cancelled, and closeRecvLocked if the receive
\* side is still open.
FinishReceiver ==
  /\ receiverDone' = TRUE /\ receiverCtx' = TRUE
  /\ recvErr' = IF recvClosed THEN recvErr ELSE "failed"

\* receiveWindow in the start frame, or grantInitialCredit before the handler
\* is invoked: Recv is not called before.
GrantInitialCredit ==
  /\ ~granted
  /\ granted' = TRUE
  /\ windows' = IF FlowControl
                THEN Append(windows, WindowFrame(RecvBuffer, RecvBytes))
                ELSE windows
  /\ UNCHANGED <<sendVars, wire, recvCh, bufferedBytes, returnVars, recvErr,
                 recvEnds, recvVars, received, sawEOF, fault>>

\* deliverItem's two limits.  Mutant: only the channel's own.
FitsQueue(size) == Len(recvCh) < RecvBuffer
Fits(size) == size <= RecvBytes - bufferedBytes /\ Len(recvCh) < RecvBuffer

\* deliverItem, called by the receiving endpoint's connection reader.
DeliverItem ==
  /\ wire # <<>> /\ Head(wire).type = "item"
  /\ wire' = Tail(wire)
  /\ LET size == Head(wire).bytes
     IN  \/ /\ recvClosed \/ receiverDone
            /\ UNCHANGED <<recvCh, bufferedBytes, recvErr, recvEnds, fault>>
         \/ /\ ~recvClosed /\ ~receiverDone /\ Fits(size)
            /\ recvCh' = Append(recvCh, size)
            /\ bufferedBytes' = bufferedBytes + size
            /\ UNCHANGED <<recvErr, recvEnds, fault>>
         \/ /\ ~recvClosed /\ ~receiverDone /\ ~Fits(size)
            /\ FinishReceiver
            /\ fault' = "backpressure"
            /\ UNCHANGED <<recvCh, bufferedBytes, silent>>
  /\ UNCHANGED <<sendVars, windows, granted, returnVars, recvVars, received,
                 sawEOF>>

\* deliverEnd, for this direction: closeRecvLocked(io.EOF).
DeliverEnd ==
  /\ wire # <<>> /\ Head(wire).type = "end"
  /\ wire' = Tail(wire)
  /\ recvErr' = IF recvClosed THEN recvErr ELSE "eof"
  /\ UNCHANGED <<sendVars, windows, granted, recvCh, bufferedBytes,
                 returnVars, recvEnds, recvVars, received, sawEOF, fault>>

\* Recv takes an item from recvCh, in any of its three selects.
RecvTake(r) ==
  /\ granted
  /\ recvPc[r] \in {"idle", "wait", "drain"}
  /\ recvCh # <<>>
  /\ recvCh' = Tail(recvCh)
  /\ received' = received + 1
  /\ recvPc' = [recvPc EXCEPT ![r] = "taken"]
  /\ heldItems' = [heldItems EXCEPT ![r] = 1]
  /\ heldBytes' = [heldBytes EXCEPT ![r] = Head(recvCh)]
  /\ UNCHANGED <<sendVars, wire, windows, granted, bufferedBytes, returnVars,
                 recvErr, recvEnds, sawEOF, fault>>

\* Recv's first select finds recvCh empty; the call blocks in the second.
RecvWait(r) ==
  /\ granted
  /\ recvPc[r] = "idle" /\ recvCh = <<>>
  /\ recvPc' = [recvPc EXCEPT ![r] = "wait"]
  /\ UNCHANGED <<sendVars, wire, windows, granted, recvCh, bufferedBytes,
                 returnVars, recvErr, recvEnds, heldItems, heldBytes,
                 received, sawEOF, fault>>

\* The second select takes recvDone or ctx.Done, items queued or not.
RecvDrain(r) ==
  /\ recvPc[r] = "wait" /\ (recvClosed \/ receiverCtx)
  /\ recvPc' = [recvPc EXCEPT ![r] = "drain"]
  /\ UNCHANGED <<sendVars, wire, windows, granted, recvCh, bufferedBytes,
                 returnVars, recvErr, recvEnds, heldItems, heldBytes,
                 received, sawEOF, fault>>

\* Mutant of RecvEmpty: the end is reported without the third select.
RecvSkipDrain(r) ==
  /\ recvPc[r] = "drain"
  /\ recvPc' = [recvPc EXCEPT ![r] = "report"]
  /\ UNCHANGED <<sendVars, wire, windows, granted, recvCh, bufferedBytes,
                 returnVars, recvErr, recvEnds, heldItems, heldBytes,
                 received, sawEOF, fault>>

\* The third select finds recvCh empty.
RecvEmpty(r) ==
  /\ recvPc[r] = "drain" /\ recvCh = <<>>
  /\ recvPc' = [recvPc EXCEPT ![r] = "report"]
  /\ UNCHANGED <<sendVars, wire, windows, granted, recvCh, bufferedBytes,
                 returnVars, recvErr, recvEnds, heldItems, heldBytes,
                 received, sawEOF, fault>>

\* Under Stream.mu, Recv returns recvErr, or the cause of the context.
RecvReturn(r) ==
  /\ recvPc[r] = "report"
  /\ recvPc' = [recvPc EXCEPT ![r] = "idle"]
  /\ sawEOF' = (sawEOF \/ recvErr = "eof")
  /\ UNCHANGED <<sendVars, wire, windows, granted, recvCh, bufferedBytes,
                 returnVars, recvErr, recvEnds, heldItems, heldBytes,
                 received, fault>>

\* receivePayload: the bytes leave the buffer count, then the item is decoded.
ReceivePayload(r) ==
  /\ recvPc[r] = "taken"
  /\ bufferedBytes' = bufferedBytes - heldBytes[r]
  /\ recvPc' = [recvPc EXCEPT ![r] = "decode"]
  /\ UNCHANGED <<sendVars, wire, windows, granted, recvCh, returnVars,
                 recvErr, recvEnds, heldItems, heldBytes, received,
                 sawEOF, fault>>

\* Mutant of HoldCredit: the batch is held back with nothing queued.
HoldHalf(i, b) ==
  /\ i < (RecvBuffer + 1) \div 2
  /\ b < (RecvBytes + 1) \div 2

\* returnCredit holds the batch back: less than half of either window and
\* more items queued.
HoldCredit(i, b) ==
  /\ i < (RecvBuffer + 1) \div 2
  /\ b < (RecvBytes + 1) \div 2
  /\ Len(recvCh) > 0

\* returnCredit under Stream.mu.
ReturnCredit(r) ==
  /\ recvPc[r] = "decode"
  /\ LET i == returnItems + 1
         b == returnBytes + heldBytes[r]
     IN  \/ /\ ~FlowControl \/ recvClosed \/ receiverDone
            /\ recvPc' = [recvPc EXCEPT ![r] = "idle"]
            /\ heldItems' = [heldItems EXCEPT ![r] = 0]
            /\ heldBytes' = [heldBytes EXCEPT ![r] = 0]
            /\ UNCHANGED returnVars
         \/ /\ FlowControl /\ ~recvClosed /\ ~receiverDone /\ HoldCredit(i, b)
            /\ recvPc' = [recvPc EXCEPT ![r] = "idle"]
            /\ heldItems' = [heldItems EXCEPT ![r] = 0]
            /\ heldBytes' = [heldBytes EXCEPT ![r] = 0]
            /\ returnItems' = i /\ returnBytes' = b
         \/ /\ FlowControl /\ ~recvClosed /\ ~receiverDone /\ ~HoldCredit(i, b)
            /\ recvPc' = [recvPc EXCEPT ![r] = "grant"]
            /\ heldItems' = [heldItems EXCEPT ![r] = i]
            /\ heldBytes' = [heldBytes EXCEPT ![r] = b]
            /\ returnItems' = 0 /\ returnBytes' = 0
  /\ UNCHANGED <<sendVars, wire, windows, granted, recvCh, bufferedBytes,
                 recvErr, recvEnds, received, sawEOF, fault>>

\* returnCredit's write, after Stream.mu; a failed write aborts the stream.
WriteWindow(r) ==
  /\ recvPc[r] = "grant"
  /\ \/ /\ windows' = Append(windows, WindowFrame(heldItems[r], heldBytes[r]))
        /\ UNCHANGED <<recvErr, recvEnds>>
     \/ FinishReceiver /\ UNCHANGED <<windows, silent>>
  /\ recvPc' = [recvPc EXCEPT ![r] = "idle"]
  /\ heldItems' = [heldItems EXCEPT ![r] = 0]
  /\ heldBytes' = [heldBytes EXCEPT ![r] = 0]
  /\ UNCHANGED <<sendVars, wire, granted, recvCh, bufferedBytes, returnVars,
                 received, sawEOF, fault>>

\* The context the stream was opened or accepted with ends.
ReceiverContext ==
  /\ ~receiverCtx
  /\ receiverCtx' = TRUE
  /\ UNCHANGED <<sendVars, wire, windows, granted, recvCh, bufferedBytes,
                 returnVars, recvErr, receiverDone, silent, recvVars, received,
                 sawEOF, fault>>

\* finish on the receiving endpoint for any other reason.  An error, cancel or
\* response frame goes with it, except when the handler of a bidirectional
\* stream returns nil: CloseSend only ends the opposite direction.
ReceiverFinish ==
  /\ ~receiverDone
  /\ FinishReceiver
  /\ \/ UNCHANGED silent
     \/ BidiHandler /\ granted /\ silent' = TRUE
  /\ UNCHANGED <<sendVars, wire, windows, granted, recvCh, bufferedBytes,
                 returnVars, recvVars, received, sawEOF, fault>>
-----------------------------------------------------------------------------
Sender ==
  \/ SendBegin \/ TakeCreditCheck \/ TakeCredit \/ SenderWake
  \/ SendWrite \/ SendWriteFails
  \/ CloseSend \/ CloseSendEnd
  \/ AcceptCredit
  \/ SenderContext \/ SenderFinish

Receiver ==
  \/ GrantInitialCredit
  \/ DeliverItem \/ DeliverEnd
  \/ \E r \in Receivers :
        \/ RecvTake(r) \/ RecvWait(r) \/ RecvDrain(r) \/ RecvEmpty(r)
        \/ RecvReturn(r) \/ ReceivePayload(r) \/ ReturnCredit(r) \/ WriteWindow(r)
  \/ ReceiverContext \/ ReceiverFinish

Next == Sender \/ Receiver

Spec == Init /\ [][Next]_vars

(***************************************************************************)
(* Fairness.  Goroutines that can run do run, and each connection reader   *)
(* keeps reading (it never blocks on a stream).  That an application calls *)
(* Recv again and again is its own duty (docs/streaming.md: "keep          *)
(* receiving while sending"); a call it has made does run.  Nothing makes  *)
(* an application call Send, CloseSend or Cancel.                          *)
(***************************************************************************)
Fairness ==
  /\ WF_vars(TakeCreditCheck) /\ WF_vars(TakeCredit) /\ WF_vars(SenderWake)
  /\ WF_vars(SendWrite \/ SendWriteFails)
  /\ WF_vars(CloseSendEnd)
  /\ WF_vars(AcceptCredit) /\ WF_vars(SenderTold)
  /\ WF_vars(GrantInitialCredit)
  /\ WF_vars(DeliverItem \/ DeliverEnd)
  /\ \A r \in Receivers :
        WF_vars(RecvTake(r) \/ RecvWait(r) \/ RecvDrain(r) \/ RecvEmpty(r)
                \/ RecvReturn(r) \/ ReceivePayload(r) \/ ReturnCredit(r)
                \/ WriteWindow(r))
  /\ WF_vars(receiverCtx /\ ReceiverFinish)

FairSpec == Spec /\ Fairness
-----------------------------------------------------------------------------
(***************************************************************************)
(* Properties.                                                             *)
(***************************************************************************)

ItemFrames   == [type : {"item"}, items : {1}, bytes : Nat]
EndFrames    == [type : {"end"}, items : {0}, bytes : {0}]
WindowFrames == [type : {"window"}, items : Nat \ {0}, bytes : Nat]

\* Type correctness of the two Stream values and of the frames in flight.
TypeOK ==
  /\ initialized \in BOOLEAN /\ items \in Nat /\ bytes \in Nat
  /\ maxItems \in Nat /\ maxBytes \in Nat
  /\ changed \in BOOLEAN
  /\ sendPc \in {"idle", "check", "take", "parked", "write"}
  /\ sendSize \in Nat
  /\ sendState \in {"open", "closing", "closed"}
  /\ senderCtx \in BOOLEAN /\ senderDone \in BOOLEAN
  /\ wire \in Seq(ItemFrames \cup EndFrames)
  /\ windows \in Seq(WindowFrames)
  /\ granted \in BOOLEAN
  /\ recvCh \in Seq(Nat) /\ bufferedBytes \in Nat
  /\ returnItems \in Nat /\ returnBytes \in Nat
  /\ recvErr \in {"none", "eof", "failed"}
  /\ receiverCtx \in BOOLEAN /\ receiverDone \in BOOLEAN /\ silent \in BOOLEAN
  /\ recvPc \in [Receivers -> {"idle", "wait", "drain", "report",
                           "taken", "decode", "grant"}]
  /\ heldItems \in [Receivers -> Nat] /\ heldBytes \in [Receivers -> Nat]
  /\ sent \in Nat /\ received \in Nat
  /\ fault \in {"none", "backpressure", "protocol"}
  /\ sawEOF \in BOOLEAN

\* An item whose credit was taken and that is not yet on the wire.
WritingItems == IF sendPc = "write" THEN 1 ELSE 0
WritingBytes == IF sendPc = "write" THEN sendSize ELSE 0

Queued == Len(recvCh)

\* Where the item credit of one direction can be: with the sender, spent on an
\* item about to be written, in flight, queued, or with a Recv call, batched
\* for return, or in flight back.
OutstandingItems ==
  items + WritingItems + ItemsOf(wire) + Queued
    + Total(heldItems) + returnItems + ItemsOf(windows)

\* The same for byte credit.
OutstandingBytes ==
  bytes + WritingBytes + BytesOf(wire) + Total(recvCh)
    + Total(heldBytes) + returnBytes + BytesOf(windows)

Flowing == ~senderDone /\ ~sendClosed /\ ~receiverDone /\ ~recvClosed

\* Credit is conserved (takeCredit, deliverItem, returnCredit, acceptCredit):
\* while neither side has ended, what the sender may still send plus what is
\* in flight, queued or on its way back is exactly the window the receiver
\* granted; afterwards it never exceeds it.
CreditConserved ==
  FlowControl =>
    /\ OutstandingItems <= RecvBuffer
    /\ OutstandingBytes <= RecvBytes
    /\ granted /\ Flowing => /\ OutstandingItems = RecvBuffer
                             /\ OutstandingBytes = RecvBytes

\* With negotiated credit no conforming sender overflows the receive queue
\* (deliverItem's ErrBackpressure) and no conforming receiver returns more
\* credit than was spent (acceptCredit's ErrProtocol).
NoFlowFault == FlowControl => fault = "none"

\* The receive queue respects both limits, flow control or not, whatever
\* Recv calls are in progress (deliverItem checks under Stream.mu, Recv takes
\* from recvCh without it).
BufferBounded ==
  /\ Len(recvCh) <= RecvBuffer
  /\ bufferedBytes <= RecvBytes
  /\ Total(recvCh) <= bufferedBytes

\* No lost wakeup: a Send parked in takeCredit that could proceed has a token
\* in changed to wake it (acceptCredit's non-blocking send on a channel of
\* capacity one).
NoLostWakeup ==
  sendPc = "parked" /\ items > 0 /\ sendSize <= bytes => changed

\* returnCredit never strands credit: a batch is only held back while items
\* are queued or some Recv call will come to returnCredit again.
NoStrandedCredit ==
  returnItems > 0 =>
    \/ Len(recvCh) > 0
    \/ \E r \in Receivers : recvPc[r] \in {"taken", "decode"}
    \/ recvClosed

\* Recv returns io.EOF only after every item written before the end frame was
\* taken (sendMu orders the end frame; Recv drains before it reports), as long
\* as the receiver's context has not ended.
EOFMeansComplete == sawEOF /\ ~receiverCtx => received = sent

Pipe == INSTANCE StreamPipe WITH
          Window <- RecvBuffer, Bounded <- FlowControl,
          ended <- (sendState = "closed"), cancelled <- receiverCtx

\* Send, Recv and CloseSend together implement a bounded pipe: at most a
\* window of items is ever between the two applications, nothing is written
\* after CloseSend returns, and EOF is reported on a drained pipe only.
ImplementsPipe == Pipe!Spec

\* A Send that entered takeCredit returns: credit comes back, or the end of
\* either side wakes it, as long as the receiver keeps calling Recv.
SendReturns == (sendPc # "idle") ~> (sendPc = "idle")

\* What docs/streaming.md says: "Cancellation, deadlines, remote termination,
\* and connection loss wake a sender waiting for credit."
RemoteEndWakesSender ==
  (sendPc = "parked" /\ receiverDone) ~> (sendPc # "parked")

\* Every item written is received, unless an end intervenes.
ItemsReceived ==
  \A n \in 1..MaxSends : (sent = n) ~> (received >= n \/ receiverDone)
-----------------------------------------------------------------------------
(***************************************************************************)
(* The inductive invariant: TypeOK and the conjuncts below.                *)
(***************************************************************************)

\* finish runs closeRecvLocked and cancels the context.
EndsInv ==
  /\ senderDone => senderCtx
  /\ receiverDone => recvClosed /\ receiverCtx

\* The credit a Recv call holds follows its position in the code.
HeldInv ==
  /\ \A r \in Receivers :
        /\ recvPc[r] \in {"idle", "wait", "drain", "report"} =>
             heldItems[r] = 0 /\ heldBytes[r] = 0
        /\ ~granted => recvPc[r] = "idle"
        /\ recvPc[r] \in {"taken", "decode"} => heldItems[r] = 1
        /\ recvPc[r] = "grant" => heldItems[r] > 0 /\ FlowControl
  /\ ~FlowControl => returnItems = 0 /\ windows = <<>>

\* The bytes of the items that Recv took and receivePayload has not released.
TakenBytes == [r \in Receivers |-> IF recvPc[r] = "taken" THEN heldBytes[r] ELSE 0]

\* bufferedBytes counts the queue and the items just taken from it.
BufferInv ==
  /\ bufferedBytes = Total(recvCh) + Total(TakenBytes)
  /\ bufferedBytes <= RecvBytes
  /\ Len(recvCh) <= RecvBuffer

\* CreditConserved, and before the grant there is no credit anywhere.
CreditInv ==
  /\ CreditConserved
  /\ FlowControl /\ ~granted =>
       OutstandingItems = 0 /\ OutstandingBytes = 0 /\ windows = <<>>

\* The sender learns the receiver's limits from the first window.
WindowInv ==
  FlowControl =>
    /\ initialized => maxItems = RecvBuffer /\ maxBytes = RecvBytes
    /\ granted /\ ~initialized /\ ~senderDone /\ ~sendClosed =>
         windows # <<>> /\ Head(windows) = WindowFrame(RecvBuffer, RecvBytes)

\* The end frame is the last frame; CloseSend writes it when no Send runs.
EndInv ==
  /\ sendState = "closed" => sendPc = "idle"
  /\ \A i \in 1..Len(wire) :
        wire[i].type = "end" => i = Len(wire) /\ sendState = "closed"

\* No item is lost while the receive side is open or was ended by EOF.
CountInv ==
  /\ received + Queued + ItemsOf(wire) <= sent
  /\ ~recvClosed => sent = received + Queued + ItemsOf(wire)
  /\ recvErr = "eof" =>
       sendState = "closed" /\ wire = <<>> /\ sent = received + Queued

\* A Recv call that reports saw an empty queue, which EOF keeps empty.
EofInv ==
  /\ \A r \in Receivers :
        /\ recvPc[r] \in {"drain", "report"} => recvClosed \/ receiverCtx
        /\ recvPc[r] = "report" => recvCh = <<>> \/ receiverCtx
  /\ sawEOF => recvErr = "eof" /\ (recvCh = <<>> \/ receiverCtx)

\* The item credit, with every item written and not yet taken in the place of
\* those in flight or queued: items dropped after the end count as well.
PipeItems ==
  items + WritingItems + (sent - received) + Total(heldItems)
    + returnItems + ItemsOf(windows)

\* The window covers them too.
PipeInv ==
  FlowControl => (~granted => sent = 0) /\ PipeItems <= RecvBuffer

\* The strengthening that the actions of both endpoints preserve.
IInv ==
  /\ TypeOK /\ EndsInv /\ HeldInv /\ BufferInv /\ CreditInv /\ WindowInv
  /\ EndInv /\ CountInv /\ EofInv /\ PipeInv
  /\ NoFlowFault /\ NoLostWakeup /\ NoStrandedCredit
=============================================================================
