---------------------------- MODULE SessionProofs ----------------------------
(***************************************************************************)
(* Proofs about Session, for any configurations, connections and           *)
(* operations: what the two sides of a handshake agree on, that the        *)
(* streams of a connection keep to it, and what becomes of an operation:   *)
(* its caller is woken, keeps its response and got it from a handler; its  *)
(* handler runs once, and ends when the connection is lost or the caller   *)
(* is gone.                                                                *)
(***************************************************************************)
EXTENDS Session, CallerProofs, DispatchProofs

\* What readers and handlers are at belongs to an operation that has written.
HandlerBegun ==
  /\ \A o \in Ops : hpc[o] # "none" => Written(o)
  /\ \A k \in Conns : reader[k] \in Holding => FrameOK(k, rframe[k])

\* Credit, from the connection to the streams.  A connection does not come
\* back, so a stream that was configured for one that is still current was
\* configured right.
CreditInv ==
  /\ \A k \in Conns : reader[k] # "none" => closing[k] # "free"
  /\ conn # Nil => reader[conn] # "none" /\ (connFlowControl <=> conn \in sflow)
  /\ \A k \in Conns : reader[k] \in {"add", "track"} /\ conn = k =>
       (rframe[k].op \in hflow <=> k \in sflow)
  /\ \A o \in Ops : o \in hflow => ConnOf[o] \in sflow
  /\ \A o \in Ops : Running(o) => closing[ConnOf[o]] # "free"

\* The frames to the accepting side.
AnswersInv ==
  /\ toServer \in [Conns -> Seq(AnswerSet)]
  /\ \A k \in Conns : \A i \in 1..Len(toServer[k]) : AnswerOK(k, toServer[k][i])

HandlerInv == HandlerTypes /\ HandlerBegun /\ CreditInv /\ FlowAgrees

-----------------------------------------------------------------------------
(***************************************************************************)
(* HandlerInv: one lemma per kind of step.                                 *)
(***************************************************************************)

\* A handler that runs has been called for.
LEMMA RunningBegun ==
  ASSUME HandlerBegun, NEW o \in Ops, Running(o)
  PROVE  Written(o) /\ cpc[o] # "idle"
  BY ZenonT(30) DEF HandlerBegun, Running, Written, Early

\* The steps of the accepting side and of the handshake.
LEMMA HandlerStays ==
  ASSUME HandlerInv, Onward,
         UNCHANGED <<reader, rframe, hpc, hflow, conn, connFlowControl>>
  PROVE  HandlerInv'
<1> USE DEF HandlerInv
<1>1. HandlerTypes'
  BY ZenonT(30) DEF HandlerTypes
<1>2. HandlerBegun'
  BY ZenonT(30), SameFrames DEF HandlerBegun, Onward, Kept
<1>3. CreditInv'
  BY ZenonT(30), LinkAssumption DEF CreditInv, HandlerTypes, Onward, Running
<1>4. FlowAgrees'
  <2>1. \A o \in Ops : Running(o) => cpc[o] # "idle" /\ closing[ConnOf[o]] # "free"
    BY ZenonT(30), RunningBegun DEF CreditInv
  <2>2. QED
    BY ZenonT(30), <2>1, LinkAssumption DEF FlowAgrees, Onward, Kept, Running
<1>5. QED
  BY ZenonT(30), <1>1, <1>2, <1>3, <1>4

\* A step of the dialing side that neither starts a handler nor looks at a new
\* frame: readers and handlers move on, and the connection may be given up.
Calm ==
  /\ conn' \in {conn, Nil} /\ (conn' # Nil => connFlowControl' = connFlowControl)
  /\ toClient' = toClient /\ hflow' = hflow
  /\ hpc' \in [Ops -> HandlerPcs]
  /\ \A o \in Ops : (Running(o)' => Running(o)) /\ (hpc'[o] # "none" => hpc[o] # "none")
  /\ reader' \in [Conns -> ReaderPcs] /\ rframe' \in [Conns -> FrameSet \cup {Nil}]
  /\ \A k \in Conns :
       /\ reader'[k] = "none" <=> reader[k] = "none"
       /\ reader'[k] \in Holding =>
            /\ reader[k] \in Holding /\ rframe'[k] = rframe[k]
            /\ reader'[k] \in {"add", "track"} => reader[k] \in {"add", "track"}

\* Calm steps start nothing, so nothing new has to agree.
LEMMA HandlerCalm ==
  ASSUME HandlerInv, Calm, UNCHANGED <<closing, sflow, cpc, kind>>
  PROVE  HandlerInv'
<1> USE DEF HandlerInv, Calm
<1>1. HandlerTypes'
  BY ZenonT(30) DEF HandlerTypes
<1>2. HandlerBegun'
  BY ZenonT(30), SameFrames DEF HandlerBegun, Kept, Written
<1>3. CreditInv'
  <2>1. /\ \A k \in Conns : reader'[k] # "none" => closing'[k] # "free"
        /\ conn' # Nil => reader'[conn'] # "none" /\ (connFlowControl' <=> conn' \in sflow')
    BY DEF CreditInv, HandlerTypes
  <2>2. \A k \in Conns : reader'[k] \in {"add", "track"} /\ conn' = k =>
          (rframe'[k].op \in hflow' <=> k \in sflow')
    BY ZenonT(30), LinkAssumption DEF CreditInv, Holding
  <2>3. QED
    BY ZenonT(30), <2>1, <2>2 DEF CreditInv
<1>4. FlowAgrees'
  BY ZenonT(30) DEF FlowAgrees
<1>5. QED
  BY ZenonT(30), <1>1, <1>2, <1>3, <1>4

\* setConn: what the client has agreed on is what the Conn was made with.
LEMMA HandlerSetConn ==
  ASSUME HandshakeInv, CallerInv, HandlerInv, setConn
  PROVE  HandlerInv'
<1>1. sstep = "done" /\ cgot = sgot
  BY ZenonT(30) DEF setConn, HandshakeInv, AtNone, AtHello, AtAuth, AtAccept, AtDone,
     AtFailed, Served
<1>2. /\ \/ /\ conn' = dialing /\ connFlowControl' = cgot.credit
            /\ reader' = [reader EXCEPT ![dialing] = "read"]
         \/ UNCHANGED <<conn, connFlowControl, reader>>
      /\ UNCHANGED <<closing, sflow, cpc, kind, rframe, hpc, hflow>>
  BY ZenonT(30) DEF setConn, ReaderGoto, callerVars
<1>3. dialing \in Conns /\ closing[dialing] # "free" /\ (dialing \in sflow <=> sgot.credit)
  BY ZenonT(30), <1>1 DEF CallerInv, DialInv
<1> USE DEF HandlerInv
<1>4. HandlerTypes'
  BY ZenonT(30), <1>2, <1>3 DEF HandlerTypes, ReaderPcs
<1>5. HandlerBegun'
  BY ZenonT(30), <1>2, <1>3, SameFrames DEF HandlerBegun, HandlerTypes, Holding, Kept,
     Written
<1>6. CreditInv'
  BY <1>1, <1>2, <1>3 DEF CreditInv, HandlerTypes, Running
<1>7. FlowAgrees'
  BY ZenonT(30), <1>2 DEF FlowAgrees, Running
<1>8. QED
  BY ZenonT(30), <1>4, <1>5, <1>6, <1>7

\* What the reader leaves alone when it takes a frame or starts a handler.
quietVars == <<closing, sflow, cpc, kind, conn, connFlowControl>>

\* readLoop takes a frame.
LEMMA HandlerReads ==
  ASSUME HandlerInv, NEW k \in Conns, ClientReads(k), FrameOK(k, Head(toClient[k])),
         UNCHANGED quietVars
  PROVE  HandlerInv'
<1> DEFINE f == Head(toClient[k])
<1>1. /\ reader' = [reader EXCEPT ![k] = "handle"] /\ reader[k] = "read"
      /\ rframe' = [rframe EXCEPT ![k] = f]
      /\ UNCHANGED <<hpc, hflow>>
  BY ZenonT(30) DEF ClientReads, ReaderGoto
<1>2. FrameOK(k, f) /\ f \in FrameSet
  BY ZenonT(30) DEF FrameOK
<1> HIDE DEF f
<1> USE DEF HandlerInv, quietVars
<1>3. HandlerTypes'
  BY ZenonT(30), <1>1, <1>2 DEF HandlerTypes, ReaderPcs
<1>4. HandlerBegun'
  BY ZenonT(30), <1>1, <1>2, SameFrames DEF HandlerBegun, HandlerTypes, Kept, Written
<1>5. CreditInv'
  BY ZenonT(30), <1>1 DEF CreditInv, HandlerTypes, Running
<1>6. FlowAgrees'
  BY ZenonT(30), <1>1 DEF FlowAgrees, Running
<1>7. QED
  BY ZenonT(30), <1>3, <1>4, <1>5, <1>6

\* A stream is configured for the current connection, or for none.
LEMMA HandlerConfigures ==
  ASSUME HandlerInv, NEW k \in Conns, NEW stream \in Stream, configure(k, stream),
         UNCHANGED quietVars
  PROVE  HandlerInv'
<1> DEFINE o == rframe[k].op
<1>1. /\ reader[k] = "handle" /\ reader' = [reader EXCEPT ![k] = "add"]
      /\ hflow' = IF conn = k /\ connFlowControl THEN hflow \cup {o} ELSE hflow
      /\ UNCHANGED <<rframe, hpc>>
  BY ZenonT(30) DEF configure, ReaderGoto, wires
<1> USE DEF HandlerInv, quietVars
<1>2. FrameOK(k, rframe[k])
  BY ZenonT(30), <1>1 DEF HandlerBegun, Holding
<1>3. o \in Ops /\ ConnOf[o] = k
  BY ZenonT(30), <1>2 DEF FrameOK, FrameSet
<1>4. HandlerTypes'
  BY ZenonT(30), <1>1 DEF HandlerTypes, ReaderPcs
<1>5. HandlerBegun'
  BY ZenonT(30), <1>1, <1>2, SameFrames DEF HandlerBegun, HandlerTypes, Kept, Written
<1>6. CreditInv'
  BY ZenonT(30), <1>1, <1>3, LinkAssumption DEF CreditInv, HandlerTypes, Running
<1>7. FlowAgrees'
  BY <1>1, <1>3, LinkAssumption DEF CreditInv, FlowAgrees, Running
<1>8. QED
  BY ZenonT(30), <1>4, <1>5, <1>6, <1>7

\* A handler starts only on the connection its frame came from.
LEMMA HandlerStarts ==
  ASSUME HandlerInv, NEW k \in Conns, startRequest(k) \/ startNotify(k) \/ trackStream(k),
         UNCHANGED quietVars
  PROVE  HandlerInv'
<1> DEFINE o == rframe[k].op
<1>1. /\ reader[k] \in {"handle", "track"} /\ reader' = [reader EXCEPT ![k] = "read"]
      /\ rframe' = [rframe EXCEPT ![k] = Nil] /\ hflow' = hflow
      /\ hpc' = hpc \/ (conn = k /\ hpc' = [hpc EXCEPT ![o] = "run"])
      /\ reader[k] = "handle" => rframe[k].type \in {"request", "notify"}
  BY ZenonT(30) DEF startRequest, startNotify, trackStream, trackRequest, ReaderGoto, wires
<1> USE DEF HandlerInv, quietVars
<1>2. FrameOK(k, rframe[k])
  BY ZenonT(30), <1>1 DEF HandlerBegun, Holding
<1>3. /\ o \in Ops /\ ConnOf[o] = k /\ Written(o)
      /\ reader[k] = "handle" => kind[o] \notin Stream
  BY ZenonT(30), <1>1, <1>2 DEF FrameOK, FrameSet, Fits
<1> HIDE DEF o
<1>4. HandlerTypes'
  BY ZenonT(30), <1>1, <1>3 DEF HandlerTypes, ReaderPcs, HandlerPcs
<1>5. HandlerBegun'
  <2>1. \A p \in Ops : Written(p)' <=> Written(p)
    BY ZenonT(30) DEF Written
  <2>2. \A p \in Ops : hpc'[p] # "none" => p = o \/ hpc[p] # "none"
    BY ZenonT(30), <1>1, <1>3 DEF HandlerTypes
  <2>3. \A j \in Conns : reader'[j] \in Holding => reader[j] \in Holding /\ rframe'[j] = rframe[j]
    BY ZenonT(30), <1>1 DEF HandlerTypes, Holding
  <2>4. Kept
    BY ZenonT(30), <2>1 DEF Kept
  <2>5. QED
    BY ZenonT(30), <1>3, <2>1, <2>2, <2>3, <2>4, SameFrames DEF HandlerBegun
<1>6. CreditInv'
  BY ZenonT(30), <1>1, <1>3 DEF CreditInv, HandlerTypes, Running
<1>7. FlowAgrees'
  BY <1>1, <1>3 DEF CreditInv, HandlerTypes, FlowAgrees, Running, o
<1>8. QED
  BY ZenonT(30), <1>4, <1>5, <1>6, <1>7

\* The steps of this kind.
CalmStep ==
  \/ \E k \in Conns : ReaderEnds(k) \/ ClientAddStream(k) \/ deliverStreamFrame(k)
                        \/ cancel(k)
  \/ \E o \in Ops : \/ HandlerReturns(o) \/ GrantFails(o) \/ HandlerReplies(o)
                    \/ HandlerCloseSend(o) \/ HandlerFinish(o) \/ untrackRequest(o)
                    \/ watchContext(o) \/ HandlerOut(o)
  \/ LossStreams \/ LossRequests \/ PingTimeout
  \/ Close \/ CloseConn \/ ClientCloseStreams \/ CloseRequests

\* One case per action.
LEMMA CalmFacts ==
  ASSUME HandlerTypes, CalmStep
  PROVE  Calm
<1> USE LinkAssumption DEF HandlerTypes, Calm, Holding, Running, wires, ReaderPcs,
   HandlerPcs
<1>1. ASSUME NEW k \in Conns, ReaderEnds(k) PROVE Calm
  BY ZenonT(30), <1>1 DEF ReaderEnds, ReaderGoto
<1>2. ASSUME NEW k \in Conns, ClientAddStream(k) PROVE Calm
  <2>1. /\ reader[k] = "add"
        /\ \/ reader' = [reader EXCEPT ![k] = "track"] /\ rframe' = rframe
           \/ reader' = [reader EXCEPT ![k] = "read"] /\ rframe' = [rframe EXCEPT ![k] = Nil]
    BY ZenonT(30), <1>2 DEF ClientAddStream, ReaderGoto
  <2>2. UNCHANGED <<toClient, conn, connFlowControl, hpc, hflow>>
    BY ZenonT(30), <1>2 DEF ClientAddStream, SendToServer
  <2>3. QED
    BY ZenonT(30), <2>1, <2>2
<1>3. ASSUME NEW k \in Conns, deliverStreamFrame(k) PROVE Calm
  <2>1. /\ reader[k] = "handle"
        /\ \/ reader' = [reader EXCEPT ![k] = "cancel"] /\ rframe' = rframe
           \/ reader' = [reader EXCEPT ![k] = "read"] /\ rframe' = [rframe EXCEPT ![k] = Nil]
    BY ZenonT(30), <1>3 DEF deliverStreamFrame, ReaderGoto
  <2>2. UNCHANGED <<toClient, conn, connFlowControl, hpc, hflow>>
    BY ZenonT(30), <1>3 DEF deliverStreamFrame
  <2>3. QED
    BY ZenonT(30), <2>1, <2>2
<1>4. ASSUME NEW k \in Conns, cancel(k) PROVE Calm
  BY ZenonT(30), <1>4 DEF cancel, ReaderGoto
<1>5. ASSUME NEW o \in Ops, HandlerReturns(o) PROVE Calm
  BY ZenonT(30), <1>5 DEF HandlerReturns, HandlerGoto
<1>6. ASSUME NEW o \in Ops, GrantFails(o) PROVE Calm
  BY ZenonT(30), <1>6 DEF GrantFails, HandlerGoto, Lose
<1>7. ASSUME NEW o \in Ops, HandlerReplies(o) PROVE Calm
  BY <1>7 DEF HandlerReplies, HandlerGoto, HandlerWrite, Lose, SendToServer
<1>8. ASSUME NEW o \in Ops, HandlerCloseSend(o) PROVE Calm
  BY ZenonT(30), <1>8 DEF HandlerCloseSend, HandlerGoto, Lose, SendToServer
<1>9. ASSUME NEW o \in Ops, HandlerFinish(o) PROVE Calm
  BY ZenonT(30), <1>9 DEF HandlerFinish, HandlerGoto
<1>10. ASSUME NEW o \in Ops, untrackRequest(o) PROVE Calm
  BY ZenonT(30), <1>10 DEF untrackRequest, HandlerGoto
<1>11. ASSUME NEW o \in Ops, watchContext(o) PROVE Calm
  BY ZenonT(30), <1>11 DEF watchContext
<1>12. ASSUME NEW o \in Ops, HandlerOut(o) PROVE Calm
  BY ZenonT(30), <1>12 DEF HandlerOut, HandlerWrite, Lose, SendToServer
<1>13. CASE LossStreams
  BY ZenonT(30), <1>13 DEF LossStreams
<1>14. CASE LossRequests
  BY ZenonT(30), <1>14 DEF LossRequests
<1>15. CASE PingTimeout
  BY ZenonT(30), <1>15 DEF PingTimeout, Lose
<1>16. CASE Close
  BY ZenonT(30), <1>16 DEF Close
<1>17. CASE CloseConn
  BY ZenonT(30), <1>17 DEF CloseConn
<1>18. CASE ClientCloseStreams
  BY ZenonT(30), <1>18 DEF ClientCloseStreams
<1>19. CASE CloseRequests
  BY ZenonT(30), <1>19 DEF CloseRequests
<1> HIDE DEF HandlerTypes, Calm, Holding, Running, wires, ReaderPcs, HandlerPcs
<1>20. QED
  BY ZenonT(30), <1>1, <1>2, <1>3, <1>4, <1>5, <1>6, <1>7, <1>8, <1>9, <1>10, <1>11,
     <1>12, <1>13, <1>14, <1>15, <1>16, <1>17, <1>18, <1>19 DEF CalmStep
-----------------------------------------------------------------------------
(***************************************************************************)
(* When a caller is gone: it was answered, or has something to write, or   *)
(* nothing was ever written.                                               *)
(***************************************************************************)

\* closeWithError has not begun.
Open(k) == closing[k] \in {"free", "open"}

Left(o) ==
  \/ kind[o] \in Stream /\ Done(o)
  \/ kind[o] \in Unary /\ cpc[o] \in {"land", "publish", "over"}

Received(o) ==
  \/ resp[o] # "empty" \/ o \in crecv
  \/ sreader[ConnOf[o]] # Nil /\ sreader[ConnOf[o]].op = o
  \/ Has(toServer[ConnOf[o]], o, AnswerTypes)

\* An operation begins on a connection that was accepted.
FreeInv == \A o \in Ops : closing[ConnOf[o]] = "free" => cpc[o] = "idle"

\* A step of the callers, for one operation.
GoesWhy(o) ==
  \/ Left(o) \/ Received(o) \/ out'[o] # "none"
  \/ ~Written(o) /\ Written(o)' /\ toClient' = toClient

Leaves(o) ==
  Open(ConnOf[o])' =>
    /\ Open(ConnOf[o])
    /\ Received(o)' => Received(o)
    /\ Left(o)' => GoesWhy(o)
    /\ out[o] # "none" => out'[o] # "none" \/ SendToClient(out[o], o)

\* A step that touches one operation.
Touches(o) ==
  /\ \A p \in Ops \ {o} : /\ cpc'[p] = cpc[p] /\ cause'[p] = cause[p] /\ kind'[p] = kind[p]
                          /\ resp'[p] = resp[p] /\ out'[p] = out[p]
  /\ resp'[o] \in {resp[o], "empty"}
  /\ UNCHANGED <<crecv, sreader, toServer>>
  /\ closing' = closing \/ BeginClose(ConnOf[o])

\* Such a step leaves the others alone.
LEMMA TouchLeaves ==
  ASSUME closing \in [Conns -> ClosePcs], NEW o \in Ops, Touches(o),
         Open(ConnOf[o])' /\ Left(o)' => GoesWhy(o),
         Open(ConnOf[o])' /\ out[o] # "none" => out'[o] # "none" \/ SendToClient(out[o], o)
  PROVE  \A p \in Ops : Leaves(p)
<1>1. \A k \in Conns : Open(k)' => Open(k)
  BY ZenonT(30), LinkAssumption, ClosesOnce DEF Touches, Closes, Open
<1>2. ASSUME NEW p \in Ops \ {o} PROVE Leaves(p)
  <2>1. Received(p)' <=> Received(p)
    BY ZenonT(30) DEF Touches, Received
  <2>2. Left(p)' <=> Left(p)
    BY ZenonT(30) DEF Touches, Left, Done
  <2>3. QED
    BY ZenonT(30), <1>1, <2>1, <2>2, LinkAssumption DEF Touches, Leaves, GoesWhy
<1>3. Leaves(o)
  <2>1. Received(o)' => Received(o)
    BY ZenonT(30) DEF Touches, Received
  <2>2. QED
    BY ZenonT(30), <1>1, <2>1, LinkAssumption DEF Leaves
<1>4. QED
  BY ZenonT(30), <1>2, <1>3

\* Calls and their first frames.
LEMMA CallsLeave ==
  ASSUME CallerTypes, CallerBegun, CallsInv, NEW o \in Ops,
         \/ \E k \in Kinds : Begin(o, k)
         \/ \E next \in {"wait", "open", "over"} : WritesFirst(o, next)
         \/ addPending(o) \/ addStream(o)
  PROVE  \A p \in Ops : Leaves(p)
<1> USE DEF wires
<1>0. /\ cpc \in [Ops -> CallPcs] /\ closing \in [Conns -> ClosePcs]
      /\ out \in [Ops -> {"none", "cancel", "error"}]
      /\ resp \in [Ops -> {"empty", "response", "error"}] /\ kind \in [Ops -> Kinds]
      /\ cause \in [Ops -> Causes]
      /\ Paced(o) /\ (cpc[o] \in Early \ {"send"} => ~Done(o))
      /\ out[o] # "none" => Written(o)
  BY ZenonT(30) DEF CallerTypes, CallerBegun, CallsInv, CallTypes, StreamOK
<1>1. ASSUME NEW k \in Kinds, Begin(o, k) PROVE \A p \in Ops : Leaves(p)
  <2>1. Touches(o) /\ UNCHANGED <<cause, out>> /\ cpc[o] = "idle"
        /\ cpc'[o] \in Early
    BY ZenonT(30), <1>0, <1>1 DEF Begin, Goto, Touches, Early
  <2>2. ~Left(o)'
    BY ZenonT(30), <1>0, <2>1 DEF Left, Early, Done
  <2>3. QED
    BY ZenonT(30), <1>0, <2>1, <2>2, TouchLeaves
<1>2. CASE addPending(o) \/ addStream(o)
  <2>1. /\ Touches(o) /\ UNCHANGED <<cause, out, toClient, kind>> /\ cpc[o] \in {"pend", "add"}
        /\ cpc'[o] \in {"add", "send", "land", "over"}
    BY ZenonT(30), <1>0, <1>2 DEF addPending, addStream, Goto, Return, Touches
  <2>2. Left(o)' => GoesWhy(o)
    BY ZenonT(30), <1>0, <2>1 DEF Left, Done, GoesWhy, Written, Early
  <2>3. QED
    BY ZenonT(30), <1>0, <2>1, <2>2, TouchLeaves
<1>3. ASSUME NEW next \in {"wait", "open", "over"}, WritesFirst(o, next)
      PROVE  \A p \in Ops : Leaves(p)
  <2>1. CASE /\ SendToClient(FirstFrame(o), o) /\ Goto(o, next)
             /\ UNCHANGED <<closing, got, cause, cstreams, pending, toServer>>
             /\ UNCHANGED <<sreader, crecv, resp, out, kind>> /\ cpc[o] = "send"
    <3>1. Touches(o) /\ cpc'[o] = next
      BY ZenonT(30), <1>0, <2>1 DEF Goto, Touches
    <3>2. Left(o)' => Left(o)
      BY ZenonT(30), <1>0, <1>3, <2>1, <3>1 DEF WritesFirst, Left, Done, Unary, Stream
    <3>3. QED
      BY ZenonT(30), <1>0, <2>1, <3>1, <3>2, TouchLeaves DEF GoesWhy
  <2>2. CASE /\ Return(o, "error") /\ Finish(o, "error") /\ UNCHANGED wires
             /\ UNCHANGED <<sreader, crecv, resp, out, kind>> /\ cpc[o] = "send"
             /\ closing' = closing \/ BeginClose(ConnOf[o])
    <3>1. Touches(o) /\ cpc'[o] \in {"land", "over"}
      BY ZenonT(30), <1>0, <2>2 DEF Goto, Return, Finish, FinishAll, Touches
    <3>2. GoesWhy(o)
      BY ZenonT(30), <2>2, <3>1 DEF GoesWhy, Written, Early
    <3>3. QED
      BY ZenonT(30), <1>0, <2>2, <3>1, <3>2, TouchLeaves
  <2>3. QED
    BY ZenonT(30), <1>3, <2>1, <2>2 DEF WritesFirst, WriteFirst
<1>4. QED
  BY ZenonT(30), <1>1, <1>2, <1>3

\* The results of unary calls.
LEMMA ResultsLeave ==
  ASSUME CallerTypes, CallerBegun, CallsInv, FreeInv, NEW o \in Ops,
         \/ Receive(o) \/ invokeAsyncHandler(o) \/ SeesClosed(o) \/ CallGivesUp(o)
         \/ FollowerGivesUp(o) \/ Land(o) \/ Publish(o)
  PROVE  \A p \in Ops : Leaves(p)
<1> USE DEF wires
<1>0. /\ cpc \in [Ops -> CallPcs] /\ closing \in [Conns -> ClosePcs]
      /\ out \in [Ops -> {"none", "cancel", "error"}]
      /\ resp \in [Ops -> {"empty", "response", "error"}]
      /\ Paced(o)
  BY ZenonT(30) DEF CallerTypes, CallerBegun, CallsInv, CallTypes
<1>1. CASE Receive(o) \/ invokeAsyncHandler(o)
  <2>1. Touches(o) /\ resp[o] # "empty" /\ out' = out
    BY ZenonT(30), <1>0, <1>1 DEF Receive, invokeAsyncHandler, Return, Goto, Touches
  <2>2. GoesWhy(o)
    BY ZenonT(30), <2>1 DEF GoesWhy, Received
  <2>3. QED
    BY ZenonT(30), <1>0, <2>1, <2>2, TouchLeaves
<1>2. CASE SeesClosed(o)
  <2>1. Touches(o) /\ out' = out /\ closing' = closing /\ cpc[o] = "wait" /\ closed(ConnOf[o])
    BY ZenonT(30), <1>0, <1>2 DEF SeesClosed, Return, Goto, Touches
  <2>2. ~Open(ConnOf[o])'
    BY ZenonT(30), <2>1 DEF FreeInv, Open, closed
  <2>3. QED
    BY ZenonT(30), <1>0, <2>1, <2>2, TouchLeaves
<1>3. CASE CallGivesUp(o)
  <2>1. Touches(o) /\ out'[o] # "none"
    BY ZenonT(30), <1>0, <1>3 DEF CallGivesUp, Return, Goto, Touches
  <2>2. QED
    BY ZenonT(30), <1>0, <2>1, TouchLeaves DEF GoesWhy
<1>4. CASE FollowerGivesUp(o)
  <2>1. /\ Touches(o) /\ out' = out /\ toClient' = toClient
        /\ cpc[o] = "follow" /\ cpc'[o] = "over"
    BY ZenonT(30), <1>0, <1>4 DEF FollowerGivesUp, Goto, Touches
  <2>2. GoesWhy(o)
    BY ZenonT(30), <2>1 DEF GoesWhy, Written, Early
  <2>3. QED
    BY ZenonT(30), <1>0, <2>1, <2>2, TouchLeaves
<1>5. CASE Land(o)
  <2>1. Touches(o) /\ out' = out /\ cpc[o] = "land"
    BY ZenonT(30), <1>0, <1>5 DEF Land, Goto, Touches
  <2>2. GoesWhy(o)
    BY ZenonT(30), <1>0, <2>1 DEF GoesWhy, Left, Paced, Unary
  <2>3. QED
    BY ZenonT(30), <1>0, <2>1, <2>2, TouchLeaves
<1>6. CASE Publish(o)
  <2>1. UNCHANGED <<closing, sreader, crecv, cause, resp, out, kind, toClient, toServer>>
    BY ZenonT(30), <1>6 DEF Publish
  <2>2. ASSUME NEW p \in Ops
        PROVE  \/ cpc'[p] = cpc[p] \/ (cpc[p] = "follow" /\ cpc'[p] = "over")
               \/ p = o /\ cpc[p] = "publish"
    BY ZenonT(30), <1>6 DEF Publish
  <2>3. ASSUME NEW p \in Ops PROVE Left(p)' => GoesWhy(p)
    <3>1. CASE cpc'[p] = cpc[p]
      BY ZenonT(30), <2>1, <3>1 DEF GoesWhy, Left, Done
    <3>2. CASE cpc[p] = "follow" /\ cpc'[p] = "over"
      BY ZenonT(30), <2>1, <3>2 DEF GoesWhy, Written, Early
    <3>3. CASE p = o /\ cpc[p] = "publish"
      BY ZenonT(30), <1>0, <3>3 DEF GoesWhy, Left, Paced, Unary
    <3>4. QED
      BY ZenonT(30), <2>2, <3>1, <3>2, <3>3
  <2>4. \A p \in Ops : (Received(p)' <=> Received(p)) /\ (Open(ConnOf[p])' <=> Open(ConnOf[p]))
    BY ZenonT(30), <2>1 DEF Received, Open
  <2>5. QED
    BY ZenonT(30), <2>1, <2>3, <2>4 DEF Leaves
<1>7. QED
  BY ZenonT(30), <1>1, <1>2, <1>3, <1>4, <1>5, <1>6

\* The ends of streams.
LEMMA StreamsLeave ==
  ASSUME CallerTypes, CallerBegun, CallsInv, FreeInv, NEW o \in Ops,
         \/ CloseStart(o) \/ WriteEnd(o) \/ EndSent(o) \/ Await(o) \/ Recheck(o)
         \/ CancelHandle(o) \/ StreamGivesUp(o) \/ WriteOut(o)
  PROVE  \A p \in Ops : Leaves(p)
<1> USE DEF wires
<1>0. /\ cpc \in [Ops -> CallPcs] /\ closing \in [Conns -> ClosePcs]
      /\ out \in [Ops -> {"none", "cancel", "error"}]
      /\ resp \in [Ops -> {"empty", "response", "error"}]
      /\ cause \in [Ops -> Causes]
      /\ Paced(o) /\ (cpc[o] = "recheck" => Done(o))
      /\ out[o] # "none" => Written(o)
  BY ZenonT(30) DEF CallerTypes, CallerBegun, CallsInv, CallTypes, StreamOK
<1>1. CASE CloseStart(o) \/ EndSent(o) \/ Await(o) \/ Recheck(o)
  <2>1. Touches(o) /\ out' = out /\ kind' = kind
    BY ZenonT(30), <1>0, <1>1 DEF CloseStart, EndSent, Await, Recheck, Goto, Return,
       Finish, FinishAll, Touches
  <2>2. \/ resp[o] # "empty" \/ o \in crecv \/ cpc[o] = "recheck"
        \/ cause' = cause /\ cpc[o] \in {"open", "ending", "await"}
    BY ZenonT(30), <1>0, <1>1 DEF CloseStart, EndSent, Await, Recheck
  <2>3. cpc[o] \in {"open", "ending", "await", "recheck"} => kind[o] \in Stream
    BY ZenonT(30), <1>0 DEF Paced, Stream
  <2>4. cause' = cause /\ kind[o] \in Stream => (Left(o)' => Left(o))
    BY ZenonT(30), <2>1 DEF Left, Stream, Unary, Done
  <2>5. cpc[o] = "recheck" => Left(o)
    BY ZenonT(30), <1>0, <2>3 DEF Left
  <2>6. Left(o)' => GoesWhy(o)
    BY ZenonT(30), <2>2, <2>3, <2>4, <2>5 DEF GoesWhy, Received
  <2>7. QED
    BY ZenonT(30), <1>0, <2>1, <2>6, TouchLeaves
<1>2. CASE WriteEnd(o)
  <2>1. /\ kind' = kind /\ cpc[o] = "closeSend"
        /\ UNCHANGED <<crecv, sreader, toServer, resp>>
        /\ closing' = closing \/ BeginClose(ConnOf[o])
        /\ \E step \in {"recheck", "ending"} : Goto(o, step)
        /\ \/ UNCHANGED <<cause, out>>
           \/ Finish(o, "error") /\ out' = [out EXCEPT ![o] = "error"]
    BY ZenonT(30), <1>2 DEF WriteEnd
  <2>2. Touches(o)
    BY ZenonT(30), <1>0, <2>1 DEF Touches, Goto, Finish, FinishAll
  <2>3. CASE UNCHANGED <<cause, out>>
    <3>1. Left(o)' => Left(o)
      BY ZenonT(30), <1>0, <2>1, <2>3 DEF Left, Done, Paced, Unary, Stream
    <3>2. QED
      BY ZenonT(30), <1>0, <2>2, <2>3, <3>1, TouchLeaves DEF GoesWhy
  <2>4. CASE out' = [out EXCEPT ![o] = "error"]
    BY ZenonT(30), <1>0, <2>2, <2>4, TouchLeaves DEF GoesWhy
  <2>5. QED
    BY ZenonT(30), <2>1, <2>3, <2>4
<1>3. CASE CancelHandle(o)
  <2>1. Touches(o) /\ UNCHANGED <<out, cause, cpc, kind>>
    BY ZenonT(30), <1>0, <1>3 DEF CancelHandle, Touches
  <2>2. Left(o)' => Left(o)
    BY ZenonT(30), <2>1 DEF Left, Done
  <2>3. QED
    BY ZenonT(30), <1>0, <2>1, <2>2, TouchLeaves DEF GoesWhy
<1>4. CASE StreamGivesUp(o)
  <2>1. /\ UNCHANGED <<closing, crecv, sreader, toServer, resp, cpc, kind>>
        /\ \E why : Finish(o, why)
        /\ \E type \in {"cancel", "error"} : out' = [out EXCEPT ![o] = type]
    BY ZenonT(30), <1>4 DEF StreamGivesUp
  <2>2. Touches(o) /\ out'[o] # "none"
    BY ZenonT(30), <1>0, <2>1 DEF Touches, Finish, FinishAll
  <2>3. QED
    BY ZenonT(30), <1>0, <2>2, TouchLeaves DEF GoesWhy
<1>5. CASE WriteOut(o)
  <2>1. /\ UNCHANGED <<crecv, sreader, toServer, resp, cpc, kind, cause>>
        /\ out' = [out EXCEPT ![o] = "none"] /\ out[o] # "none"
        /\ \/ SendToClient(out[o], o) /\ closing' = closing
           \/ BeginClose(ConnOf[o])
    BY ZenonT(30), <1>5 DEF WriteOut
  <2>2. Touches(o)
    BY ZenonT(30), <1>0, <2>1 DEF Touches
  <2>3. BeginClose(ConnOf[o]) => ~Open(ConnOf[o])'
    BY ZenonT(30), <1>0, <2>1, LinkAssumption DEF BeginClose, closed, Open, FreeInv,
       Written, Early
  <2>4. Left(o)' => Left(o)
    BY ZenonT(30), <2>1 DEF Left, Done
  <2>5. QED
    BY ZenonT(30), <1>0, <2>1, <2>2, <2>3, <2>4, TouchLeaves DEF GoesWhy
<1>6. QED
  BY ZenonT(30), <1>1, <1>2, <1>3, <1>4, <1>5

\* The frame that is read next.
LEMMA NextAnswer ==
  ASSUME AnswersInv, NEW k \in Conns, toServer[k] # <<>>
  PROVE  AnswerOK(k, Head(toServer[k]))
<1>1. /\ toServer[k] \in Seq(AnswerSet) /\ Head(toServer[k]) = toServer[k][1]
      /\ 1 \in 1..Len(toServer[k])
  BY DEF AnswersInv
<1>2. QED
  BY ZenonT(30), <1>1 DEF AnswersInv

\* The reader of a Conn, and its end.
LEMMA ReaderLeaves ==
  ASSUME CallerTypes, CallsInv, AnswersInv, NEW k \in Conns,
         ReadFrame(k) \/ ReadRest(k) \/ CloseStreams(k) \/ ClosePending(k)
  PROVE  \A p \in Ops : Leaves(p)
<1> USE DEF wires
<1>0. /\ resp \in [Ops -> {"empty", "response", "error"}] /\ cause \in [Ops -> Causes]
      /\ sreader \in [Conns -> AnswerSet \cup {Nil}] /\ closing \in [Conns -> ClosePcs]
      /\ toServer \in [Conns -> Seq(AnswerSet)]
      /\ \A p \in Ops : ConnOf[p] \in Conns
  BY ZenonT(30), LinkAssumption DEF CallsInv, CallTypes, CallerTypes, AnswersInv
<1>1. CASE ReadFrame(k)
  <2>1. PICK f \in AnswerSet : f = Head(toServer[k])
    BY ZenonT(30), <1>1, NextAnswer DEF ReadFrame, AnswerOK
  <2>2. PICK o \in Ops : o = f.op /\ ConnOf[o] = k
    BY ZenonT(30), <1>1, <2>1, NextAnswer DEF ReadFrame, AnswerOK, AnswerSet
  <2>3. /\ toServer[k] # <<>> /\ toServer' = [toServer EXCEPT ![k] = Tail(toServer[k])]
        /\ UNCHANGED <<closing, cpc, out, kind>>
    BY ZenonT(30), <1>1 DEF ReadFrame
  <2>4. Received(o)
    <3>1. Has(toServer[k], o, AnswerTypes)
      BY ZenonT(30), <1>0, <2>1, <2>2, <2>3, TailHas DEF AnswerSet
    <3>2. QED
      BY ZenonT(30), <2>2, <3>1 DEF Received
  <2>5. /\ sreader' = sreader \/ sreader' = [sreader EXCEPT ![k] = f]
        /\ crecv' = crecv \/ crecv' = crecv \cup {o}
        /\ resp' = resp \/ \E what : complete(o, what)
        /\ cause' = cause \/ \E why : Finish(o, why)
    BY ZenonT(30), <1>1, <2>1, <2>2 DEF ReadFrame
  <2>6. \A p \in Ops \ {o} : resp'[p] = resp[p] /\ cause'[p] = cause[p]
    BY ZenonT(30), <1>0, <2>5 DEF complete, Finish, FinishAll
  <2>7. ASSUME NEW p \in Ops \ {o}, Received(p)' PROVE Received(p)
    <3>1. Has(toServer'[ConnOf[p]], p, AnswerTypes) => Has(toServer[ConnOf[p]], p, AnswerTypes)
      <4>1. CASE ConnOf[p] = k
        BY ZenonT(30), <1>0, <2>3, <4>1, TailHas
      <4>2. CASE ConnOf[p] # k
        BY ZenonT(30), <1>0, <2>3, <4>2
      <4>3. QED
        BY ZenonT(30), <4>1, <4>2
    <3>2. sreader'[ConnOf[p]] # Nil /\ sreader'[ConnOf[p]].op = p =>
            sreader'[ConnOf[p]] = sreader[ConnOf[p]]
      BY ZenonT(30), <1>0, <2>2, <2>5
    <3>3. QED
      BY ZenonT(30), <2>5, <2>6, <2>7, <3>1, <3>2 DEF Received
  <2>8. ASSUME NEW p \in Ops PROVE (Received(p)' => Received(p)) /\ (Left(p)' => GoesWhy(p))
    <3>1. CASE p = o
      BY ZenonT(30), <2>4, <3>1 DEF GoesWhy
    <3>2. CASE p # o
      BY ZenonT(30), <2>3, <2>6, <2>7, <3>2 DEF GoesWhy, Left, Done
    <3>3. QED
      BY ZenonT(30), <3>1, <3>2
  <2>9. QED
    BY ZenonT(30), <2>3, <2>8 DEF Leaves, Open
<1>2. CASE ReadRest(k)
  <2>1. PICK o \in Ops : sreader[k] # Nil /\ o = sreader[k].op /\ ConnOf[o] = k
    BY ZenonT(30), <1>2 DEF ReadRest, CallsInv, ReaderOK, AnswerOK, AnswerSet
  <2>2. /\ sreader' = [sreader EXCEPT ![k] = Nil]
        /\ UNCHANGED <<closing, cpc, crecv, resp, out, kind, toServer>>
        /\ cause' = cause \/ \E why : Finish(o, why)
    BY ZenonT(30), <1>2, <2>1 DEF ReadRest
  <2>3. Received(o) /\ \A p \in Ops \ {o} : cause'[p] = cause[p]
    BY ZenonT(30), <1>0, <2>1, <2>2 DEF Received, Finish, FinishAll
  <2>4. ASSUME NEW p \in Ops PROVE Left(p)' => GoesWhy(p)
    <3>1. CASE p = o
      BY ZenonT(30), <2>3, <3>1 DEF GoesWhy
    <3>2. CASE p # o
      BY ZenonT(30), <2>2, <2>3, <3>2 DEF GoesWhy, Left, Done
    <3>3. QED
      BY ZenonT(30), <3>1, <3>2
  <2>5. ASSUME NEW p \in Ops, Received(p)' PROVE Received(p)
    <3>1. sreader'[ConnOf[p]] \in {sreader[ConnOf[p]], Nil}
      BY ZenonT(30), <1>0, <2>2
    <3>2. QED
      BY ZenonT(30), <2>2, <2>5, <3>1 DEF Received
  <2>6. QED
    BY ZenonT(30), <2>2, <2>4, <2>5 DEF Leaves, Open
<1>3. CASE CloseStreams(k) \/ ClosePending(k)
  <2>1. /\ UNCHANGED <<sreader, cpc, crecv, out, kind, toServer>>
        /\ closing'[k] \notin {"free", "open"}
        /\ \A j \in Conns \ {k} : closing'[j] = closing[j]
    BY ZenonT(30), <1>0, <1>3 DEF CloseStreams, ClosePending
  <2>2. ASSUME NEW p \in Ops, ConnOf[p] # k PROVE cause'[p] = cause[p] /\ resp'[p] = resp[p]
    BY ZenonT(30), <1>0, <1>3, <2>2 DEF CloseStreams, ClosePending, FinishAll, On
  <2>3. ASSUME NEW p \in Ops, ConnOf[p] # k
        PROVE  (Received(p)' <=> Received(p)) /\ (Left(p)' <=> Left(p))
    BY ZenonT(30), <2>1, <2>2, <2>3 DEF Received, Left, Done
  <2>4. ASSUME NEW p \in Ops PROVE Leaves(p)
    <3>1. CASE ConnOf[p] = k
      BY ZenonT(30), <2>1, <3>1 DEF Leaves, Open
    <3>2. CASE ConnOf[p] # k
      BY ZenonT(30), <1>0, <2>1, <2>3, <3>2 DEF Leaves, Open, GoesWhy
    <3>3. QED
      BY ZenonT(30), <3>1, <3>2
  <2>5. QED
    BY ZenonT(30), <2>4
<1>4. QED
  BY ZenonT(30), <1>1, <1>2, <1>3

\* Every step of the callers is of this kind.
LEMMA CallersLeave ==
  ASSUME CallerTypes, CallerBegun, CallsInv, AnswersInv, FreeInv, CallerStep
  PROVE  \A p \in Ops : Leaves(p)
<1>1. kind \in [Ops -> Kinds]
  BY ZenonT(30) DEF CallerTypes
<1>2. QED
  BY ZenonT(30), <1>1, CallerCases, CallsLeave, ResultsLeave, StreamsLeave, ReaderLeaves

\* A first frame is written before anything else of its operation.
LEMMA FirstWritten ==
  ASSUME CallerTypes, CallerStep
  PROVE  \/ toClient' = toClient
         \/ \E o \in Ops, type \in FrameTypes :
              SendToClient(type, o) /\ (type \in First => ~Written(o))
<1> USE DEF wires
<1>1. ASSUME NEW o \in Ops, NEW next \in {"wait", "open", "over"}, WritesFirst(o, next)
      PROVE  \/ toClient' = toClient
             \/ SendToClient(FirstFrame(o), o) /\ FirstFrame(o) \in FrameTypes /\ ~Written(o)
  <2>1. FirstFrame(o) \in FrameTypes
    BY ZenonT(30) DEF FirstFrame, FrameTypes
  <2>2. QED
    BY ZenonT(30), <1>1, <2>1 DEF WritesFirst, WriteFirst, Written, Early
<1>2. ASSUME NEW o \in Ops, WriteEnd(o)
      PROVE  toClient' = toClient \/ SendToClient("end", o)
  BY ZenonT(30), <1>2 DEF WriteEnd
<1>3. ASSUME NEW o \in Ops, WriteOut(o)
      PROVE  toClient' = toClient \/ (SendToClient(out[o], o) /\ out[o] \in {"cancel", "error"})
  BY ZenonT(30), <1>3 DEF WriteOut, CallerTypes
<1>4. ASSUME NEW o \in Ops,
             \/ \E k \in Kinds : Begin(o, k)
             \/ addPending(o) \/ addStream(o) \/ Receive(o) \/ invokeAsyncHandler(o)
             \/ SeesClosed(o) \/ CallGivesUp(o) \/ FollowerGivesUp(o) \/ Land(o)
             \/ Publish(o) \/ CloseStart(o) \/ EndSent(o) \/ Await(o)
             \/ Recheck(o) \/ CancelHandle(o) \/ StreamGivesUp(o)
      PROVE  toClient' = toClient
  BY ZenonT(30), <1>4 DEF Begin, addPending, addStream, Receive, invokeAsyncHandler,
     SeesClosed, CallGivesUp, FollowerGivesUp, Land, Publish, CloseStart, EndSent, Await,
     Recheck, CancelHandle, StreamGivesUp
<1>5. ASSUME NEW k \in Conns, ReadFrame(k) \/ ReadRest(k) \/ CloseStreams(k) \/ ClosePending(k)
      PROVE  toClient' = toClient
  BY ZenonT(30), <1>5 DEF ReadFrame, ReadRest, CloseStreams, ClosePending
<1>6. kind \in [Ops -> Kinds]
  BY ZenonT(30) DEF CallerTypes
<1>7. QED
  BY ZenonT(30), <1>1, <1>2, <1>3, <1>4, <1>5, <1>6, CallerCases DEF First, FrameTypes

\* Operations of a connection that was not accepted have not begun.
LEMMA FreeStep ==
  ASSUME CallerTypes, FreeInv, CallerEffect, CallerStep
  PROVE  FreeInv'
<1>0. kind \in [Ops -> Kinds] /\ cpc \in [Ops -> CallPcs]
  BY ZenonT(30) DEF CallerTypes
<1>1. ASSUME NEW o \in Ops,
             \/ \E next \in {"wait", "open", "over"} : WritesFirst(o, next)
             \/ addPending(o) \/ addStream(o) \/ Receive(o) \/ invokeAsyncHandler(o)
             \/ SeesClosed(o) \/ CallGivesUp(o) \/ FollowerGivesUp(o) \/ Land(o)
             \/ CloseStart(o) \/ WriteEnd(o) \/ EndSent(o) \/ Await(o)
             \/ Recheck(o)
      PROVE  \A p \in Ops : cpc[p] = "idle" => cpc'[p] = "idle"
  <2>1. cpc[o] # "idle" /\ \E step : Goto(o, step)
    <3>1. ASSUME NEW next \in {"wait", "open", "over"}, WritesFirst(o, next)
          PROVE  cpc[o] # "idle" /\ \E step : Goto(o, step)
      BY ZenonT(30), <3>1 DEF WritesFirst, WriteFirst, Return
    <3>2. CASE addPending(o) \/ addStream(o) \/ Receive(o) \/ invokeAsyncHandler(o)
      BY ZenonT(30), <3>2 DEF addPending, addStream, Receive, invokeAsyncHandler, Return
    <3>3. CASE SeesClosed(o) \/ CallGivesUp(o) \/ FollowerGivesUp(o) \/ Land(o)
      BY ZenonT(30), <3>3 DEF SeesClosed, CallGivesUp, FollowerGivesUp, Land, Return
    <3>4. CASE CloseStart(o) \/ EndSent(o) \/ Await(o) \/ Recheck(o)
      BY ZenonT(30), <3>4 DEF CloseStart, EndSent, Await, Recheck, Return
    <3>5. CASE WriteEnd(o)
      BY ZenonT(30), <3>5 DEF WriteEnd
    <3>6. QED
      BY ZenonT(30), <1>1, <3>1, <3>2, <3>3, <3>4, <3>5
  <2>2. QED
    BY ZenonT(30), <1>0, <2>1 DEF Goto
<1>2. ASSUME NEW o \in Ops, Publish(o)
      PROVE  \A p \in Ops : cpc[p] = "idle" => cpc'[p] = "idle"
  BY ZenonT(30), <1>2 DEF Publish
<1>3. ASSUME NEW o \in Ops, CancelHandle(o) \/ StreamGivesUp(o) \/ WriteOut(o)
      PROVE  cpc' = cpc
  BY ZenonT(30), <1>3 DEF CancelHandle, StreamGivesUp, WriteOut
<1>4. ASSUME NEW k \in Conns, ReadFrame(k) \/ ReadRest(k) \/ CloseStreams(k) \/ ClosePending(k)
      PROVE  cpc' = cpc
  BY ZenonT(30), <1>4 DEF ReadFrame, ReadRest, CloseStreams, ClosePending
<1>5. ASSUME NEW o \in Ops, NEW k \in Kinds, Begin(o, k)
      PROVE  closing[ConnOf[o]] # "free" /\ \A p \in Ops \ {o} : cpc'[p] = cpc[p]
  BY ZenonT(30), <1>0, <1>5 DEF Begin, Goto
<1>6. \A p \in Ops : closing[ConnOf[p]] = "free" /\ cpc[p] = "idle" => cpc'[p] = "idle"
  BY ZenonT(30), <1>0, <1>1, <1>2, <1>3, <1>4, <1>5, CallerCases
<1>7. \A p \in Ops : closing'[ConnOf[p]] = "free" <=> closing[ConnOf[p]] = "free"
  BY ZenonT(30), LinkAssumption DEF CallerEffect
<1>8. QED
  BY ZenonT(30), <1>6, <1>7 DEF FreeInv

-----------------------------------------------------------------------------
(***************************************************************************)
(* Both sides: whoever is gone has told its handler, or will.              *)
(***************************************************************************)

\* The handler of a caller that is gone has ended, or there is a frame for it.
Accounted(o) ==
  Open(ConnOf[o]) =>
    /\ Received(o) => Ended(o) /\ Written(o)
    /\ Left(o) => Written(o)
    /\ Left(o) /\ (Current(o) \/ reader[ConnOf[o]] = "none") =>
         Ended(o) \/ Coming(o, Stops) \/ out[o] # "none"

\* The invariant of an operation's course, on both sides.
TraceInv ==
  /\ CallsInv /\ AnswersInv /\ FreeInv
  /\ TablesInv /\ RepliesInv /\ OrderInv
  /\ \A o \in Ops : Accounted(o)

\* The invariant of a session.
SInv == load \in Loads /\ HandshakeInv /\ CallerInv /\ HandlerInv /\ TraceInv

\* A frame and its fields.
LEMMA FrameFields ==
  ASSUME NEW o \in Ops, NEW type
  PROVE  /\ Frame(type, o).op = o /\ Frame(type, o).type = type
         /\ type \in FrameTypes => Frame(type, o) \in FrameSet
         /\ type \in AnswerTypes => Frame(type, o) \in AnswerSet
  BY ZenonT(30) DEF Frame, FrameSet, AnswerSet

\* An operation that has not written is unknown to the dialing side.
LEMMA Unheard ==
  ASSUME HandlerBegun, CallerBegun, HeldInv, NEW o \in Ops, ~Written(o)
  PROVE  hpc[o] = "none" /\ \A types : ~Coming(o, types)
<1>1. ConnOf[o] \in Conns
  BY ZenonT(30), LinkAssumption
<1>2. hpc[o] = "none"
  BY ZenonT(30) DEF HandlerBegun
<1>3. ~(rframe[ConnOf[o]] # Nil /\ rframe[ConnOf[o]].op = o)
  BY ZenonT(30), <1>1 DEF HandlerBegun, HeldInv, FrameOK
<1>4. \A i \in 1..Len(toClient[ConnOf[o]]) : toClient[ConnOf[o]][i].op # o
  BY <1>1 DEF CallerBegun, FrameOK
<1>5. QED
  BY ZenonT(30), <1>2, <1>3, <1>4 DEF Coming, Holds, Has

\* What the callers add to a wire.
Sends ==
  \/ toClient' = toClient
  \/ \E o \in Ops, type \in FrameTypes :
       SendToClient(type, o) /\ (type \in First => ~Written(o))

\* Nothing is lost, and only an operation that has not written starts.
LEMMA WireGrows ==
  ASSUME toClient \in [Conns -> Seq(FrameSet)], Sends, NEW k \in Conns, NEW o \in Ops
  PROVE  /\ \A types : Has(toClient[k], o, types) => Has(toClient'[k], o, types)
         /\ Has(toClient'[k], o, First) => Has(toClient[k], o, First) \/ ~Written(o)
<1>1. ASSUME NEW p \in Ops, NEW type \in FrameTypes, SendToClient(type, p), ConnOf[p] = k,
             NEW types
      PROVE  Has(toClient'[k], o, types) <=>
               Has(toClient[k], o, types) \/ (p = o /\ type \in types)
  <2>1. PICK f \in FrameSet : f = Frame(type, p) /\ f.op = p /\ f.type = type
    BY ZenonT(30), FrameFields
  <2>2. toClient'[k] = Append(toClient[k], f) /\ toClient[k] \in Seq(FrameSet)
    BY ZenonT(30), <1>1, <2>1 DEF SendToClient
  <2>3. Has(Append(toClient[k], f), o, types) <=>
          Has(toClient[k], o, types) \/ (f.op = o /\ f.type \in types)
    BY ZenonT(30), <2>2, AppendHas
  <2>4. QED
    BY ZenonT(30), <2>1, <2>2, <2>3
<1>2. ASSUME NEW p \in Ops, NEW type, SendToClient(type, p), ConnOf[p] # k
      PROVE  toClient'[k] = toClient[k]
  BY ZenonT(30), <1>2 DEF SendToClient
<1>3. CASE toClient'[k] = toClient[k]
  BY ZenonT(30), <1>3
<1>4. ASSUME NEW p \in Ops, NEW type \in FrameTypes, SendToClient(type, p), ConnOf[p] = k,
             type \in First => ~Written(p)
      PROVE  /\ \A types : Has(toClient[k], o, types) => Has(toClient'[k], o, types)
             /\ Has(toClient'[k], o, First) => Has(toClient[k], o, First) \/ ~Written(o)
  BY ZenonT(30), <1>1, <1>4
<1>5. QED
  BY ZenonT(30), <1>2, <1>3, <1>4 DEF Sends

\* The callers keep the order.
LEMMA OrderCallers ==
  ASSUME HandlerBegun, CallerBegun, HeldInv, OrderInv, Sends,
         toClient \in [Conns -> Seq(FrameSet)], UNCHANGED <<rframe, hpc>>
  PROVE  OrderInv'
<1>1. ASSUME NEW k \in Conns PROVE Ordered(toClient'[k])
  <2>1. CASE toClient'[k] = toClient[k]
    BY ZenonT(30), <2>1 DEF OrderInv
  <2>2. ASSUME NEW p \in Ops, NEW type \in FrameTypes, SendToClient(type, p), ConnOf[p] = k,
               type \in First => ~Written(p)
        PROVE  Ordered(toClient'[k])
    <3>1. PICK f \in FrameSet : f = Frame(type, p) /\ f.op = p /\ f.type = type
      BY ZenonT(30), FrameFields
    <3>2. /\ toClient'[k] = Append(toClient[k], f) /\ toClient[k] \in Seq(FrameSet)
          /\ Ordered(toClient[k])
      BY ZenonT(30), <2>2, <3>1 DEF SendToClient, OrderInv
    <3>3. f.type \in First => ~Has(toClient[k], f.op, FrameTypes)
      BY ZenonT(30), <2>2, <3>1, Unheard DEF Coming
    <3>4. QED
      BY ZenonT(30), <3>2, <3>3, AppendOrdered
  <2>3. ASSUME NEW p \in Ops, NEW type, SendToClient(type, p), ConnOf[p] # k
        PROVE  toClient'[k] = toClient[k]
    BY ZenonT(30), <2>3 DEF SendToClient
  <2>4. QED
    BY ZenonT(30), <2>1, <2>2, <2>3 DEF Sends
<1>2. ASSUME NEW k \in Conns, rframe[k] # Nil PROVE ~Has(toClient'[k], rframe[k].op, First)
  <2>1. rframe[k].op \in Ops /\ Written(rframe[k].op)
    BY ZenonT(30), <1>2 DEF HeldInv, HandlerBegun, FrameOK, FrameSet
  <2>2. QED
    BY ZenonT(30), <1>2, <2>1, WireGrows DEF OrderInv
<1>3. ASSUME NEW o \in Ops, hpc[o] # "none" PROVE ~Coming(o, First)'
  <2>1. Written(o) /\ ~Coming(o, First) /\ ConnOf[o] \in Conns
    BY ZenonT(30), <1>3, LinkAssumption DEF HandlerBegun, OrderInv
  <2>2. ~Has(toClient'[ConnOf[o]], o, First)
    BY ZenonT(30), <2>1, WireGrows DEF Coming
  <2>3. QED
    BY ZenonT(30), <2>1, <2>2 DEF Coming, Holds
<1>4. QED
  BY ZenonT(30), <1>1, <1>2, <1>3 DEF OrderInv

\* The callers account for whom they leave.
LEMMA AccountCallers ==
  ASSUME HandlerBegun, CallerBegun, HeldInv, Sends, CallerEffect, CallerTypes,
         UNCHANGED <<rframe, hpc, rctx, hdone, reader, conn>>,
         NEW o \in Ops, Leaves(o), Accounted(o)
  PROVE  Accounted(o)'
<1>1. ConnOf[o] \in Conns /\ toClient \in [Conns -> Seq(FrameSet)]
  BY ZenonT(30), LinkAssumption DEF CallerTypes
<1>2. (Written(o) => Written(o)') /\ (out'[o] # "none" => Written(o)')
  BY ZenonT(30) DEF CallerEffect, Kept
<1>3. Written(o) /\ Ended(o) => Ended(o)'
  <2>1. Written(o) /\ Coming(o, First)' => Coming(o, First)
    BY ZenonT(30), <1>1, WireGrows DEF Coming, Holds
  <2>2. QED
    BY ZenonT(30), <2>1 DEF Ended
<1>4. Coming(o, Stops) => Coming(o, Stops)'
  BY ZenonT(30), <1>1, WireGrows DEF Coming, Holds
<1>5. out[o] # "none" /\ SendToClient(out[o], o) => Coming(o, Stops)'
  <2> SUFFICES ASSUME out[o] # "none", SendToClient(out[o], o) PROVE Coming(o, Stops)'
    OBVIOUS
  <2>1. out[o] \in Stops /\ out[o] \in FrameTypes
    BY ZenonT(30) DEF CallerTypes, Stops, FrameTypes
  <2>2. PICK f \in FrameSet : f = Frame(out[o], o) /\ f.op = o /\ f.type = out[o]
    BY ZenonT(30), <2>1, FrameFields
  <2>3. toClient'[ConnOf[o]] = Append(toClient[ConnOf[o]], f)
    BY ZenonT(30), <1>1, <2>2 DEF SendToClient
  <2>4. Has(Append(toClient[ConnOf[o]], f), o, Stops)
    BY ZenonT(30), <1>1, <2>1, <2>2, AppendHas
  <2>5. QED
    BY ZenonT(30), <2>3, <2>4 DEF Coming
<1>6. ~Written(o) /\ toClient' = toClient => Ended(o)'
  <2> SUFFICES ASSUME ~Written(o), toClient' = toClient PROVE Ended(o)'
    OBVIOUS
  <2>1. hpc[o] = "none" /\ ~Coming(o, First)
    BY ZenonT(30), Unheard
  <2>2. ~Coming(o, First)'
    BY ZenonT(30), <2>1 DEF Coming, Holds
  <2>3. QED
    BY ZenonT(30), <2>1, <2>2 DEF Ended
<1>7. Current(o)' <=> Current(o)
  BY ZenonT(30) DEF Current
<1>8. QED
  BY ZenonT(30), <1>2, <1>3, <1>4, <1>5, <1>6, <1>7 DEF Leaves, GoesWhy, Accounted

\* The dialing side accounts for whom it answers.
LEMMA AccountHandlers ==
  ASSUME HandlerTypes, HeldInv, RepliesInv, OrderInv, Advance, AnswersInv,
         toClient \in [Conns -> Seq(FrameSet)], HandlerBegun,
         UNCHANGED <<closing, cpc, kind, cause, resp, crecv, sreader, out>>,
         NEW o \in Ops, Accounted(o)
  PROVE  Accounted(o)'
<1>1. /\ Open(ConnOf[o])' <=> Open(ConnOf[o])
      /\ Written(o)' <=> Written(o)
      /\ Left(o)' <=> Left(o)
  BY ZenonT(30) DEF Open, Written, Left, Done
<1>2. /\ ConnOf[o] \in Conns /\ (Current(o)' => Current(o))
      /\ reader'[ConnOf[o]] = "none" <=> reader[ConnOf[o]] = "none"
  BY ZenonT(30), LinkAssumption DEF Advance, Current
<1>3. Ended(o) => Ended(o)'
  BY ZenonT(30), EndedAdvances
<1>4. Coming(o, Stops) /\ (Current(o) \/ reader[ConnOf[o]] = "none") =>
        Coming(o, Stops)' \/ Ended(o)'
  BY ZenonT(30), StopsAdvance DEF HandlerTypes
<1>5. Received(o)' => Received(o) \/ (Ended(o)' /\ Written(o))
  <2>1. CASE toServer' = toServer
    BY ZenonT(30), <2>1 DEF Received
  <2>2. ASSUME NEW p \in Ops, NEW type \in AnswerTypes, SendToServer(type, p), Answers(p)
        PROVE  Received(o)' => Received(o) \/ (Ended(o)' /\ Written(o))
    <3>1. PICK f \in AnswerSet : f = Frame(type, p) /\ f.op = p /\ f.type = type
      BY ZenonT(30), FrameFields
    <3>2. CASE p = o
      <4>1. Written(o)
        BY ZenonT(30), <1>2, <2>2, <3>2 DEF Answers, HandlerBegun, RepliesInv, Holding,
           FrameOK
      <4>2. QED
        BY ZenonT(30), <2>2, <3>2, <4>1, AnswerEnds
    <3>3. CASE p # o
      <4>1. CASE ConnOf[p] = ConnOf[o]
        <5>1. /\ toServer'[ConnOf[o]] = Append(toServer[ConnOf[o]], f)
              /\ toServer[ConnOf[o]] \in Seq(AnswerSet)
          BY ZenonT(30), <1>2, <2>2, <3>1, <4>1 DEF SendToServer, AnswersInv
        <5>2. Has(Append(toServer[ConnOf[o]], f), o, AnswerTypes) <=>
                Has(toServer[ConnOf[o]], o, AnswerTypes)
          BY <3>1, <3>3, <5>1, AppendHas
        <5>3. QED
          BY ZenonT(30), <5>1, <5>2 DEF Received
      <4>2. CASE ConnOf[p] # ConnOf[o]
        <5>1. toServer'[ConnOf[o]] = toServer[ConnOf[o]]
          BY ZenonT(30), <1>2, <2>2, <4>2 DEF SendToServer, AnswersInv
        <5>2. QED
          BY ZenonT(30), <5>1 DEF Received
      <4>3. QED
        BY ZenonT(30), <4>1, <4>2
    <3>4. QED
      BY ZenonT(30), <3>2, <3>3
  <2>3. QED
    BY ZenonT(30), <2>1, <2>2 DEF Advance, AnswerTypes
<1>6. QED
  BY ZenonT(30), <1>1, <1>2, <1>3, <1>4, <1>5 DEF Accounted

-----------------------------------------------------------------------------
(***************************************************************************)
(* TraceInv: what becomes of an operation on either side.  The steps of    *)
(* the callers, those of the dialing side, and the rest.                   *)
(***************************************************************************)

\* The callers take the answers one by one.
LEMMA AnswersTaken ==
  ASSUME kind \in [Ops -> Kinds], CallerStep
  PROVE  \/ toServer' = toServer
         \/ \E k \in Conns : /\ toServer[k] # <<>>
                             /\ toServer' = [toServer EXCEPT ![k] = Tail(toServer[k])]
<1>1. ASSUME NEW k \in Conns, ReadFrame(k)
      PROVE  toServer[k] # <<>> /\ toServer' = [toServer EXCEPT ![k] = Tail(toServer[k])]
  BY ZenonT(30), <1>1 DEF ReadFrame
<1>2. ASSUME NEW o \in Ops,
             \/ \E k \in Kinds : Begin(o, k)
             \/ \E next \in {"wait", "open", "over"} : WritesFirst(o, next)
             \/ addPending(o) \/ addStream(o) \/ Receive(o) \/ invokeAsyncHandler(o)
             \/ SeesClosed(o) \/ CallGivesUp(o) \/ FollowerGivesUp(o)
      PROVE  toServer' = toServer
  BY ZenonT(30), <1>2 DEF Begin, WritesFirst, WriteFirst, addPending, addStream, Receive,
     invokeAsyncHandler, SeesClosed, CallGivesUp, FollowerGivesUp, wires
<1>3. ASSUME NEW o \in Ops,
             \/ Land(o) \/ Publish(o) \/ CloseStart(o) \/ WriteEnd(o) \/ EndSent(o) \/ Await(o)
             \/ Recheck(o) \/ CancelHandle(o) \/ StreamGivesUp(o) \/ WriteOut(o)
      PROVE  toServer' = toServer
  BY ZenonT(30), <1>3 DEF Land, Publish, CloseStart, WriteEnd, EndSent, Await, Recheck,
     CancelHandle, StreamGivesUp, WriteOut, wires
<1>4. ASSUME NEW k \in Conns, ReadRest(k) \/ CloseStreams(k) \/ ClosePending(k)
      PROVE  toServer' = toServer
  BY ZenonT(30), <1>4 DEF ReadRest, CloseStreams, ClosePending, wires
<1>5. QED
  BY ZenonT(30), <1>1, <1>2, <1>3, <1>4, CallerCases

\* The answers on their way, while the callers run.
LEMMA AnswersCallers ==
  ASSUME AnswersInv, kind \in [Ops -> Kinds], Kept, CallerStep
  PROVE  AnswersInv'
<1>1. ASSUME NEW k \in Conns, NEW f, AnswerOK(k, f) PROVE AnswerOK(k, f)'
  BY ZenonT(30), <1>1 DEF AnswerOK, AnswerSet, Kept
<1>2. CASE toServer' = toServer
  BY ZenonT(30), <1>1, <1>2 DEF AnswersInv
<1>3. ASSUME NEW k \in Conns, toServer[k] # <<>>,
             toServer' = [toServer EXCEPT ![k] = Tail(toServer[k])]
      PROVE  AnswersInv'
  <2>1. /\ toServer[k] \in Seq(AnswerSet)
        /\ \A i \in 1..Len(toServer[k]) : AnswerOK(k, toServer[k][i])
    BY ZenonT(30) DEF AnswersInv
  <2>2. /\ Tail(toServer[k]) \in Seq(AnswerSet)
        /\ \A i \in 1..Len(Tail(toServer[k])) :
             i + 1 \in 1..Len(toServer[k]) /\ Tail(toServer[k])[i] = toServer[k][i + 1]
    BY <1>3, <2>1
  <2>3. \A i \in 1..Len(Tail(toServer[k])) : AnswerOK(k, Tail(toServer[k])[i])
    BY ZenonT(30), <2>1, <2>2
  <2>4. /\ toServer' \in [Conns -> Seq(AnswerSet)] /\ toServer'[k] = Tail(toServer[k])
        /\ \A j \in Conns \ {k} : toServer'[j] = toServer[j]
    BY ZenonT(30), <1>3, <2>2 DEF AnswersInv
  <2>5. QED
    BY ZenonT(30), <1>1, <2>3, <2>4 DEF AnswersInv
<1>4. QED
  BY ZenonT(30), <1>2, <1>3, AnswersTaken

\* Whoever is answered has written.
LEMMA AnswersWritten ==
  ASSUME HandlerBegun, RepliesInv, NEW o \in Ops, Answers(o)
  PROVE  Written(o)
<1>1. ConnOf[o] \in Conns
  BY ZenonT(30), LinkAssumption
<1>2. QED
  BY ZenonT(30), <1>1 DEF Answers, HandlerBegun, RepliesInv, Holding, FrameOK

\* The answers on their way, while the dialing side runs.
LEMMA AnswersHandlers ==
  ASSUME AnswersInv, HandlerBegun, RepliesInv, Advance, cpc' = cpc
  PROVE  AnswersInv'
<1>1. ASSUME NEW k \in Conns, NEW f, AnswerOK(k, f) PROVE AnswerOK(k, f)'
  BY ZenonT(30), <1>1 DEF AnswerOK, Written
<1>2. CASE toServer' = toServer
  BY ZenonT(30), <1>1, <1>2 DEF AnswersInv
<1>3. ASSUME NEW o \in Ops, NEW type \in AnswerTypes, SendToServer(type, o), Answers(o)
      PROVE  AnswersInv'
  <2>1. PICK k \in Conns : k = ConnOf[o]
    BY ZenonT(30), LinkAssumption
  <2>2. PICK f \in AnswerSet : f = Frame(type, o) /\ f.op = o
    BY ZenonT(30), FrameFields
  <2>3. AnswerOK(k, f)
    BY ZenonT(30), <1>3, <2>1, <2>2, AnswersWritten DEF AnswerOK
  <2>4. /\ toServer[k] \in Seq(AnswerSet)
        /\ \A i \in 1..Len(toServer[k]) : AnswerOK(k, toServer[k][i])
    BY ZenonT(30) DEF AnswersInv
  <2>5. /\ Append(toServer[k], f) \in Seq(AnswerSet)
        /\ \A i \in 1..Len(Append(toServer[k], f)) :
             \/ i \in 1..Len(toServer[k]) /\ Append(toServer[k], f)[i] = toServer[k][i]
             \/ Append(toServer[k], f)[i] = f
    BY <2>4
  <2>6. /\ toServer' \in [Conns -> Seq(AnswerSet)] /\ toServer'[k] = Append(toServer[k], f)
        /\ \A j \in Conns \ {k} : toServer'[j] = toServer[j]
    BY ZenonT(30), <1>3, <2>1, <2>2, <2>5 DEF AnswersInv, SendToServer
  <2>7. \A i \in 1..Len(Append(toServer[k], f)) : AnswerOK(k, Append(toServer[k], f)[i])
    BY ZenonT(30), <2>3, <2>4, <2>5
  <2>8. QED
    BY ZenonT(30), <1>1, <2>6, <2>7 DEF AnswersInv
<1>4. QED
  BY ZenonT(30), <1>2, <1>3 DEF Advance, AnswerTypes

\* A connection that is being dialed exists.
LEMMA DialingKnown ==
  ASSUME HandshakeInv, DialInv, cstep \in {"ack", "authAck", "done"}
  PROVE  dialing \in Conns
<1>1. sstep # "none"
  BY ZenonT(30) DEF HandshakeInv, AtNone, AtHello, AtAuth, AtAccept, AtDone, AtFailed
<1>2. QED
  BY ZenonT(30), <1>1 DEF DialInv

\* The steps of the callers.
LEMMA CallersTrace ==
  ASSUME CallerInv, HandlerInv, TraceInv, CallerStep,
         UNCHANGED <<load, dialing, handshakeVars, dispatchVars>>
  PROVE  TraceInv'
<1>1. /\ CallerTypes /\ CallerBegun /\ HandlerBegun
      /\ CallsInv /\ AnswersInv /\ FreeInv /\ TablesInv /\ RepliesInv /\ OrderInv
      /\ HeldInv /\ kind \in [Ops -> Kinds] /\ toClient \in [Conns -> Seq(FrameSet)]
  BY ZenonT(30) DEF CallerInv, HandlerInv, TraceInv, TablesInv, CallerTypes
<1>2. UNCHANGED <<conn, losing, lossAt, closePc, reader, rframe, streams, requests, hpc, reply,
                  hdone, rctx, hout, cstep, dialing>>
  BY ZenonT(30) DEF dispatchVars, handshakeVars
<1>3. CallerEffect /\ Kept
  BY ZenonT(30), <1>1, CallerFacts DEF CallerEffect
<1>4. CallsInv'
  BY ZenonT(30), <1>1, <1>3, NextAnswer, CallsKept
<1>5. AnswersInv' /\ FreeInv'
  BY ZenonT(30), <1>1, <1>3, AnswersCallers, FreeStep
<1>6. TablesInv'
  <2>1. \A o \in Ops : Running(o) \/ Tracking(o) => Written(o)
    <3>1. ASSUME NEW o \in Ops, Tracking(o) PROVE Written(o)
      <4>1. ConnOf[o] \in Conns
        BY ZenonT(30), LinkAssumption
      <4>2. QED
        BY ZenonT(30), <1>1, <3>1, <4>1 DEF Tracking, Holding, HandlerBegun, FrameOK
    <3>2. QED
      BY ZenonT(30), <1>1, <3>1, RunningBegun
  <2>2. \A o \in Ops : Running(o) \/ Tracking(o) => kind'[o] = kind[o]
    BY ZenonT(30), <1>3, <2>1 DEF Kept, Written, Early
  <2>3. cstep' \in {"ack", "authAck", "done"} => conn = Nil /\ reader[dialing'] = "none"
    BY ZenonT(30), <1>1, <1>2 DEF TablesInv, ConnInv
  <2>4. QED
    BY ZenonT(30), <1>1, <1>2, <2>2, <2>3, TablesFrame
<1>7. RepliesInv'
  BY ZenonT(30), <1>1, <1>2 DEF RepliesInv
<1>8. Sends
  BY ZenonT(30), <1>1, FirstWritten DEF Sends
<1>9. OrderInv'
  BY ZenonT(30), <1>1, <1>2, <1>8, OrderCallers
<1>10. ASSUME NEW o \in Ops PROVE Accounted(o)'
  <2>1. Leaves(o) /\ Accounted(o)
    BY ZenonT(30), <1>1, CallersLeave DEF TraceInv
  <2>2. QED
    BY ZenonT(30), <1>1, <1>2, <1>3, <1>8, <2>1, AccountCallers
<1>11. QED
  BY ZenonT(30), <1>4, <1>5, <1>6, <1>7, <1>9, <1>10 DEF TraceInv

\* Everything but the tables, when the dialing side advances.
LEMMA AdvanceTrace ==
  ASSUME CallerInv, HandlerInv, TraceInv, Advance, TablesInv', RepliesInv',
         UNCHANGED callerVars, UNCHANGED kind
  PROVE  TraceInv'
<1>1. /\ HandlerTypes /\ HandlerBegun /\ toClient \in [Conns -> Seq(FrameSet)]
      /\ CallsInv /\ AnswersInv /\ FreeInv /\ HeldInv /\ RepliesInv /\ OrderInv
  BY ZenonT(30) DEF CallerInv, HandlerInv, TraceInv, TablesInv, CallerTypes
<1>2. UNCHANGED <<closing, cpc, kind, cause, resp, crecv, sreader, out, cstreams, pending, got,
                  gaveUp, flight, leader>>
  BY ZenonT(30) DEF callerVars
<1>3. CallsInv' /\ AnswersInv'
  BY ZenonT(30), <1>1, <1>2, CallsFrame, AnswersHandlers
<1>4. FreeInv' /\ OrderInv'
  BY ZenonT(30), <1>1, <1>2, OrderAdvances DEF FreeInv
<1>5. \A o \in Ops : Accounted(o)'
  BY ZenonT(30), <1>1, <1>2, AccountHandlers DEF TraceInv
<1>6. QED
  BY ZenonT(30), <1>3, <1>4, <1>5 DEF TraceInv

\* Every step of the dialing side is an advance.
LEMMA DispatchAdvances ==
  ASSUME CallerInv, HandlerInv, TraceInv, DispatchStep
  PROVE  Advance /\ HeldFits
<1>1. /\ HandlerTypes /\ HandlerBegun /\ toClient \in [Conns -> Seq(FrameSet)]
      /\ TablesInv /\ RepliesInv
  BY ZenonT(30) DEF CallerInv, HandlerInv, TraceInv, CallerTypes
<1>2. HeldFits
  BY ZenonT(30), <1>1 DEF HandlerBegun, HeldFits, FrameOK, Fits
<1>3. QED
  BY ZenonT(30), <1>1, <1>2, Advances

\* The steps of the dialing side.
LEMMA DispatchTrace ==
  ASSUME HandshakeInv, CallerInv, HandlerInv, TraceInv, DispatchStep,
         UNCHANGED <<load, dialing, kind, handshakeVars, callerVars>>
  PROVE  TraceInv'
<1>1. /\ HandlerTypes /\ toClient \in [Conns -> Seq(FrameSet)]
      /\ TablesInv /\ HeldInv /\ RepliesInv /\ UNCHANGED <<kind, cstep, dialing>>
  BY ZenonT(30) DEF CallerInv, HandlerInv, TraceInv, TablesInv, CallerTypes, handshakeVars
<1>2. Advance /\ HeldFits
  BY ZenonT(30), DispatchAdvances
<1>3. \A k \in Conns : toClient[k] # <<>> => Head(toClient[k]) \in FrameSet
  <2>1. ASSUME NEW k \in Conns, toClient[k] # <<>>, toClient[k] \in Seq(FrameSet)
        PROVE  Head(toClient[k]) \in FrameSet
    BY <2>1
  <2>2. QED
    BY ZenonT(30), <1>1, <2>1
<1>4. TablesInv'
  BY ZenonT(30), <1>1, <1>2, <1>3, DialingKnown, TablesStep DEF CallerInv
<1>5. RepliesInv'
  BY ZenonT(30), <1>1, <1>2, RepliesStep
<1>6. QED
  BY ZenonT(30), <1>2, <1>4, <1>5, AdvanceTrace

\* connectionLost begins.
LEMMA LossTrace ==
  ASSUME HandshakeInv, CallerInv, HandlerInv, TraceInv, NEW k \in Conns, ClientReadFails(k)
  PROVE  TraceInv'
<1>1. /\ HandlerTypes /\ HandlerBegun /\ TablesInv /\ RepliesInv
      /\ reader \in [Conns -> ReaderPcs]
  BY ZenonT(30) DEF HandlerInv, TraceInv, HandlerTypes
<1>2. /\ reader[k] = "read" /\ connMu /\ Lose(k) /\ ReaderGoto(k, "gone")
      /\ UNCHANGED <<closePc, requests, rctx, hpc, rframe, streams, hdone, reply, hout>>
      /\ UNCHANGED <<toClient, toServer, kind, dialing, cstep>> /\ UNCHANGED callerVars
  BY ZenonT(30) DEF ClientReadFails, wires, handshakeVars
<1>3. TablesInv'
  <2>1. Local
    BY ZenonT(30), <1>1, <1>2, LossesLocal
  <2>2. QED
    BY ZenonT(30), <1>1, <1>2, <2>1, DialingKnown, TablesLocal DEF CallerInv
<1>4. RepliesInv'
  BY ZenonT(30), <1>1, <1>2 DEF RepliesInv
<1>5. Advance
  <2>1. conn' \in {conn, Nil}
    BY ZenonT(30), <1>2 DEF Lose
  <2>2. \A j \in Conns : reader'[j] = "none" <=> reader[j] = "none"
    BY ZenonT(30), <1>1, <1>2 DEF ReaderGoto
  <2>3. QED
    BY ZenonT(30), <1>2, <2>1, <2>2 DEF Advance, ReadsOn, Moves
<1>6. QED
  BY ZenonT(30), <1>2, <1>3, <1>4, <1>5, AdvanceTrace

\* A step that concerns connections: one is made, or begins to close.
Between ==
  /\ UNCHANGED <<sreader, cpc, cstreams, pending, cause, resp, got, gaveUp, flight, leader,
                 kind, out, crecv>>
  /\ UNCHANGED <<toClient, toServer, rframe, hpc, reply, hdone, rctx, hout>>
  /\ \A k \in Conns : closing'[k] # closing[k] =>
       \/ closing[k] = "open" /\ closing'[k] = "streams"
       \/ closing[k] = "free" /\ closing'[k] = "open"

\* It keeps everything but the tables.
LEMMA BetweenTrace ==
  ASSUME TraceInv, Between, TablesInv',
         \A o \in Ops : Current(o)' \/ reader'[ConnOf[o]] = "none" =>
           Current(o) \/ reader[ConnOf[o]] = "none"
  PROVE  TraceInv'
<1>1. CallsInv'
  BY ZenonT(30), CallsFrame DEF TraceInv, Between
<1>2. AnswersInv'
  BY ZenonT(30) DEF TraceInv, Between, AnswersInv, AnswerOK, Written
<1>3. RepliesInv'
  BY ZenonT(30) DEF TraceInv, Between, RepliesInv
<1>4. \A o \in Ops : \A types : Coming(o, types)' <=> Coming(o, types)
  BY ZenonT(30) DEF Between, Coming, Holds
<1>5. OrderInv'
  BY ZenonT(30), <1>4 DEF TraceInv, Between, OrderInv
<1>6. \A k \in Conns : Open(k)' => Open(k)
  BY ZenonT(30) DEF Between, Open
<1>7. FreeInv'
  <2>1. \A k \in Conns : closing'[k] = "free" => closing[k] = "free"
    BY ZenonT(30) DEF Between
  <2>2. QED
    BY ZenonT(30), <2>1, LinkAssumption DEF TraceInv, Between, FreeInv
<1>8. ASSUME NEW o \in Ops PROVE Accounted(o)'
  <2>1. Accounted(o) /\ (Open(ConnOf[o])' => Open(ConnOf[o]))
    BY ZenonT(30), <1>6, LinkAssumption DEF TraceInv
  <2>2. /\ (Ended(o) => Ended(o)') /\ (Written(o) => Written(o)')
        /\ (Coming(o, Stops) => Coming(o, Stops)') /\ out'[o] = out[o]
    BY ZenonT(30), <1>4 DEF Between, Ended, Written
  <2>3. (Received(o)' => Received(o)) /\ (Left(o)' => Left(o))
    BY ZenonT(30) DEF Between, Received, Left, Done
  <2>4. QED
    BY ZenonT(30), <2>1, <2>2, <2>3 DEF Accounted
<1>9. QED
  BY ZenonT(30), <1>1, <1>2, <1>3, <1>5, <1>7, <1>8 DEF TraceInv

\* The steps of a handshake do not bring it back.
LEMMA HandshakeForward ==
  ASSUME HandshakeAdvances \/ HandshakeBreaks \/ AcceptConn,
         cstep' \in {"ack", "authAck", "done"}
  PROVE  cstep \in {"ack", "authAck", "done"}
  BY ZenonT(30) DEF HandshakeAdvances, HandshakeBreaks, AcceptConn, ReadAck, ReadAuthAck,
     ReadHello, readAuth, ClientGivesUp, Refuse, ServerGivesUp, ServerGoto

\* Steps of the handshake and of the Conn, beside the tables.
LEMMA BesideTrace ==
  ASSUME TraceInv, Between, UNCHANGED dispatchVars,
         cstep' \in {"ack", "authAck", "done"} => conn = Nil /\ reader[dialing'] = "none"
  PROVE  TraceInv'
<1>1. UNCHANGED <<conn, losing, lossAt, closePc, reader, rframe, streams, requests, hpc, hdone,
                  rctx>>
  BY ZenonT(30) DEF dispatchVars
<1>2. TablesInv'
  BY ZenonT(30), <1>1, TablesFrame DEF TraceInv, Between
<1>3. \A o \in Ops : Current(o)' <=> Current(o)
  BY ZenonT(30), <1>1 DEF Current
<1>4. QED
  BY ZenonT(30), <1>1, <1>2, <1>3, BetweenTrace

\* setConn: nothing runs for a connection whose reader has not started.
LEMMA SetConnTrace ==
  ASSUME HandshakeInv, CallerInv, HandlerInv, TraceInv, setConn
  PROVE  TraceInv'
<1>1. /\ cstep = "done" /\ connMu /\ cstep' = "none" /\ HandlerTypes /\ TablesInv
      /\ UNCHANGED <<losing, lossAt, closePc, rframe, streams, requests, hpc, hdone, rctx, kind>>
  BY ZenonT(30) DEF setConn, HandlerInv, TraceInv
<1>2. /\ Between /\ dialing \in Conns /\ reader \in [Conns -> ReaderPcs]
      /\ conn = Nil /\ reader[dialing] = "none"
  <2>1. UNCHANGED <<sreader, cpc, cstreams, pending, cause, resp, got, gaveUp, flight, leader,
                    kind, out, crecv, closing>>
    BY ZenonT(30) DEF setConn, callerVars
  <2>2. UNCHANGED <<toClient, toServer, rframe, hpc, reply, hdone, rctx, hout>>
    BY ZenonT(30) DEF setConn, wires
  <2>3. QED
    BY ZenonT(30), <1>1, <2>1, <2>2, DialingKnown
       DEF Between, CallerInv, HandlerTypes, TablesInv, ConnInv
<1>3. ASSUME UNCHANGED <<conn, reader>> PROVE TraceInv'
  <2>1. TablesInv'
    BY ZenonT(30), <1>1, <1>3, TablesFrame
  <2>2. QED
    BY ZenonT(30), <1>2, <1>3, <2>1, BetweenTrace DEF Current
<1>4. ASSUME ~clientClosed, conn' = dialing, reader' = [reader EXCEPT ![dialing] = "read"]
      PROVE  TraceInv'
  <2>1. TablesInv'
    BY ZenonT(30), <1>1, <1>2, <1>4, ConnSet
  <2>2. ASSUME NEW o \in Ops, Current(o)' \/ reader'[ConnOf[o]] = "none"
        PROVE  Current(o) \/ reader[ConnOf[o]] = "none"
    <3>1. ConnOf[o] \in Conns
      BY ZenonT(30), LinkAssumption
    <3>2. QED
      BY ZenonT(30), <1>2, <1>4, <2>2, <3>1 DEF Current
  <2>3. QED
    BY ZenonT(30), <1>2, <2>1, <2>2, BetweenTrace
<1>5. QED
  BY ZenonT(30), <1>3, <1>4 DEF setConn, ReaderGoto

-----------------------------------------------------------------------------
(***************************************************************************)
(* Where a response comes from: a handler that has returned it.            *)
(***************************************************************************)

\* The handler of the operation has returned a response, and written it.
Replied(o) == hpc[o] \in {"finish", "untrack", "over"} /\ reply[o] = "response"

Replies(o) == Has(toServer[ConnOf[o]], o, {"response"})

\* A follower gets what its leader got; a leader follows nobody.
Genuine(o) ==
  /\ Replies(o) \/ resp[o] = "response" => Replied(o)
  /\ got[o] = "response" => Replied(o) \/ (leader[o] # Nil /\ Replied(leader[o]))
  /\ leader[o] # Nil => ConnOf[leader[o]] = ConnOf[o] /\ cpc[o] \in {"follow", "over"}

GenuineInv == \A o \in Ops : Genuine(o)

\* A response that a call returns was returned and written by the handler of
\* that call on that connection, or of the call whose flight it shared.
ResponseGenuine ==
  \A o \in Ops : got[o] = "response" =>
    \E p \in {o, leader[o]} \cap Ops : ConnOf[p] = ConnOf[o] /\ Replied(p)

\* What a step of the callers gives to whom.
Gains(o) ==
  /\ resp'[o] = "response" => resp[o] = "response" \/ Replies(o)
  /\ got'[o] = "response" =>
       \/ got[o] = "response" \/ resp[o] = "response"
       \/ /\ cpc[o] = "follow" /\ leader[o] \in Ops
          /\ cpc[leader[o]] = "publish" /\ got[leader[o]] = "response"
  /\ \/ leader'[o] = leader[o]
     \/ /\ cpc[o] = "idle" /\ cpc'[o] = "follow"
        /\ leader'[o] \in Ops /\ ConnOf[leader'[o]] = ConnOf[o]
  /\ cpc[o] \in {"follow", "over"} => cpc'[o] \in {"follow", "over"}

\* A step of one operation, which may return its result.
Acts(o) ==
  /\ \A p \in Ops \ {o} : cpc'[p] = cpc[p] /\ got'[p] = got[p] /\ resp'[p] = resp[p]
  /\ resp'[o] \in {resp[o], "empty"} /\ got'[o] \in {got[o], resp[o], "error"}
  /\ leader' = leader /\ (cpc[o] \in {"follow", "over"} => cpc'[o] \in {"follow", "over"})

\* It gives nothing to others.
LEMMA ActsGain ==
  ASSUME NEW o \in Ops, Acts(o)
  PROVE  \A p \in Ops : Gains(p)
<1>1. Gains(o)
  BY ZenonT(30) DEF Acts, Gains
<1>2. ASSUME NEW p \in Ops \ {o} PROVE Gains(p)
  BY ZenonT(30) DEF Acts, Gains
<1>3. QED
  BY ZenonT(30), <1>1, <1>2

\* One case per action.
LEMMA CallersGain ==
  ASSUME CallerTypes, CallsInv, AnswersInv, CallerStep
  PROVE  \A p \in Ops : Gains(p)
<1>0. /\ cpc \in [Ops -> CallPcs] /\ kind \in [Ops -> Kinds]
      /\ resp \in [Ops -> {"empty", "response", "error"}]
      /\ got \in [Ops -> {"none", "response", "error"}]
      /\ leader \in [Ops -> Ops \cup {Nil}] /\ flight \in [Conns -> Ops \cup {Nil}]
  BY ZenonT(30) DEF CallerTypes, CallsInv, CallTypes
<1>1. ASSUME NEW o \in Ops, NEW k \in Kinds, Begin(o, k) PROVE \A p \in Ops : Gains(p)
  <2>1. PICK c \in Conns : c = ConnOf[o]
    BY ZenonT(30), LinkAssumption
  <2>2. /\ cpc[o] = "idle" /\ UNCHANGED <<resp, got>>
        /\ \A p \in Ops \ {o} : cpc'[p] = cpc[p]
        /\ \/ leader' = leader
           \/ /\ flight[c] # Nil /\ cpc'[o] = "follow"
              /\ leader' = [leader EXCEPT ![o] = flight[c]]
    BY ZenonT(30), <1>0, <1>1, <2>1 DEF Begin, Goto
  <2>3. flight[c] # Nil => flight[c] \in Ops /\ ConnOf[flight[c]] = ConnOf[o]
    <3>1. flight[c] # Nil => flight[c] \in Ops
      BY ZenonT(30), <1>0
    <3>2. flight[c] # Nil => ConnOf[flight[c]] = c
      BY ZenonT(30) DEF CallsInv, FlightOK
    <3>3. QED
      BY ZenonT(30), <2>1, <3>1, <3>2
  <2>4. Gains(o)
    BY ZenonT(30), <1>0, <2>2, <2>3 DEF Gains
  <2>5. ASSUME NEW p \in Ops \ {o} PROVE Gains(p)
    BY ZenonT(30), <1>0, <2>2 DEF Gains
  <2>6. QED
    BY ZenonT(30), <2>4, <2>5
<1>2. ASSUME NEW o \in Ops,
             \/ \E next \in {"wait", "open", "over"} : WritesFirst(o, next)
             \/ addPending(o) \/ addStream(o)
      PROVE  Acts(o)
  <2>1. ASSUME NEW next \in {"wait", "open", "over"}, WritesFirst(o, next) PROVE Acts(o)
    BY ZenonT(30), <1>0, <2>1 DEF WritesFirst, WriteFirst, Return, Goto, Acts
  <2>2. CASE addPending(o) \/ addStream(o)
    BY ZenonT(30), <1>0, <2>2 DEF addPending, addStream, Return, Goto, Acts
  <2>3. QED
    BY ZenonT(30), <1>2, <2>1, <2>2
<1>3. ASSUME NEW o \in Ops, Receive(o) \/ invokeAsyncHandler(o) PROVE Acts(o)
  BY ZenonT(30), <1>0, <1>3 DEF Receive, invokeAsyncHandler, Return, Goto, Acts
<1>4. ASSUME NEW o \in Ops, SeesClosed(o) \/ CallGivesUp(o) PROVE Acts(o)
  BY ZenonT(30), <1>0, <1>4 DEF SeesClosed, CallGivesUp, Return, Goto, Acts
<1>5. ASSUME NEW o \in Ops, FollowerGivesUp(o) \/ Land(o) PROVE Acts(o)
  BY ZenonT(30), <1>0, <1>5 DEF FollowerGivesUp, Land, Goto, Acts
<1>6. ASSUME NEW o \in Ops, Publish(o), NEW p \in Ops PROVE Gains(p)
  <2>1. /\ cpc[o] = "publish" /\ UNCHANGED <<resp, leader>>
        /\ cpc'[p] \in {cpc[p], "over"}
        /\ got'[p] = got[p] \/ (cpc[p] = "follow" /\ leader[p] = o /\ got'[p] = got[o])
    BY ZenonT(30), <1>0, <1>6 DEF Publish
  <2>2. QED
    BY ZenonT(30), <2>1 DEF Gains
<1>7. ASSUME NEW o \in Ops, CloseStart(o) \/ EndSent(o) PROVE Acts(o)
  BY ZenonT(30), <1>0, <1>7 DEF CloseStart, EndSent, Return, Goto, Acts
<1>8. ASSUME NEW o \in Ops, WriteEnd(o) \/ WriteOut(o) PROVE Acts(o)
  BY ZenonT(30), <1>0, <1>8 DEF WriteEnd, WriteOut, Goto, Acts
<1>9. ASSUME NEW o \in Ops, Await(o) \/ Recheck(o) PROVE Acts(o)
  BY ZenonT(30), <1>0, <1>9 DEF Await, Recheck, Return, Goto, Acts
<1>10. ASSUME NEW o \in Ops, CancelHandle(o) \/ StreamGivesUp(o) PROVE Acts(o)
  BY ZenonT(30), <1>0, <1>10 DEF CancelHandle, StreamGivesUp, Acts
<1>11. ASSUME NEW k \in Conns, ReadFrame(k), NEW p \in Ops PROVE Gains(p)
  <2>1. PICK f \in AnswerSet : f = Head(toServer[k]) /\ ConnOf[f.op] = k /\ f.op \in Ops
    BY ZenonT(30), <1>11, NextAnswer DEF ReadFrame, AnswerOK, AnswerSet
  <2>2. f.type = "response" => Has(toServer[k], f.op, {"response"})
    BY ZenonT(30), <1>11, <2>1, TailHas DEF ReadFrame, AnswersInv
  <2>3. /\ UNCHANGED <<got, leader, cpc>>
        /\ resp' \in {resp, [resp EXCEPT ![f.op] = "error"]} \/ f.type = "response"
        /\ f.type = "response" => resp' \in {resp, [resp EXCEPT ![f.op] = "response"]}
    <3>1. UNCHANGED <<got, leader, cpc>>
      BY ZenonT(30), <1>11 DEF ReadFrame
    <3>2. \/ f.type = "response" /\ complete(f.op, "response")
          \/ f.type = "error" /\ complete(f.op, "error")
          \/ f.type \in {"cancel", "end"} /\ resp' = resp
      BY ZenonT(30), <1>11, <2>1 DEF ReadFrame
    <3>3. ASSUME NEW what, complete(f.op, what)
          PROVE  resp' \in {resp, [resp EXCEPT ![f.op] = what]}
      BY ZenonT(30), <1>0, <2>1, <3>3 DEF complete
    <3>4. QED
      BY ZenonT(30), <3>1, <3>2, <3>3
  <2>4. QED
    BY ZenonT(30), <1>0, <2>1, <2>2, <2>3 DEF Gains, Replies
<1>12. ASSUME NEW k \in Conns, ReadRest(k) \/ CloseStreams(k) \/ ClosePending(k),
              NEW p \in Ops
       PROVE  Gains(p)
  <2>1. UNCHANGED <<got, leader, cpc>> /\ resp'[p] \in {resp[p], "error"}
    BY ZenonT(30), <1>0, <1>12 DEF ReadRest, CloseStreams, ClosePending
  <2>2. QED
    BY ZenonT(30), <2>1 DEF Gains
<1>13. QED
  BY ZenonT(30), <1>0, <1>1, <1>2, <1>3, <1>4, <1>5, <1>6, <1>7, <1>8, <1>9, <1>10, <1>11,
     <1>12, ActsGain, CallerCases

\* The callers pass on what is genuine.
LEMMA GenuineCallers ==
  ASSUME CallerTypes, CallsInv, AnswersInv, GenuineInv, CallerStep, UNCHANGED <<hpc, reply>>
  PROVE  GenuineInv'
<1>1. kind \in [Ops -> Kinds]
  BY ZenonT(30) DEF CallerTypes
<1> SUFFICES ASSUME NEW o \in Ops PROVE Genuine(o)'
  BY ZenonT(30) DEF GenuineInv
<1>2. /\ Gains(o) /\ Genuine(o) /\ ConnOf[o] \in Conns /\ Nil \notin Ops
      /\ cpc[o] = "idle" => got[o] = "none"
  <2>1. cpc[o] = "idle" => got[o] = "none"
    BY ZenonT(30) DEF CallsInv, StreamOK, Early
  <2>2. QED
    BY ZenonT(30), <2>1, CallersGain, LinkAssumption DEF GenuineInv
<1>3. \A p : Replied(p)' <=> Replied(p)
  BY ZenonT(30) DEF Replied
<1>4. Replies(o)' => Replies(o)
  <2>1. toServer[ConnOf[o]] \in Seq(AnswerSet) /\ toServer \in [Conns -> Seq(AnswerSet)]
    BY ZenonT(30), <1>2 DEF AnswersInv
  <2>2. \/ toServer'[ConnOf[o]] = toServer[ConnOf[o]]
        \/ toServer[ConnOf[o]] # <<>> /\ toServer'[ConnOf[o]] = Tail(toServer[ConnOf[o]])
    BY ZenonT(30), <1>1, <1>2, <2>1, AnswersTaken
  <2>3. QED
    BY ZenonT(30), <2>1, <2>2, TailHas DEF Replies
<1>5. Replies(o)' \/ resp'[o] = "response" => Replied(o)'
  BY ZenonT(30), <1>2, <1>3, <1>4 DEF Gains, Genuine
<1>6. ASSUME got'[o] = "response"
      PROVE  Replied(o) \/ (leader'[o] # Nil /\ Replied(leader'[o]))
  <2>1. ASSUME leader[o] \in Ops, cpc[leader[o]] = "publish", got[leader[o]] = "response"
        PROVE  Replied(leader[o])
    BY ZenonT(30), <2>1 DEF GenuineInv, Genuine
  <2>2. cpc[o] # "idle" => leader'[o] = leader[o]
    BY ZenonT(30), <1>2 DEF Gains
  <2>3. QED
    BY ZenonT(30), <1>2, <1>6, <2>1, <2>2 DEF Gains, Genuine
<1>7. leader'[o] # Nil => ConnOf[leader'[o]] = ConnOf[o] /\ cpc'[o] \in {"follow", "over"}
  BY ZenonT(30), <1>2 DEF Gains, Genuine
<1>8. QED
  BY ZenonT(30), <1>3, <1>5, <1>6, <1>7 DEF Genuine

\* A handler is started from nothing, and none is forgotten.
RunsOnce(o) == hpc'[o] # hpc[o] /\ hpc'[o] \in {"none", "run"} => hpc[o] = "none"

\* Once it has started, no frame that would start it is left.
LEMMA AdvanceRunsOnce ==
  ASSUME OrderInv, Advance, NEW o \in Ops
  PROVE  RunsOnce(o)
<1>1. Moves(o) /\ (hpc[o] # "none" => ~Coming(o, First))
  BY ZenonT(30) DEF Advance, OrderInv
<1>2. QED
  BY ZenonT(30), <1>1 DEF Moves, RunsOnce, Past, Coming

\* What handlers write: a response only as they return it.
Writes ==
  \/ toServer' = toServer
  \/ \E o \in Ops, type \in AnswerTypes :
       SendToServer(type, o) /\ (type = "response" => Replied(o)')

\* A reply stays what it is once it is written.
Stays(o) ==
  /\ hpc[o] \in {"finish", "untrack", "over"} =>
       hpc'[o] \in {"finish", "untrack", "over"} \/ (hpc'[o] = "run" /\ hpc[o] # "run")
  /\ hpc[o] \in {"finish", "untrack", "over"} => reply'[o] = reply[o]

\* One case per action.
LEMMA HandlersWrite ==
  ASSUME HandlerTypes, RepliesInv, HeldFits, DispatchStep
  PROVE  Writes /\ \A o \in Ops : Stays(o)
<1>0. /\ hpc \in [Ops -> HandlerPcs] /\ reply \in [Ops -> {"none", "response", "error", "end"}]
      /\ hout \in [Ops -> {"none", "cancel", "error"}]
  BY ZenonT(30) DEF HandlerTypes, RepliesInv
<1>1. CASE UNCHANGED <<hpc, reply, toServer>>
  BY ZenonT(30), <1>1 DEF Writes, Stays
<1>2. ASSUME LossStreams \/ LossRequests \/ PingTimeout \/ Close \/ CloseConn
                \/ ClientCloseStreams \/ CloseRequests
      PROVE  UNCHANGED <<hpc, reply, toServer>>
  BY ZenonT(30), <1>2 DEF LossStreams, LossRequests, PingTimeout, Close, CloseConn,
     ClientCloseStreams, CloseRequests, wires
<1>3. ASSUME NEW k \in Conns,
             \/ ClientReads(k) \/ ReaderEnds(k) \/ startServerStream(k)
             \/ startClientStream(k) \/ startBidiStream(k) \/ deliverStreamFrame(k) \/ cancel(k)
      PROVE  UNCHANGED <<hpc, reply, toServer>>
  BY ZenonT(30), <1>3 DEF ClientReads, ReaderEnds, startServerStream, startClientStream,
     startBidiStream, configure, deliverStreamFrame, cancel, wires
<1>4. ASSUME NEW k \in Conns, startRequest(k) \/ startNotify(k) \/ trackStream(k)
      PROVE  Writes /\ \A o \in Ops : Stays(o)
  <2>1. /\ UNCHANGED <<reply, toServer>>
        /\ hpc' = hpc \/ \E p : hpc' = [hpc EXCEPT ![p] = "run"]
    BY ZenonT(30), <1>4 DEF startRequest, startNotify, trackStream, trackRequest, wires
  <2>2. \A o \in Ops : hpc'[o] \in {hpc[o], "run"}
    BY ZenonT(30), <1>0, <2>1
  <2>3. QED
    BY ZenonT(30), <2>1, <2>2 DEF Writes, Stays
<1>5. ASSUME NEW k \in Conns, ClientAddStream(k) PROVE Writes /\ \A o \in Ops : Stays(o)
  <2>1. rframe[k].op \in Ops
    BY ZenonT(30), <1>5 DEF ClientAddStream, HeldFits, Holding, FrameSet
  <2>2. /\ UNCHANGED <<hpc, reply>>
        /\ toServer' = toServer \/ SendToServer("error", rframe[k].op)
    BY ZenonT(30), <1>5 DEF ClientAddStream, wires
  <2>3. QED
    BY ZenonT(30), <2>1, <2>2 DEF Writes, Stays, AnswerTypes
<1>6. ASSUME NEW o \in Ops, \/ HandlerReturns(o) \/ GrantFails(o) \/ HandlerFinish(o)
                            \/ untrackRequest(o) \/ watchContext(o)
      PROVE  Writes /\ \A p \in Ops : Stays(p)
  <2>1. toServer' = toServer
    BY ZenonT(30), <1>6 DEF HandlerReturns, GrantFails, HandlerFinish, untrackRequest,
       watchContext, wires
  <2>2. ASSUME HandlerReturns(o), NEW p \in Ops PROVE Stays(p)
    BY ZenonT(30), <1>0, <2>2 DEF HandlerReturns, HandlerGoto, Stays
  <2>3. ASSUME GrantFails(o) \/ HandlerFinish(o), NEW p \in Ops PROVE Stays(p)
    BY ZenonT(30), <1>0, <2>3 DEF GrantFails, HandlerFinish, HandlerGoto, Stays
  <2>4. ASSUME untrackRequest(o) \/ watchContext(o), NEW p \in Ops PROVE Stays(p)
    BY ZenonT(30), <1>0, <2>4 DEF untrackRequest, watchContext, HandlerGoto, Stays
  <2>5. QED
    BY ZenonT(30), <1>6, <2>1, <2>2, <2>3, <2>4 DEF Writes
<1>7. ASSUME NEW o \in Ops, HandlerReplies(o) PROVE Writes /\ \A p \in Ops : Stays(p)
  <2>1. ASSUME NEW p \in Ops PROVE Stays(p)
    BY ZenonT(30), <1>0, <1>7 DEF HandlerReplies, HandlerGoto, Stays
  <2>2. \/ toServer' = toServer
        \/ SendToServer(reply[o], o) /\ hpc'[o] = "finish" /\ reply'[o] = reply[o]
    BY ZenonT(30), <1>0, <1>7 DEF HandlerReplies, HandlerWrite, HandlerGoto, wires
  <2>3. reply[o] \in AnswerTypes
    BY ZenonT(30), <1>0, <1>7 DEF HandlerReplies, RepliesInv, AnswerTypes
  <2>4. QED
    BY ZenonT(30), <2>1, <2>2, <2>3 DEF Writes, Replied
<1>8. ASSUME NEW o \in Ops, HandlerCloseSend(o) PROVE Writes /\ \A p \in Ops : Stays(p)
  <2>1. ASSUME NEW p \in Ops PROVE Stays(p)
    BY ZenonT(30), <1>0, <1>8 DEF HandlerCloseSend, HandlerGoto, Stays
  <2>2. toServer' = toServer \/ SendToServer("end", o)
    BY ZenonT(30), <1>8 DEF HandlerCloseSend, wires
  <2>3. QED
    BY ZenonT(30), <2>1, <2>2 DEF Writes, AnswerTypes
<1>9. ASSUME NEW o \in Ops, HandlerOut(o) PROVE Writes /\ \A p \in Ops : Stays(p)
  <2>1. UNCHANGED <<hpc, reply>> /\ (toServer' = toServer \/ SendToServer(hout[o], o))
    BY ZenonT(30), <1>9 DEF HandlerOut, HandlerWrite, wires
  <2>2. hout[o] \in {"cancel", "error"}
    BY ZenonT(30), <1>0, <1>9 DEF HandlerOut
  <2>3. QED
    BY ZenonT(30), <2>1, <2>2 DEF Writes, Stays, AnswerTypes
<1>10. QED
  BY ZenonT(30), <1>1, <1>2, <1>3, <1>4, <1>5, <1>6, <1>7, <1>8, <1>9
     DEF DispatchStep, ReaderStep

\* The dialing side sends what is genuine.
LEMMA GenuineHandlers ==
  ASSUME AnswersInv, GenuineInv, Writes,
         \A o \in Ops : Stays(o) /\ RunsOnce(o),
         leader \in [Ops -> Ops \cup {Nil}], UNCHANGED <<resp, got, leader, cpc>>
  PROVE  GenuineInv'
<1>1. ASSUME NEW o \in Ops, Replied(o) PROVE Replied(o)'
  BY ZenonT(30), <1>1 DEF Replied, Stays, RunsOnce
<1> SUFFICES ASSUME NEW o \in Ops PROVE Genuine(o)'
  BY ZenonT(30) DEF GenuineInv
<1>2. Genuine(o) /\ ConnOf[o] \in Conns
  BY ZenonT(30), LinkAssumption DEF GenuineInv
<1>3. Replies(o)' => Replies(o) \/ Replied(o)'
  <2>1. CASE toServer' = toServer
    BY ZenonT(30), <2>1 DEF Replies
  <2>2. ASSUME NEW p \in Ops, NEW type \in AnswerTypes, SendToServer(type, p),
               type = "response" => Replied(p)'
        PROVE  Replies(o)' => Replies(o) \/ Replied(o)'
    <3>1. PICK f \in AnswerSet : f = Frame(type, p) /\ f.op = p /\ f.type = type
      BY ZenonT(30), FrameFields
    <3>2. CASE ConnOf[p] = ConnOf[o]
      <4>1. /\ toServer'[ConnOf[o]] = Append(toServer[ConnOf[o]], f)
            /\ toServer[ConnOf[o]] \in Seq(AnswerSet)
        BY ZenonT(30), <1>2, <2>2, <3>1, <3>2 DEF SendToServer, AnswersInv
      <4>2. Has(Append(toServer[ConnOf[o]], f), o, {"response"}) <=>
              Has(toServer[ConnOf[o]], o, {"response"}) \/ (f.op = o /\ f.type \in {"response"})
        BY ZenonT(30), <4>1, AppendHas
      <4>3. QED
        BY ZenonT(30), <2>2, <3>1, <4>1, <4>2 DEF Replies
    <3>3. CASE ConnOf[p] # ConnOf[o]
      <4>1. toServer'[ConnOf[o]] = toServer[ConnOf[o]]
        BY ZenonT(30), <1>2, <2>2, <3>3 DEF SendToServer, AnswersInv
      <4>2. QED
        BY ZenonT(30), <4>1 DEF Replies
    <3>4. QED
      BY ZenonT(30), <3>2, <3>3
  <2>3. QED
    BY ZenonT(30), <2>1, <2>2 DEF Writes
<1>4. leader[o] # Nil => leader[o] \in Ops
  BY ZenonT(30)
<1>5. QED
  BY ZenonT(30), <1>1, <1>2, <1>3, <1>4 DEF Genuine

-----------------------------------------------------------------------------
\* Before the first connection nothing is agreed on and nothing runs.
LEMMA InitInv == ASSUME Init PROVE SInv
<1> USE HandshakeAssumption, LinkAssumption DEF Init, LinkInit, HandshakeInit, CallerInit,
   DispatchInit
<1>1. HandshakeInv
  BY ZenonT(30) DEF HandshakeInv, ErrorInv, AtNone
<1>2. CallerInv
  BY DEF CallerInv, CallerTypes, CallerBegun, DialInv, ClosePcs, CallPcs, Kinds, Paced
<1>3. HandlerTypes
  BY ZenonT(30) DEF HandlerTypes, ReaderPcs, HandlerPcs
<1>4. HandlerBegun /\ CreditInv /\ FlowAgrees
  BY ZenonT(30) DEF HandlerBegun, CreditInv, FlowAgrees, Holding, Running
<1>5. CallsInv
  BY ZenonT(30) DEF CallsInv, CallTypes, FlightOK, StreamOK, PendingOK, ResponseOK,
     ReaderOK, Causes, Done, Early, Stream, Unary
<1>6. AnswersInv /\ FreeInv
  BY DEF AnswersInv, FreeInv
<1>7. TablesInv
  <2>1. TableTypes /\ HeldInv /\ ConnInv
    BY ZenonT(30) DEF TableTypes, HeldInv, ConnInv, Holding
  <2>2. ASSUME NEW o \in Ops PROVE Tabled(o)
    <3>1. hpc[o] = "none" /\ ConnOf[o] \in Conns /\ reader[ConnOf[o]] = "none"
      BY ZenonT(30)
    <3>2. streams[IdOf[o]] # o
      BY ZenonT(30) DEF Ids
    <3>3. QED
      BY ZenonT(30), <3>1, <3>2 DEF Tabled, Tracking, Running
  <2>3. QED
    BY ZenonT(30), <2>1, <2>2 DEF TablesInv
<1>8. \A k \in Conns : \A o, types : ~Has(toClient[k], o, types) /\ ~Has(toServer[k], o, types)
  BY DEF Has
<1>9. \A o \in Ops : \A types : ~Coming(o, types)
  BY ZenonT(30), <1>8 DEF Coming, Holds
<1>10. RepliesInv
  BY ZenonT(30) DEF RepliesInv
<1>11. OrderInv
  <2>1. \A k \in Conns : Ordered(toClient[k])
    BY DEF Ordered
  <2>2. QED
    BY ZenonT(30), <1>8, <1>9, <2>1 DEF OrderInv
<1>12. \A o \in Ops : Accounted(o)
  BY ZenonT(30), <1>8, <1>9 DEF Accounted, Received, Left, Done, Unary
<1>13. QED
  BY ZenonT(30), <1>1, <1>2, <1>3, <1>4, <1>5, <1>6, <1>7, <1>10, <1>11, <1>12
     DEF SInv, HandlerInv, TraceInv

\* The kinds of step of a session.
LEMMA SessionCases ==
  ASSUME [Next]_vars
  PROVE  \/ \E k \in Conns : connectOnce(k) \/ ServerReadFails(k) \/ ClientReadFails(k)
         \/ serveConn \/ setConn
         \/ /\ HandshakeAdvances \/ HandshakeBreaks
            /\ UNCHANGED <<load, dialing, kind, wires, callerVars, dispatchVars>>
         \/ CallerStep /\ UNCHANGED <<load, dialing, handshakeVars, dispatchVars>>
         \/ DispatchStep /\ UNCHANGED <<load, dialing, kind, handshakeVars, callerVars>>
         \/ UNCHANGED vars
  BY ZenonT(30) DEF Next

\* The session's part in a handshake.
LEMMA HandshakeKeeps ==
  ASSUME HandshakeInv, load \in Loads, [Next]_vars
  PROVE  HandshakeInv'
<1>1. ASSUME NEW k \in Conns, connectOnce(k) PROVE HandshakeInv'
  <2>1. PICK s \in load.servers : SendHello(s)
    BY ZenonT(30), <1>1 DEF connectOnce
  <2>2. s \in Servers
    BY ZenonT(30), LinkAssumption DEF LoadType
  <2>3. QED
    BY ZenonT(30), <2>1, <2>2, HandshakeStep
<1>2. CASE serveConn \/ setConn
  BY ZenonT(30), <1>2, HandshakeStep DEF serveConn, setConn, Taken
<1>3. CASE HandshakeAdvances \/ HandshakeBreaks \/ UNCHANGED handshakeVars
  BY ZenonT(30), <1>3, HandshakeStep
<1>4. ASSUME NEW k \in Conns, ServerReadFails(k) \/ ClientReadFails(k)
      PROVE  UNCHANGED handshakeVars
  BY ZenonT(30), <1>4 DEF ServerReadFails, ClientReadFails
<1>5. QED
  BY ZenonT(30), <1>1, <1>2, <1>3, <1>4, SessionCases DEF vars

\* What the other side relies on: one case per kind of step.
LEMMA SessionStep ==
  ASSUME HandshakeInv, CallerInv, HandlerInv, [Next]_vars
  PROVE  CallerInv' /\ HandlerInv'
<1>1. CASE /\ CallerInv' /\ Onward
           /\ UNCHANGED <<reader, rframe, hpc, hflow, conn, connFlowControl>>
  BY ZenonT(30), <1>1, HandlerStays
<1>2. ASSUME NEW k \in Conns, connectOnce(k) PROVE CallerInv' /\ HandlerInv'
  <2>1. PICK s \in load.servers : SendHello(s)
    BY ZenonT(30), <1>2 DEF connectOnce
  <2>2. /\ closing[k] = "free" /\ dialing' = k
        /\ UNCHANGED <<closing, sflow, cpc, kind, out, cstreams, toClient>>
        /\ UNCHANGED <<reader, rframe, hpc, hflow, conn, connFlowControl>>
    BY ZenonT(30), <1>2 DEF connectOnce, wires, callerVars, dispatchVars
  <2>3. QED
    BY ZenonT(30), <1>1, <2>1, <2>2, CallerDial
<1>3. CASE serveConn
  <2>1. /\ AcceptConn /\ closing' = [closing EXCEPT ![dialing] = "open"]
        /\ sflow' = IF sgot.credit THEN sflow \cup {dialing} ELSE sflow
        /\ UNCHANGED <<cpc, kind, out, cstreams, toClient>> /\ UNCHANGED dialing
        /\ UNCHANGED <<reader, rframe, hpc, hflow, conn, connFlowControl>>
    BY ZenonT(30), <1>3 DEF serveConn, wires, dispatchVars
  <2>2. QED
    BY ZenonT(30), <1>1, <2>1, CallerServe
<1>4. ASSUME NEW k \in Conns, ServerReadFails(k) PROVE CallerInv' /\ HandlerInv'
  <2>1. /\ BeginClose(k) /\ closing[k] = "open"
        /\ UNCHANGED <<sflow, cpc, kind, out, cstreams, toClient>>
        /\ UNCHANGED <<dialing, sstep, sgot>>
        /\ UNCHANGED <<reader, rframe, hpc, hflow, conn, connFlowControl>>
    BY ZenonT(30), <1>4 DEF ServerReadFails, wires, handshakeVars, dispatchVars
  <2>2. QED
    BY ZenonT(30), <1>1, <2>1, CallerClose
<1>5. CASE /\ HandshakeAdvances \/ HandshakeBreaks
           /\ UNCHANGED <<load, dialing, kind, wires, callerVars, dispatchVars>>
  <2>1. /\ UNCHANGED <<closing, sflow, cpc, kind, out, cstreams, toClient>>
        /\ UNCHANGED <<reader, rframe, hpc, hflow, conn, connFlowControl>>
    BY ZenonT(30), <1>5 DEF wires, callerVars, dispatchVars
  <2>2. QED
    BY ZenonT(30), <1>1, <1>5, <2>1, CallerHandshake
<1>6. CASE CallerStep /\ UNCHANGED <<load, dialing, handshakeVars, dispatchVars>>
  <2>1. /\ UNCHANGED <<dialing, sstep, sgot>>
        /\ UNCHANGED <<reader, rframe, hpc, hflow, conn, connFlowControl>>
    BY ZenonT(30), <1>6 DEF handshakeVars, dispatchVars
  <2>2. QED
    BY ZenonT(30), <1>1, <1>6, <2>1, CallerKeeps
<1>7. CASE setConn
  <2>1. /\ UNCHANGED <<closing, sflow, cpc, kind, out, cstreams, toClient>>
        /\ UNCHANGED <<dialing, sstep, sgot>>
    BY ZenonT(30), <1>7 DEF setConn, wires, callerVars
  <2>2. QED
    BY ZenonT(30), <1>7, <2>1, CallerSame, HandlerSetConn
<1>8. ASSUME NEW k \in Conns, ClientReadFails(k) PROVE CallerInv' /\ HandlerInv'
  <2>1. Calm
    BY ZenonT(30), <1>8 DEF ClientReadFails, ReaderGoto, Lose, Calm, HandlerInv,
       HandlerTypes, ReaderPcs, Holding, Running, wires
  <2>2. /\ UNCHANGED <<closing, sflow, cpc, kind, out, cstreams, toClient>>
        /\ UNCHANGED <<dialing, sstep, sgot>>
    BY ZenonT(30), <1>8 DEF ClientReadFails, wires, callerVars, handshakeVars
  <2>3. QED
    BY ZenonT(30), <2>1, <2>2, CallerSame, HandlerCalm
<1>9. CASE DispatchStep /\ UNCHANGED <<load, dialing, kind, handshakeVars, callerVars>>
  <2>1. UNCHANGED <<closing, sflow, cpc, kind, out, cstreams, dialing, sstep, sgot>>
    BY ZenonT(30), <1>9 DEF handshakeVars, callerVars
  <2>2. CASE CalmStep
    <3>1. Calm
      BY ZenonT(30), <2>2, CalmFacts DEF HandlerInv
    <3>2. QED
      BY ZenonT(30), <2>1, <3>1, CallerSame, HandlerCalm DEF Calm
  <2>3. ASSUME NEW k \in Conns, ClientReads(k) PROVE CallerInv' /\ HandlerInv'
    <3>1. /\ toClient[k] # <<>> /\ toClient' = [toClient EXCEPT ![k] = Tail(toClient[k])]
          /\ UNCHANGED <<conn, connFlowControl>>
      BY ZenonT(30), <2>3 DEF ClientReads
    <3>2. CallerInv' /\ FrameOK(k, Head(toClient[k])) /\ UNCHANGED quietVars
      BY ZenonT(30), <2>1, <3>1, CallerRead DEF quietVars
    <3>3. QED
      BY ZenonT(30), <2>3, <3>2, HandlerReads
  <2>4. ASSUME NEW k \in Conns,
               \/ startRequest(k) \/ startNotify(k) \/ trackStream(k)
               \/ \E stream \in Stream : configure(k, stream)
        PROVE  CallerInv' /\ HandlerInv'
    <3>1. UNCHANGED quietVars /\ UNCHANGED toClient
      BY ZenonT(30), <2>1, <2>4 DEF quietVars, wires, startRequest, startNotify,
         trackStream, configure
    <3>2. QED
      BY ZenonT(30), <2>1, <2>4, <3>1, CallerSame, HandlerStarts, HandlerConfigures
  <2>5. QED
    BY ZenonT(30), <1>9, <2>2, <2>3, <2>4 DEF DispatchStep, CalmStep, ReaderStep,
       startServerStream, startClientStream, startBidiStream, Stream
<1>10. CASE UNCHANGED vars
  <2>1. /\ UNCHANGED <<closing, sflow, cpc, kind, out, cstreams, toClient>>
        /\ UNCHANGED <<dialing, sstep, sgot>>
        /\ UNCHANGED <<reader, rframe, hpc, hflow, conn, connFlowControl>>
    BY ZenonT(30), <1>10 DEF vars, wires, handshakeVars, callerVars, dispatchVars
  <2>2. QED
    BY ZenonT(30), <1>1, <2>1, CallerSame
<1>11. QED
  BY ZenonT(30), <1>2, <1>3, <1>4, <1>5, <1>6, <1>7, <1>8, <1>9, <1>10, SessionCases

\* What becomes of an operation: one case per kind of step.
LEMMA TraceStep ==
  ASSUME HandshakeInv, CallerInv, HandlerInv, TraceInv, [Next]_vars
  PROVE  TraceInv'
<1>0. cstep \in {"ack", "authAck", "done"} => conn = Nil /\ reader[dialing] = "none"
  BY ZenonT(30) DEF TraceInv, TablesInv, ConnInv
<1>1. ASSUME NEW k \in Conns, connectOnce(k) PROVE TraceInv'
  <2>1. conn = Nil /\ closing[k] = "free" /\ dialing' = k /\ UNCHANGED dispatchVars
    BY ZenonT(30), <1>1 DEF connectOnce
  <2>2. reader[k] = "none"
    BY ZenonT(30), <2>1 DEF HandlerInv, CreditInv
  <2>3. Between
    BY ZenonT(30), <1>1 DEF connectOnce, callerVars, dispatchVars, wires, Between
  <2>4. QED
    BY ZenonT(30), <2>1, <2>2, <2>3, BesideTrace
<1>2. CASE serveConn
  <2>1. AcceptConn /\ UNCHANGED dialing /\ UNCHANGED dispatchVars
    BY ZenonT(30), <1>2 DEF serveConn
  <2>2. dialing \in Conns /\ closing[dialing] = "free" /\ closing \in [Conns -> ClosePcs]
    BY ZenonT(30), <2>1 DEF AcceptConn, CallerInv, CallerTypes, DialInv
  <2>3. Between
    BY ZenonT(30), <1>2, <2>2 DEF serveConn, dispatchVars, wires, Between
  <2>4. QED
    BY ZenonT(30), <1>0, <2>1, <2>3, HandshakeForward, BesideTrace
<1>3. ASSUME NEW k \in Conns, ServerReadFails(k) PROVE TraceInv'
  <2>1. UNCHANGED <<dialing, cstep>> /\ UNCHANGED dispatchVars
    BY ZenonT(30), <1>3 DEF ServerReadFails, handshakeVars
  <2>2. \A j \in Conns : closing'[j] # closing[j] =>
          closing[j] = "open" /\ closing'[j] = "streams"
    BY ZenonT(30), <1>3, ClosesOnce DEF ServerReadFails, Closes, CallerInv, CallerTypes
  <2>3. Between
    BY ZenonT(30), <1>3, <2>2 DEF ServerReadFails, dispatchVars, wires, Between
  <2>4. QED
    BY ZenonT(30), <1>0, <2>1, <2>3, BesideTrace
<1>4. CASE /\ HandshakeAdvances \/ HandshakeBreaks
           /\ UNCHANGED <<load, dialing, kind, wires, callerVars, dispatchVars>>
  <2>1. Between
    BY ZenonT(30), <1>4 DEF callerVars, dispatchVars, wires, Between
  <2>2. QED
    BY ZenonT(30), <1>0, <1>4, <2>1, HandshakeForward, BesideTrace
<1>5. CASE UNCHANGED vars
  <2>1. UNCHANGED <<dialing, cstep>> /\ UNCHANGED dispatchVars
    BY ZenonT(30), <1>5 DEF vars, handshakeVars
  <2>2. Between
    BY ZenonT(30), <1>5 DEF vars, callerVars, dispatchVars, wires, Between
  <2>3. QED
    BY ZenonT(30), <1>0, <2>1, <2>2, BesideTrace
<1>6. QED
  BY ZenonT(30), <1>1, <1>2, <1>3, <1>4, <1>5, SessionCases, SetConnTrace, LossTrace,
     CallersTrace, DispatchTrace

-----------------------------------------------------------------------------
\* The invariant behind the theorems below holds in every state, for any
\* configurations, connections, operations and loads.
THEOREM SessionInductive == Spec => []SInv
<1>1. ASSUME SInv, [Next]_vars PROVE SInv'
  <2>1. load' = load
    BY ZenonT(30), <1>1, SessionCases DEF connectOnce, ServerReadFails, ClientReadFails,
       serveConn, setConn, vars
  <2>2. QED
    BY ZenonT(30), <1>1, <2>1, HandshakeKeeps, SessionStep, TraceStep DEF SInv
<1>2. QED
  BY <1>1, InitInv, PTL DEF Spec

\* clientHandshake succeeds only where serverHandshake has, on the same terms
\* and with the same secret, whatever the two sides are configured with.
THEOREM HandshakesAgree == Spec => []HandshakeAgrees
<1>1. SInv => HandshakeAgrees
  <2> SUFFICES ASSUME SInv, cstep = "done" PROVE HandshakeAgrees
    BY ZenonT(30) DEF HandshakeAgrees
  <2>1. AtDone /\ cgot = Terms /\ sgot = Terms
    BY ZenonT(30) DEF SInv, HandshakeInv, AtNone, AtHello, AtAuth, AtAccept, AtDone,
       AtFailed, Served
  <2>2. QED
    BY ZenonT(30), <2>1 DEF AtDone, Terms, HandshakeAgrees
<1>2. QED
  BY <1>1, SessionInductive, PTL

\* A permanent error has its reason in the configurations: only secrets that
\* differ, or one that is missing, make a client give up for good.
THEOREM RefusalsHaveReason == Spec => []RefusedWithReason
<1>1. SInv => RefusedWithReason
  BY ZenonT(30) DEF SInv, HandshakeInv, ErrorInv, RefusedWithReason, Refusals
<1>2. QED
  BY <1>1, SessionInductive, PTL

\* Cleanup from an old connection finds only its own: whatever IDs are reused,
\* a handler of the current connection stays in the tables while it runs.
THEOREM CleanupsAreLocal == Spec => []CleanupIsLocal
<1>1. SInv => CleanupIsLocal
  BY ZenonT(30), CleanupFollows DEF SInv, TraceInv, CleanupIsLocal
<1>2. QED
  BY <1>1, SessionInductive, PTL

\* Once connectionLost or Close is through, the context of every handler of
\* another connection has ended, and none of its streams is in the table.
THEOREM LossesReach == Spec => []LossReaches
<1>1. SInv => LossReaches
  BY ZenonT(30), CleanupFollows DEF SInv, TraceInv, LossReaches, Settled
<1>2. QED
  BY <1>1, SessionInductive, PTL

\* A handler whose caller is gone has ended or been told to, once the frames
\* of the operation are read: either the caller was answered, or its cancel or
\* error frame came after the frame that started the handler.
THEOREM NoOrphans == Spec => []NoOrphan
<1>1. SInv => NoOrphan
  <2> SUFFICES ASSUME SInv, NEW o \in Ops, NEW k \in Conns, k = ConnOf[o],
                      conn = k, ~closed(k),
                      \/ kind[o] \in Stream /\ Done(o)
                      \/ kind[o] \in Unary /\ cpc[o] = "over",
                      out[o] = "none", rframe[k] # Nil => rframe[k].op # o,
                      \A i \in 1..Len(toClient[k]) : toClient[k][i].op # o,
                      hpc[o] = "run"
               PROVE  o \in rctx \cup hdone
    BY ZenonT(30), LinkAssumption DEF NoOrphan
  <2>1. Accounted(o)
    BY ZenonT(30) DEF SInv, TraceInv
  <2>2. Open(ConnOf[o]) /\ Left(o) /\ Current(o)
    BY ZenonT(30) DEF closed, Open, Left, Current
  <2>3. ~Coming(o, Stops)
    BY ZenonT(30) DEF Coming, Holds, Has
  <2>4. Ended(o)
    BY ZenonT(30), <2>1, <2>2, <2>3 DEF Accounted
  <2>5. QED
    BY ZenonT(30), <2>4 DEF Ended, Past
<1>2. QED
  BY <1>1, SessionInductive, PTL

\* A client stream that ends with a response keeps it for CloseAndRecv: no
\* other outcome takes its place, unless the caller itself gave up.
THEOREM ResponsesKept == Spec => []ResponseKept
<1>1. SInv => ResponseKept
  BY ZenonT(30) DEF SInv, TraceInv, CallsInv, ResponseOK, ResponseKept
<1>2. QED
  BY <1>1, SessionInductive, PTL

\* No follower waits for a flight that is over, and no call or stream waits on
\* a Conn that has closed.
THEOREM NobodyStranded == Spec => []NoStrandedCaller
<1>1. SInv => NoStrandedCaller
  <2> SUFFICES ASSUME SInv, NEW o \in Ops
               PROVE  /\ cpc[o] = "follow" => cpc[leader[o]] \notin {"idle", "over"}
                      /\ cpc[o] \in {"wait", "await"} /\ closing[ConnOf[o]] = "done" =>
                           resp[o] # "empty" \/ Done(o)
    BY ZenonT(30) DEF NoStrandedCaller
  <2>1. FlightOK /\ StreamOK(o) /\ PendingOK(o) /\ Paced(o)
    BY ZenonT(30) DEF SInv, TraceInv, CallsInv, CallerInv, CallerBegun
  <2>2. cpc[o] = "follow" => cpc[leader[o]] \notin {"idle", "over"}
    BY ZenonT(30), <2>1 DEF FlightOK
  <2>3. ASSUME cpc[o] = "wait", closing[ConnOf[o]] = "done" PROVE resp[o] # "empty"
    BY ZenonT(30), <2>1, <2>3 DEF PendingOK, Paced
  <2>4. ASSUME cpc[o] = "await", closing[ConnOf[o]] = "done" PROVE Done(o)
    BY ZenonT(30), <2>1, <2>4 DEF StreamOK, Paced, Stream
  <2>5. QED
    BY ZenonT(30), <2>2, <2>3, <2>4
<1>2. QED
  BY <1>1, SessionInductive, PTL

\* trackRequest starts the handler of an operation once: no frame starts it
\* again, whether it runs, has returned, or was cancelled.
THEOREM HandlersRunOnce == Spec => [][\A o \in Ops : RunsOnce(o)]_vars
<1>1. ASSUME SInv, [Next]_vars PROVE \A o \in Ops : RunsOnce(o)
  <2>1. OrderInv
    BY ZenonT(30), <1>1 DEF SInv, TraceInv
  <2>2. CASE DispatchStep /\ UNCHANGED <<load, dialing, kind, handshakeVars, callerVars>>
    BY ZenonT(30), <1>1, <2>1, <2>2, DispatchAdvances, AdvanceRunsOnce DEF SInv
  <2>3. CASE hpc' = hpc
    BY ZenonT(30), <2>3 DEF RunsOnce
  <2>4. ASSUME NEW k \in Conns, connectOnce(k) \/ ServerReadFails(k) \/ ClientReadFails(k)
        PROVE  hpc' = hpc
    BY ZenonT(30), <2>4 DEF connectOnce, ServerReadFails, ClientReadFails, dispatchVars
  <2>5. CASE serveConn \/ setConn
    BY ZenonT(30), <2>3, <2>5 DEF serveConn, setConn, dispatchVars
  <2>6. QED
    BY ZenonT(30), <1>1, <2>2, <2>3, <2>4, <2>5, SessionCases DEF dispatchVars, vars
<1>2. QED
  BY <1>1, SessionInductive, PTL DEF Spec

\* What is genuine stays so: one case per kind of step.
LEMMA GenuineStep ==
  ASSUME SInv, GenuineInv, [Next]_vars
  PROVE  GenuineInv'
<1>1. CASE UNCHANGED <<hpc, reply, toServer, resp, got, leader, cpc>>
  BY ZenonT(30), <1>1 DEF GenuineInv, Genuine, Replied, Replies
<1>2. ASSUME NEW k \in Conns, connectOnce(k) \/ ServerReadFails(k) \/ ClientReadFails(k)
      PROVE  UNCHANGED <<hpc, reply, toServer, resp, got, leader, cpc>>
  BY ZenonT(30), <1>2 DEF connectOnce, ServerReadFails, ClientReadFails, dispatchVars,
     callerVars, wires
<1>3. ASSUME serveConn \/ setConn
      PROVE  UNCHANGED <<hpc, reply, toServer, resp, got, leader, cpc>>
  BY ZenonT(30), <1>3 DEF serveConn, setConn, dispatchVars, callerVars, wires
<1>4. ASSUME UNCHANGED <<wires, callerVars, dispatchVars>>
      PROVE  UNCHANGED <<hpc, reply, toServer, resp, got, leader, cpc>>
  BY ZenonT(30), <1>4 DEF dispatchVars, callerVars, wires
<1>5. CASE CallerStep /\ UNCHANGED <<load, dialing, handshakeVars, dispatchVars>>
  BY ZenonT(30), <1>5, GenuineCallers DEF SInv, CallerInv, TraceInv, dispatchVars
<1>6. CASE DispatchStep /\ UNCHANGED <<load, dialing, kind, handshakeVars, callerVars>>
  <2>1. Writes /\ \A o \in Ops : Stays(o)
    BY ZenonT(30), <1>6, HandlersWrite, DispatchAdvances DEF SInv, HandlerInv, TraceInv
  <2>2. \A o \in Ops : RunsOnce(o)
    BY ZenonT(30), <1>6, DispatchAdvances, AdvanceRunsOnce DEF SInv, TraceInv
  <2>3. leader \in [Ops -> Ops \cup {Nil}]
    BY ZenonT(30) DEF SInv, TraceInv, CallsInv, CallTypes
  <2>4. QED
    BY ZenonT(30), <1>6, <2>1, <2>2, <2>3, GenuineHandlers DEF SInv, TraceInv, callerVars
<1>7. QED
  BY ZenonT(30), <1>1, <1>2, <1>3, <1>4, <1>5, <1>6, SessionCases DEF vars

\* A call that returns a response returns what a handler of its connection
\* returned and wrote: its own, or that of the flight it shared. With
\* HandlersRunOnce, a call that succeeds was handled, and handled once.
THEOREM ResponsesGenuine == Spec => []ResponseGenuine
<1>1. ASSUME Init PROVE GenuineInv
  <2>1. \A o \in Ops : ConnOf[o] \in Conns /\ leader[o] = Nil /\ got[o] = "none"
                         /\ resp[o] = "empty"
    BY ZenonT(30), <1>1, LinkAssumption DEF Init, CallerInit
  <2>2. \A o \in Ops : ~Replies(o)
    BY <1>1, <2>1 DEF Init, LinkInit, Replies, Has
  <2>3. QED
    BY ZenonT(30), <2>1, <2>2 DEF GenuineInv, Genuine
<1>2. ASSUME SInv, GenuineInv PROVE ResponseGenuine
  <2>1. leader \in [Ops -> Ops \cup {Nil}]
    BY ZenonT(30), <1>2 DEF SInv, TraceInv, CallsInv, CallTypes
  <2>2. ASSUME NEW o \in Ops, got[o] = "response"
        PROVE  \E p \in {o, leader[o]} \cap Ops : ConnOf[p] = ConnOf[o] /\ Replied(p)
    BY ZenonT(30), <1>2, <2>1, <2>2 DEF GenuineInv, Genuine
  <2>3. QED
    BY ZenonT(30), <2>2 DEF ResponseGenuine
<1>3. QED
  BY <1>1, <1>2, GenuineStep, SessionInductive, PTL DEF Spec

\* Both ends of a stream use credit, or neither does, however connections
\* replace one another.
THEOREM StreamsKeepTerms == Spec => []FlowAgrees
<1>1. SInv => FlowAgrees
  BY ZenonT(30) DEF SInv, HandlerInv
<1>2. QED
  BY <1>1, SessionInductive, PTL

=============================================================================
