------------------------------ MODULE Dispatch ------------------------------
(***************************************************************************)
(* The dialing side as a server of requests (client.go): readLoop,         *)
(* startRequest, startNotify, start{Server,Client,Bidi}Stream, the         *)
(* handlers, and what losing or closing the connection does to them.       *)
(*                                                                         *)
(* The tables of a Client are keyed by request ID and outlive connections. *)
(* A frame is looked at in a step of its own after the check that its      *)
(* connection is current, so an old reader may act on a new connection's   *)
(* entries.  connectionLost holds connMu to its end: losing is not Nil.    *)
(***************************************************************************)
EXTENDS Link

VARIABLES
  conn, connFlowControl,
  losing, lossAt,     \* connectionLost: the connection, and its step
  closePc,            \* Client.closeWithError
  reader, rframe,     \* readLoop per connection, and its frame
  streams, requests,  \* tables by request ID
  hpc, reply,         \* the handler of an operation, and what it answers
  hflow,              \* streams that were configured with flow control
  hdone, hsent, hrecv,\* streams that are done, with sendEnded, recvClosed
  rctx,               \* requests whose context has ended
  hout                \* a frame that a finished stream has yet to write

dispatchVars == <<conn, connFlowControl, losing, lossAt, closePc, reader,
                  rframe, streams, requests, hpc, reply, hflow, hdone, hsent, hrecv,
                  rctx, hout>>

Ids == {IdOf[o] : o \in Ops}
connMu == losing = Nil           \* connMu can be taken
clientClosed == closePc # "open"
Current(o) == conn = ConnOf[o]
Running(o) == hpc[o] \in {"run", "write", "finish"}

DispatchInit ==
  /\ conn = Nil /\ connFlowControl = FALSE /\ losing = Nil /\ lossAt = "none"
  /\ closePc = "open"
  /\ reader = [k \in Conns |-> "none"] /\ rframe = [k \in Conns |-> Nil]
  /\ streams = [i \in Ids |-> Nil] /\ requests = [i \in Ids |-> Nil]
  /\ hpc = [o \in Ops |-> "none"] /\ reply = [o \in Ops |-> "none"]
  /\ hflow = {} /\ hdone = {} /\ hsent = {} /\ hrecv = {} /\ rctx = {}
  /\ hout = [o \in Ops |-> "none"]
-----------------------------------------------------------------------------
(***************************************************************************)
(* connectionLost and Client.closeWithError.                               *)
(***************************************************************************)

\* connectionLost up to failStreams, for the current connection only.
Lose(k) ==
  IF conn = k
  THEN /\ conn' = Nil /\ connFlowControl' = FALSE
       /\ losing' = k /\ lossAt' = "streams"
  ELSE UNCHANGED <<conn, connFlowControl, losing, lossAt>>

\* Stream.finish for a set of streams; removeStream takes out no other.
HandlerFinishAll(S) ==
  /\ hdone' = hdone \cup S
  /\ streams' = [i \in Ids |-> IF streams[i] \in S THEN Nil ELSE streams[i]]

\* failStreams: whatever is in the table.
failStreams ==
  /\ hdone' = hdone \cup ({streams[i] : i \in Ids} \ {Nil})
  /\ streams' = [i \in Ids |-> Nil]

cancelRequests ==
  /\ rctx' = rctx \cup ({requests[i] : i \in Ids} \ {Nil})
  /\ requests' = [i \in Ids |-> Nil]

\* The rest of connectionLost.
LossStreams ==
  /\ lossAt = "streams" /\ lossAt' = "requests" /\ failStreams
  /\ UNCHANGED <<conn, connFlowControl, losing, closePc, reader, rframe,
                 requests, hpc, reply, hflow, hsent, hrecv, rctx, hout, wires>>

LossRequests ==
  /\ lossAt = "requests" /\ lossAt' = "none" /\ losing' = Nil /\ cancelRequests
  /\ UNCHANGED <<conn, connFlowControl, closePc, reader, rframe, streams, hpc,
                 reply, hflow, hdone, hsent, hrecv, hout, wires>>

\* The ping loop finds the connection silent.
PingTimeout ==
  /\ conn # Nil /\ connMu /\ May("silence")
  /\ Lose(conn)
  /\ UNCHANGED <<closePc, reader, rframe, streams, requests, hpc, reply, hflow, hdone,
                 hsent, hrecv, rctx, hout, wires>>

\* closeWithError, one mutex after the other.
Close ==
  /\ closePc = "open" /\ May("close")
  /\ closePc' = "conn"
  /\ UNCHANGED <<conn, connFlowControl, losing, lossAt, reader, rframe, streams,
                 requests, hpc, reply, hflow, hdone, hsent, hrecv, rctx, hout, wires>>

CloseConn ==
  /\ closePc = "conn" /\ connMu /\ closePc' = "streams"
  /\ conn' = Nil
  /\ UNCHANGED <<connFlowControl, losing, lossAt, reader, rframe, streams, requests,
                 hpc, reply, hflow, hdone, hsent, hrecv, rctx, hout, wires>>

ClientCloseStreams ==
  /\ closePc = "streams" /\ closePc' = "requests" /\ failStreams
  /\ UNCHANGED <<conn, connFlowControl, losing, lossAt, reader, rframe, requests,
                 hpc, reply, hflow, hsent, hrecv, rctx, hout, wires>>

CloseRequests ==
  /\ closePc = "requests" /\ closePc' = "done" /\ cancelRequests
  /\ UNCHANGED <<conn, connFlowControl, losing, lossAt, reader, rframe, streams,
                 hpc, reply, hflow, hdone, hsent, hrecv, hout, wires>>
-----------------------------------------------------------------------------
(***************************************************************************)
(* readLoop.                                                               *)
(***************************************************************************)

ReaderGoto(k, step) == reader' = [reader EXCEPT ![k] = step]

\* A frame is read and looked at while the connection is the current one.
ClientReads(k) ==
  /\ reader[k] = "read" /\ toClient[k] # <<>> /\ conn = k /\ connMu
  /\ toClient' = [toClient EXCEPT ![k] = Tail(@)]
  /\ ReaderGoto(k, "handle") /\ rframe' = [rframe EXCEPT ![k] = Head(toClient[k])]
  /\ UNCHANGED <<conn, connFlowControl, losing, lossAt, closePc, streams, requests, hpc,
                 reply, hflow, hdone, hsent, hrecv, rctx, hout, toServer>>

\* The reader of a replaced or closed connection ends.
ReaderEnds(k) ==
  /\ reader[k] = "read" /\ conn # k /\ connMu
  /\ ReaderGoto(k, "gone")
  /\ UNCHANGED <<conn, connFlowControl, losing, lossAt, closePc, rframe, streams,
                 requests, hpc, reply, hflow, hdone, hsent, hrecv, rctx, hout, wires>>

\* Mutant of trackRequest: the generation is not compared.
TrackAnyway(k, o) ==
  /\ ReaderGoto(k, "read") /\ rframe' = [rframe EXCEPT ![k] = Nil]
  /\ requests' = [requests EXCEPT ![IdOf[o]] = o]
  /\ hpc' = [hpc EXCEPT ![o] = "run"]
  /\ UNCHANGED <<hdone, streams>>

\* trackRequest, and the start of the handler.  Without it a stream that was
\* added is finished.
trackRequest(k, o) ==
  /\ ReaderGoto(k, "read") /\ rframe' = [rframe EXCEPT ![k] = Nil]
  /\ \/ /\ conn = k /\ ~clientClosed
        /\ requests' = [requests EXCEPT ![IdOf[o]] = o]
        /\ hpc' = [hpc EXCEPT ![o] = "run"]
        /\ UNCHANGED <<hdone, streams>>
     \/ /\ conn # k \/ clientClosed
        /\ IF kind[o] \in Stream THEN HandlerFinishAll({o}) ELSE UNCHANGED <<hdone, streams>>
        /\ UNCHANGED <<requests, hpc>>

startRequest(k) ==
  /\ reader[k] = "handle" /\ rframe[k].type = "request" /\ connMu
  /\ trackRequest(k, rframe[k].op)
  /\ UNCHANGED <<conn, connFlowControl, losing, lossAt, closePc, reply, hflow, hsent,
                 hrecv, rctx, hout, wires>>

startNotify(k) ==
  /\ reader[k] = "handle" /\ rframe[k].type = "notify" /\ connMu
  /\ trackRequest(k, rframe[k].op)
  /\ UNCHANGED <<conn, connFlowControl, losing, lossAt, closePc, reply, hflow, hsent,
                 hrecv, rctx, hout, wires>>

\* The stream of a start frame is configured: streamFlowControlFor.
configure(k, stream) ==
  /\ reader[k] = "handle" /\ rframe[k].type = "start" /\ connMu
  /\ kind[rframe[k].op] = stream
  /\ ReaderGoto(k, "add")
  /\ hflow' = IF conn = k /\ connFlowControl THEN hflow \cup {rframe[k].op} ELSE hflow
  /\ UNCHANGED <<conn, connFlowControl, losing, lossAt, closePc, rframe, streams,
                 requests, hpc, reply, hdone, hsent, hrecv, rctx, hout, wires>>

startServerStream(k) == configure(k, "server")
startClientStream(k) == configure(k, "client")
startBidiStream(k)   == configure(k, "bidi")

\* addStream.  A duplicate, or a client that is closed, is answered with an
\* error, which only a current connection gets.
ClientAddStream(k) ==
  LET o == rframe[k].op
      refused == clientClosed \/ streams[IdOf[o]] # Nil
  IN /\ reader[k] = "add"
     /\ \/ /\ ~refused
           /\ streams' = [streams EXCEPT ![IdOf[o]] = o]
           /\ ReaderGoto(k, "track") /\ UNCHANGED <<rframe, wires>>
        \/ /\ refused /\ connMu
           /\ ReaderGoto(k, "read") /\ rframe' = [rframe EXCEPT ![k] = Nil]
           /\ IF conn = k /\ ~clientClosed THEN SendToServer("error", o) ELSE UNCHANGED toServer
           /\ UNCHANGED <<streams, toClient>>
     /\ UNCHANGED <<conn, connFlowControl, losing, lossAt, closePc, requests, hpc,
                    reply, hflow, hdone, hsent, hrecv, rctx, hout>>

trackStream(k) ==
  /\ reader[k] = "track" /\ connMu
  /\ trackRequest(k, rframe[k].op)
  /\ UNCHANGED <<conn, connFlowControl, losing, lossAt, closePc, reply, hflow,
                 hsent, hrecv, rctx, hout, wires>>

\* A frame for a stream, whichever has the ID: deliverStreamFrame, or the
\* first part of Client.cancel.
deliverStreamFrame(k) ==
  LET f == rframe[k]
      o == streams[IdOf[f.op]]
      found == o # Nil /\ (f.type = "end" => kind[o] # "server")
  IN /\ reader[k] = "handle" /\ f.type \in {"end", "error", "cancel"}
     /\ IF f.type = "cancel" THEN ReaderGoto(k, "cancel") /\ UNCHANGED rframe
        ELSE ReaderGoto(k, "read") /\ rframe' = [rframe EXCEPT ![k] = Nil]
     /\ \/ /\ found /\ f.type \in {"error", "cancel"}
           /\ HandlerFinishAll({o}) /\ UNCHANGED hrecv
        \/ /\ found /\ f.type = "end"
           /\ hrecv' = hrecv \cup {o}
           /\ IF o \in hsent THEN HandlerFinishAll({o}) ELSE UNCHANGED <<hdone, streams>>
        \/ /\ ~found /\ UNCHANGED <<hdone, streams, hrecv>>
     /\ UNCHANGED <<conn, connFlowControl, losing, lossAt, closePc, requests, hpc,
                    reply, hflow, hsent, rctx, hout, wires>>

\* The second part of Client.cancel: the request that has the ID.
cancel(k) ==
  LET o == requests[IdOf[rframe[k].op]]
  IN /\ reader[k] = "cancel"
     /\ ReaderGoto(k, "read") /\ rframe' = [rframe EXCEPT ![k] = Nil]
     /\ rctx' = rctx \cup ({o} \ {Nil})
     /\ UNCHANGED <<conn, connFlowControl, losing, lossAt, closePc, streams,
                    requests, hpc, reply, hflow, hdone, hsent, hrecv, hout, wires>>
-----------------------------------------------------------------------------
(***************************************************************************)
(* Handlers.                                                               *)
(***************************************************************************)

HandlerGoto(o, step) == hpc' = [hpc EXCEPT ![o] = step]

\* writeTo by a handler: the frame goes out on its own connection, if that
\* is current; a write that fails loses the connection.
HandlerWrite(type, o) ==
  \/ /\ Current(o) /\ ~clientClosed
     /\ SendToServer(type, o)
     /\ UNCHANGED <<conn, connFlowControl, losing, lossAt, toClient>>
  \/ /\ ~Current(o) \/ clientClosed \/ May("loss")
     /\ Lose(ConnOf[o]) /\ UNCHANGED wires

\* The handler returns a response, the end of its items or an error.
HandlerReturns(o) ==
  /\ hpc[o] = "run"
  /\ \/ /\ kind[o] = "notify" /\ HandlerGoto(o, "finish") /\ UNCHANGED reply
     \/ /\ kind[o] # "notify" /\ HandlerGoto(o, "write")
        /\ \E r \in {"error", IF kind[o] \in {"server", "bidi"} THEN "end" ELSE "response"} :
             reply' = [reply EXCEPT ![o] = r]
  /\ UNCHANGED <<conn, connFlowControl, losing, lossAt, closePc, reader, rframe,
                 streams, requests, hflow, hdone, hsent, hrecv, rctx, hout, wires>>

\* grantInitialCredit fails, and the handler is not called.
GrantFails(o) ==
  /\ hpc[o] = "run" /\ o \in hflow /\ kind[o] \in {"client", "bidi"} /\ connMu
  /\ ~Current(o) \/ clientClosed \/ May("loss")
  /\ HandlerGoto(o, "finish") /\ Lose(ConnOf[o])
  /\ UNCHANGED <<closePc, reader, rframe, streams, requests, reply, hflow, hdone, hsent,
                 hrecv, rctx, hout, wires>>

\* The response or error is written.  A response that the limiter refuses
\* becomes an error.
HandlerReplies(o) ==
  /\ hpc[o] = "write" /\ reply[o] # "end" /\ connMu
  /\ \/ /\ reply[o] = "response" /\ May("busy")
        /\ reply' = [reply EXCEPT ![o] = "error"]
        /\ UNCHANGED <<hpc, conn, connFlowControl, losing, lossAt, wires>>
     \/ /\ HandlerWrite(reply[o], o) /\ HandlerGoto(o, "finish") /\ UNCHANGED reply
  /\ UNCHANGED <<closePc, reader, rframe, streams, requests, hflow, hdone, hsent, hrecv,
                 rctx, hout>>

\* CloseSend writes the end of the items, unless the context has ended, and
\* finishes a stream whose other direction has ended.  The first to see the
\* end of the context, or a write that fails, aborts the stream.
HandlerCloseSend(o) ==
  /\ hpc[o] = "write" /\ reply[o] = "end" /\ connMu
  /\ HandlerGoto(o, "finish")
  /\ \/ /\ o \in hdone
        /\ UNCHANGED <<hsent, hdone, streams, hout, conn, connFlowControl, losing, lossAt,
                       wires>>
     \/ /\ o \notin hdone /\ (o \in rctx \/ May("deadline"))
        /\ HandlerFinishAll({o}) /\ hout' = [hout EXCEPT ![o] = "error"]
        /\ UNCHANGED <<hsent, conn, connFlowControl, losing, lossAt, wires>>
     \/ /\ o \notin hdone \cup rctx /\ Current(o) /\ ~clientClosed
        /\ SendToServer("end", o) /\ hsent' = hsent \cup {o}
        /\ IF kind[o] = "server" \/ o \in hrecv
           THEN HandlerFinishAll({o}) ELSE UNCHANGED <<hdone, streams>>
        /\ UNCHANGED <<hout, conn, connFlowControl, losing, lossAt, toClient>>
     \/ /\ o \notin hdone \cup rctx /\ (~Current(o) \/ clientClosed \/ May("loss"))
        /\ HandlerFinishAll({o}) /\ hout' = [hout EXCEPT ![o] = "error"]
        /\ Lose(ConnOf[o]) /\ UNCHANGED <<hsent, wires>>
  /\ UNCHANGED <<closePc, reader, rframe, requests, reply, hflow, hrecv, rctx>>

\* Its deferred calls: finish, and the context.
HandlerFinish(o) ==
  /\ hpc[o] = "finish"
  /\ HandlerGoto(o, "untrack")
  /\ IF kind[o] \in Stream THEN HandlerFinishAll({o}) ELSE UNCHANGED <<hdone, streams>>
  /\ rctx' = rctx \cup {o}
  /\ UNCHANGED <<conn, connFlowControl, losing, lossAt, closePc, reader, rframe,
                 requests, reply, hflow, hsent, hrecv, hout, wires>>

\* Mutant of untrackRequest: the generation is not compared.
UntrackAnyway(o) ==
  /\ hpc[o] = "untrack" /\ connMu
  /\ HandlerGoto(o, "over")
  /\ requests' = [requests EXCEPT ![IdOf[o]] = Nil]
  /\ UNCHANGED <<conn, connFlowControl, losing, lossAt, closePc, reader, rframe,
                 streams, reply, hflow, hdone, hsent, hrecv, rctx, hout, wires>>

\* untrackRequest: an entry of the current connection only.
untrackRequest(o) ==
  /\ hpc[o] = "untrack" /\ connMu
  /\ HandlerGoto(o, "over")
  /\ requests' = IF Current(o) THEN [requests EXCEPT ![IdOf[o]] = Nil] ELSE requests
  /\ UNCHANGED <<conn, connFlowControl, losing, lossAt, closePc, reader, rframe,
                 streams, reply, hflow, hdone, hsent, hrecv, rctx, hout, wires>>

\* watchContext, or Stream.Cancel by the handler: the request's context was
\* cancelled, or its deadline passes.
watchContext(o) ==
  /\ hpc[o] \in {"run", "write", "finish"} /\ kind[o] \in Stream /\ o \notin hdone
  /\ \/ /\ o \in rctx \/ May("cancel")
        /\ hout' = [hout EXCEPT ![o] = "cancel"]
     \/ May("deadline") /\ hout' = [hout EXCEPT ![o] = "error"]
  /\ HandlerFinishAll({o})
  /\ UNCHANGED <<conn, connFlowControl, losing, lossAt, closePc, reader, rframe,
                 requests, hpc, reply, hflow, hsent, hrecv, rctx, wires>>

\* The frame that tells the other side.
HandlerOut(o) ==
  /\ hout[o] # "none" /\ connMu
  /\ hout' = [hout EXCEPT ![o] = "none"]
  /\ HandlerWrite(hout[o], o)
  /\ UNCHANGED <<closePc, reader, rframe, streams, requests, hpc, reply, hflow, hdone,
                 hsent, hrecv, rctx>>

ReaderStep(k) ==
  \/ ClientReads(k) \/ ReaderEnds(k)
  \/ startRequest(k) \/ startNotify(k)
  \/ startServerStream(k) \/ startClientStream(k) \/ startBidiStream(k)
  \/ ClientAddStream(k) \/ trackStream(k)
  \/ deliverStreamFrame(k) \/ cancel(k)

DispatchStep ==
  \/ \E k \in Conns : ReaderStep(k)
  \/ \E o \in Ops : HandlerReturns(o) \/ GrantFails(o) \/ HandlerReplies(o)
                      \/ HandlerCloseSend(o) \/ HandlerFinish(o) \/ untrackRequest(o)
                      \/ watchContext(o) \/ HandlerOut(o)
  \/ LossStreams \/ LossRequests \/ PingTimeout
  \/ Close \/ CloseConn \/ ClientCloseStreams \/ CloseRequests
=============================================================================
