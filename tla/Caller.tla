------------------------------- MODULE Caller -------------------------------
(***************************************************************************)
(* The accepting side as a caller (Conn in server.go, singleflight.go, the *)
(* typed handles of stream.go): unary calls, notifications and streams     *)
(* from addPending and addStream to their result.                          *)
(*                                                                         *)
(* Items and credit are in StreamFlow; here a stream has two directions    *)
(* that end and a context.  Its finish, which takes it out of the tables,  *)
(* is one step; cause is its context.Cause.                                *)
(***************************************************************************)
EXTENDS Link

CONSTANTS MaxPending, MaxStreams  \* limits of Backpressure, 0 for none

ASSUME CallerAssumption == MaxPending \in Nat /\ MaxStreams \in Nat

VARIABLES
  closing,           \* Conn.closeWithError, per connection
  sflow,             \* Conn.flowControl
  sreader,           \* what the reader has left to do for a frame
  cpc,               \* where the caller of an operation is
  cstreams, pending, \* the tables of all connections
  csent, crecv,      \* streams with sendEnded, with recvClosed
  cause,             \* why a stream is done
  resp,              \* responseCh
  got,               \* what the caller was given
  out,               \* a frame that a finished stream has yet to write
  gaveUp,            \* operations their application has cancelled
  flight, leader     \* singleflight: the call in flight, whom a call joined

callerVars == <<closing, sflow, sreader, cpc, cstreams, pending, csent, crecv,
                cause, resp, got, out, gaveUp, flight, leader>>

closed(k) == closing[k] # "open"
On(k, S)  == {o \in S : ConnOf[o] = k}
Done(o)   == cause[o] # "none"

CallerInit ==
  /\ closing = [k \in Conns |-> "free"] /\ sflow = {}
  /\ sreader = [k \in Conns |-> Nil]
  /\ cpc = [o \in Ops |-> "idle"]
  /\ cstreams = {} /\ pending = {} /\ csent = {} /\ crecv = {} /\ gaveUp = {}
  /\ cause = [o \in Ops |-> "none"]
  /\ resp = [o \in Ops |-> "empty"] /\ got = [o \in Ops |-> "none"]
  /\ out = [o \in Ops |-> "none"]
  /\ flight = [k \in Conns |-> Nil] /\ leader = [o \in Ops |-> Nil]
-----------------------------------------------------------------------------
Goto(o, step) == cpc' = [cpc EXCEPT ![o] = step]

\* Stream.finish and its onDone, for a set of streams.
FinishAll(S, why) ==
  /\ cause' = [o \in Ops |-> IF o \in S /\ ~Done(o) THEN why ELSE cause[o]]
  /\ cstreams' = cstreams \ S
  /\ pending' = pending \ S
Finish(o, why) == FinishAll({o}, why)

\* closeOnce: the first caller closes the socket.
BeginClose(k) ==
  closing' = IF closed(k) THEN closing ELSE [closing EXCEPT ![k] = "streams"]

\* The outcome of an operation; the leader of a flight has yet to end it.
Return(o, what) ==
  /\ got' = [got EXCEPT ![o] = what]
  /\ Goto(o, IF kind[o] = "single" THEN "land" ELSE "over")

\* The application calls.  Singleflight calls of a connection use one key.
Begin(o, k) ==
  LET c == ConnOf[o]
  IN /\ cpc[o] = "idle" /\ o \in load.ops /\ k \in load.kinds /\ closing[c] # "free"
     /\ kind' = [kind EXCEPT ![o] = k]
     /\ \/ k \in {"call", "async", "client"} /\ Goto(o, "pend") /\ UNCHANGED <<flight, leader>>
        \/ k \in {"server", "bidi"} /\ Goto(o, "add") /\ UNCHANGED <<flight, leader>>
        \/ k = "notify" /\ Goto(o, "send") /\ UNCHANGED <<flight, leader>>
        \/ /\ k = "single" /\ flight[c] = Nil
           /\ Goto(o, "pend") /\ flight' = [flight EXCEPT ![c] = o] /\ UNCHANGED leader
        \/ /\ k = "single" /\ flight[c] # Nil
           /\ Goto(o, "follow") /\ leader' = [leader EXCEPT ![o] = flight[c]]
           /\ UNCHANGED flight
     /\ UNCHANGED <<closing, sflow, sreader, cstreams, pending, csent, crecv, cause,
                    resp, got, out, gaveUp, wires>>

\* addPending.
addPending(o) ==
  LET k == ConnOf[o]
      refused == closed(k) \/ (MaxPending > 0 /\ Cardinality(On(k, pending)) >= MaxPending)
  IN /\ cpc[o] = "pend"
     /\ \/ refused /\ Return(o, "error") /\ UNCHANGED pending
        \/ /\ ~refused /\ pending' = pending \cup {o} /\ UNCHANGED got
           /\ Goto(o, IF kind[o] = "client" THEN "add" ELSE "send")
     /\ UNCHANGED <<closing, sflow, sreader, cstreams, csent, crecv, cause, resp, out,
                    gaveUp, flight, leader, kind, wires>>

\* addStream; a stream that is refused leaves the pending table.
addStream(o) ==
  LET k == ConnOf[o]
      refused == closed(k) \/ (MaxStreams > 0 /\ Cardinality(On(k, cstreams)) >= MaxStreams)
  IN /\ cpc[o] = "add"
     /\ \/ /\ refused /\ Return(o, "error")
           /\ pending' = pending \ {o} /\ UNCHANGED cstreams
        \/ /\ ~refused /\ Goto(o, "send")
           /\ cstreams' = cstreams \cup {o} /\ UNCHANGED <<pending, got>>
     /\ UNCHANGED <<closing, sflow, sreader, csent, crecv, cause, resp, out, gaveUp,
                    flight, leader, kind, wires>>

FirstFrame(o) ==
  CASE kind[o] \in Unary -> "request"
    [] kind[o] = "notify" -> "notify"
    [] OTHER -> "start"

\* The first frame is written.  The limiter refuses it without harm; a
\* failed write closes the connection.
WriteFirst(o, next) ==
  LET k == ConnOf[o]
  IN /\ cpc[o] = "send"
     /\ \/ /\ ~closed(k)
           /\ SendToClient(FirstFrame(o), o) /\ UNCHANGED toServer
           /\ Goto(o, next)
           /\ UNCHANGED <<closing, got, cause, cstreams, pending>>
        \/ /\ ~closed(k) /\ May("busy")
           /\ Return(o, "error") /\ Finish(o, "error") /\ UNCHANGED <<closing, wires>>
        \/ /\ closed(k) \/ May("loss")
           /\ Return(o, "error") /\ Finish(o, "error")
           /\ BeginClose(k) /\ UNCHANGED wires
     /\ UNCHANGED <<sflow, sreader, csent, crecv, resp, out, gaveUp, flight, leader,
                    kind>>

sendRequest(o)      == kind[o] \in Unary /\ WriteFirst(o, "wait")
sendNotify(o)       == kind[o] = "notify" /\ WriteFirst(o, "over")
openServerStream(o) == kind[o] = "server" /\ WriteFirst(o, "open")
openClientStream(o) == kind[o] = "client" /\ WriteFirst(o, "open")
openBidiStream(o)   == kind[o] = "bidi" /\ WriteFirst(o, "open")
-----------------------------------------------------------------------------
(***************************************************************************)
(* Unary calls: callFrameContext, the handler of an asynchronous call, and *)
(* singleflightGroup.do.                                                   *)
(***************************************************************************)

\* The response or the error delivered.
Receive(o) ==
  /\ cpc[o] = "wait" /\ kind[o] # "async" /\ resp[o] # "empty"
  /\ Return(o, resp[o])
  /\ resp' = [resp EXCEPT ![o] = "empty"]
  /\ UNCHANGED <<closing, sflow, sreader, cstreams, pending, csent, crecv, cause, out,
                 gaveUp, flight, leader, kind, wires>>

\* deliverPending calls the handler of an asynchronous call.
invokeAsyncHandler(o) ==
  /\ cpc[o] = "wait" /\ kind[o] = "async" /\ resp[o] # "empty"
  /\ Return(o, resp[o])
  /\ resp' = [resp EXCEPT ![o] = "empty"]
  /\ UNCHANGED <<closing, sflow, sreader, cstreams, pending, csent, crecv, cause, out,
                 gaveUp, flight, leader, kind, wires>>

\* The connection is closed.
SeesClosed(o) ==
  /\ cpc[o] = "wait" /\ kind[o] # "async" /\ closed(ConnOf[o])
  /\ Return(o, "error") /\ pending' = pending \ {o}
  /\ UNCHANGED <<closing, sflow, sreader, cstreams, csent, crecv, cause, resp, out,
                 gaveUp, flight, leader, kind, wires>>

\* The context ends: removePending and a cancel frame.
CallGivesUp(o) ==
  /\ cpc[o] = "wait" /\ kind[o] # "async" /\ May("cancel")
  /\ Return(o, "error") /\ pending' = pending \ {o}
  /\ out' = [out EXCEPT ![o] = "cancel"]
  /\ UNCHANGED <<closing, sflow, sreader, cstreams, csent, crecv, cause, resp,
                 gaveUp, flight, leader, kind, wires>>

\* A follower's context ends.
FollowerGivesUp(o) ==
  /\ cpc[o] = "follow" /\ May("cancel")
  /\ Goto(o, "over") /\ got' = [got EXCEPT ![o] = "error"]
  /\ UNCHANGED <<closing, sflow, sreader, cstreams, pending, csent, crecv, cause, resp,
                 out, gaveUp, flight, leader, kind, wires>>

\* The leader deletes the key of its flight.
Land(o) ==
  /\ cpc[o] = "land"
  /\ Goto(o, "publish") /\ flight' = [flight EXCEPT ![ConnOf[o]] = Nil]
  /\ UNCHANGED <<closing, sflow, sreader, cstreams, pending, csent, crecv, cause, resp,
                 got, out, gaveUp, leader, kind, wires>>

\* Mutant of Publish: done is not closed.
PublishNothing(o) ==
  /\ cpc[o] = "publish" /\ Goto(o, "over")
  /\ UNCHANGED <<closing, sflow, sreader, cstreams, pending, csent, crecv, cause, resp,
                 got, out, gaveUp, flight, leader, kind, wires>>

\* close(call.done): the followers return what the leader got.
Publish(o) ==
  LET followers == {f \in Ops : cpc[f] = "follow" /\ leader[f] = o}
  IN /\ cpc[o] = "publish"
     /\ cpc' = [f \in Ops |-> IF f \in followers \cup {o} THEN "over" ELSE cpc[f]]
     /\ got' = [f \in Ops |-> IF f \in followers THEN got[o] ELSE got[f]]
     /\ UNCHANGED <<closing, sflow, sreader, cstreams, pending, csent, crecv, cause,
                    resp, out, gaveUp, flight, leader, kind, wires>>
-----------------------------------------------------------------------------
(***************************************************************************)
(* Streams: CloseSend, CloseAndRecv, Cancel and the end of the context.    *)
(***************************************************************************)

\* The first look of CloseAndRecv, or the call of CloseSend.
CloseStart(o) ==
  /\ cpc[o] = "open" /\ kind[o] \in {"client", "bidi"}
  /\ IF kind[o] = "client" /\ resp[o] # "empty"
     THEN Return(o, resp[o]) /\ Finish(o, "closed")
     ELSE Goto(o, "closeSend") /\ UNCHANGED <<got, cause, cstreams, pending>>
  /\ UNCHANGED <<closing, sflow, sreader, csent, crecv, resp, out, gaveUp, flight,
                 leader, kind, wires>>

\* CloseSend writes the end frame, unless the context has ended.  It aborts
\* the stream if it is the first to see that, or if the write fails, which
\* also closes the connection: an error frame is to be written.
WriteEnd(o) ==
  /\ cpc[o] = "closeSend"
  /\ \/ /\ Done(o) /\ Goto(o, "recheck")
        /\ UNCHANGED <<closing, cause, cstreams, pending, out, gaveUp, wires>>
     \/ /\ ~Done(o) /\ ~closed(ConnOf[o])
        /\ SendToClient("end", o) /\ Goto(o, "ending")
        /\ UNCHANGED <<closing, cause, cstreams, pending, out, gaveUp, toServer>>
     \/ /\ ~Done(o) /\ (May("cancel") \/ May("deadline"))
        /\ Finish(o, "error") /\ out' = [out EXCEPT ![o] = "error"]
        /\ gaveUp' = gaveUp \cup {o}
        /\ Goto(o, "recheck") /\ UNCHANGED <<closing, wires>>
     \/ /\ ~Done(o) /\ (closed(ConnOf[o]) \/ May("loss"))
        /\ Finish(o, "error") /\ out' = [out EXCEPT ![o] = "error"]
        /\ BeginClose(ConnOf[o])
        /\ Goto(o, "recheck") /\ UNCHANGED <<gaveUp, wires>>
  /\ UNCHANGED <<sflow, sreader, csent, crecv, resp, got, flight, leader, kind>>

\* The rest of CloseSend: sendEnded; with recvClosed the stream is finished.
EndSent(o) ==
  /\ cpc[o] = "ending"
  /\ csent' = csent \cup {o}
  /\ IF o \in crecv THEN Finish(o, "ended") ELSE UNCHANGED <<cause, cstreams, pending>>
  /\ Goto(o, IF kind[o] = "client" THEN "await" ELSE "over")
  /\ UNCHANGED <<closing, sflow, sreader, crecv, resp, got, out, gaveUp, flight, leader,
                 kind, wires>>

\* CloseAndRecv waits for the response or for the end of the context.
Await(o) ==
  /\ cpc[o] = "await"
  /\ \/ /\ resp[o] # "empty"
        /\ Return(o, resp[o]) /\ Finish(o, "closed")
     \/ /\ Done(o)
        /\ Goto(o, "recheck") /\ UNCHANGED <<got, cause, cstreams, pending>>
  /\ UNCHANGED <<closing, sflow, sreader, csent, crecv, resp, out, gaveUp, flight,
                 leader, kind, wires>>

\* Mutant of Recheck: the end of the context is the result.
RecheckNothing(o) ==
  /\ cpc[o] = "recheck"
  /\ Return(o, "error") /\ Finish(o, "closed")
  /\ UNCHANGED <<closing, sflow, sreader, csent, crecv, resp, out, gaveUp, flight,
                 leader, kind, wires>>

\* A response that came before the context ended is not lost.  CloseSend of
\* a bidirectional stream just returns.
Recheck(o) ==
  /\ cpc[o] = "recheck"
  /\ Return(o, IF resp[o] # "empty" THEN resp[o] ELSE "error") /\ Finish(o, "closed")
  /\ UNCHANGED <<closing, sflow, sreader, csent, crecv, resp, out, gaveUp, flight,
                 leader, kind, wires>>

\* ClientStreamHandle.Cancel first takes the call out of the pending table.
CancelHandle(o) ==
  /\ o \in cstreams /\ cpc[o] # "send" /\ kind[o] = "client"
  /\ o \notin gaveUp /\ May("cancel")
  /\ gaveUp' = gaveUp \cup {o} /\ pending' = pending \ {o}
  /\ UNCHANGED <<closing, sflow, sreader, cpc, cstreams, csent, crecv, cause, resp,
                 got, out, flight, leader, kind, wires>>

\* Mutant of StreamGivesUp: watchContext is installed before the start frame
\* is written, so that a cancel frame may overtake it.
GivesUpEarly(o) ==
  /\ o \in cstreams
  /\ May("cancel") /\ Finish(o, "cancel") /\ out' = [out EXCEPT ![o] = "cancel"]
  /\ gaveUp' = gaveUp \cup {o}
  /\ UNCHANGED <<closing, sflow, sreader, cpc, csent, crecv, resp, got, flight, leader,
                 kind, wires>>

\* Stream.Cancel, or watchContext after the end of the caller's context: a
\* cancel frame is to be written, for a deadline an error frame.
StreamGivesUp(o) ==
  /\ o \in cstreams /\ cpc[o] # "send"
  /\ \/ May("cancel") /\ Finish(o, "cancel") /\ out' = [out EXCEPT ![o] = "cancel"]
     \/ May("deadline") /\ Finish(o, "deadline") /\ out' = [out EXCEPT ![o] = "error"]
  /\ gaveUp' = gaveUp \cup {o}
  /\ UNCHANGED <<closing, sflow, sreader, cpc, csent, crecv, resp, got, flight, leader,
                 kind, wires>>

\* That frame; it passes the limiter by.
WriteOut(o) ==
  /\ out[o] # "none"
  /\ out' = [out EXCEPT ![o] = "none"]
  /\ \/ /\ ~closed(ConnOf[o])
        /\ SendToClient(out[o], o) /\ UNCHANGED <<closing, toServer>>
     \/ /\ closed(ConnOf[o]) \/ May("loss")
        /\ BeginClose(ConnOf[o]) /\ UNCHANGED wires
  /\ UNCHANGED <<sflow, sreader, cpc, cstreams, pending, csent, crecv, cause, resp,
                 got, gaveUp, flight, leader, kind>>
-----------------------------------------------------------------------------
(***************************************************************************)
(* The reader of the connection (serveConn), and closeWithError.           *)
(***************************************************************************)

\* complete: the response goes to who waits for it.
complete(o, what) ==
  /\ resp' = [resp EXCEPT ![o] = IF o \in pending THEN what ELSE @]
  /\ pending' = pending \ {o}

\* The next frame.  A response or an error is completed first, and ends its
\* stream next; an end frame closes one direction.
ReadFrame(k) ==
  LET f == Head(toServer[k])
      o == f.op
  IN /\ ~closed(k) /\ sreader[k] = Nil /\ toServer[k] # <<>>
     /\ toServer' = [toServer EXCEPT ![k] = Tail(@)]
     /\ \/ /\ f.type = "response" /\ complete(o, "response")
           /\ sreader' = IF o \in cstreams /\ kind[o] = "client"
                         THEN [sreader EXCEPT ![k] = f] ELSE sreader
           /\ UNCHANGED <<cause, cstreams, crecv>>
        \/ /\ f.type = "error" /\ complete(o, "error")
           /\ sreader' = [sreader EXCEPT ![k] = f]
           /\ UNCHANGED <<cause, cstreams, crecv>>
        \/ /\ f.type = "cancel" /\ o \in cstreams
           /\ Finish(o, "cancel") /\ UNCHANGED <<sreader, resp, crecv>>
        \/ /\ f.type = "end" /\ o \in cstreams /\ kind[o] # "client"
           /\ crecv' = crecv \cup {o}
           /\ IF o \in csent \/ kind[o] = "server"
              THEN Finish(o, "ended") ELSE UNCHANGED <<cause, cstreams, pending>>
           /\ UNCHANGED <<sreader, resp>>
        \/ /\ f.type \in {"cancel", "end"} /\ o \notin cstreams
           /\ UNCHANGED <<cause, cstreams, pending, crecv, sreader, resp>>
     /\ UNCHANGED <<closing, sflow, cpc, csent, got, out, gaveUp, flight, leader, kind,
                    toClient>>

\* deliverStreamFrame or finish, for the frame just completed.
ReadRest(k) ==
  LET f == sreader[k]
  IN /\ f # Nil
     /\ sreader' = [sreader EXCEPT ![k] = Nil]
     /\ IF f.op \in cstreams THEN Finish(f.op, f.type)
                             ELSE UNCHANGED <<cause, cstreams, pending>>
     /\ UNCHANGED <<closing, sflow, cpc, csent, crecv, resp, got, out, gaveUp, flight,
                    leader, kind, wires>>

\* failStreams.
CloseStreams(k) ==
  /\ closing[k] = "streams"
  /\ closing' = [closing EXCEPT ![k] = "pending"]
  /\ FinishAll(On(k, cstreams), "error")
  /\ UNCHANGED <<sflow, sreader, cpc, csent, crecv, resp, got, out, gaveUp, flight,
                 leader, kind, wires>>

\* failPending.
ClosePending(k) ==
  /\ closing[k] = "pending"
  /\ closing' = [closing EXCEPT ![k] = "done"]
  /\ resp' = [o \in Ops |-> IF o \in On(k, pending) THEN "error" ELSE resp[o]]
  /\ pending' = pending \ On(k, pending)
  /\ UNCHANGED <<sflow, sreader, cpc, cstreams, csent, crecv, cause, got, out, gaveUp,
                 flight, leader, kind, wires>>

CallerStep ==
  \/ \E o \in Ops : \/ \E k \in Kinds : Begin(o, k)
                    \/ addPending(o) \/ addStream(o)
                    \/ sendRequest(o) \/ sendNotify(o)
                    \/ openServerStream(o) \/ openClientStream(o) \/ openBidiStream(o)
                    \/ Receive(o) \/ invokeAsyncHandler(o) \/ SeesClosed(o)
                    \/ CallGivesUp(o) \/ FollowerGivesUp(o) \/ Land(o) \/ Publish(o)
                    \/ CloseStart(o) \/ WriteEnd(o) \/ EndSent(o) \/ Await(o)
                    \/ Recheck(o) \/ CancelHandle(o) \/ StreamGivesUp(o) \/ WriteOut(o)
  \/ \E k \in Conns : ReadFrame(k) \/ ReadRest(k) \/ CloseStreams(k) \/ ClosePending(k)
=============================================================================
