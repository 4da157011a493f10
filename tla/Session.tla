------------------------------ MODULE Session ------------------------------
(***************************************************************************)
(* A Client and the Conns that a Server makes of its connections: one      *)
(* connection after the other is dialed, agreed upon, used by the          *)
(* accepting side for calls and streams, and lost or closed.               *)
(***************************************************************************)
EXTENDS Caller, Dispatch

vars == <<load, dialing, kind, wires, handshakeVars, callerVars, dispatchVars>>

Init == LinkInit /\ CallerInit /\ DispatchInit

\* The socket of a connection is closed at the client's end.
HungUp(k) == conn # k /\ (dialing = k => cstep \in {"none", "failed"})

\* The accepting side has no more to do for a connection.
Drained(k) ==
  /\ closing[k] = "done"
  /\ \A o \in On(k, Ops) : out[o] = "none" /\ (cpc[o] \in {"idle", "over"} \/ Done(o))

\* connectOnce dials the next connection.  An attempt that came to nothing
\* at the server is forgotten there.  A bound: the Conn before it, which
\* shares nothing with the new one, is drained.
connectOnce(k) ==
  /\ conn = Nil /\ connMu /\ ~clientClosed /\ cstep \in {"none", "failed"}
  /\ k \in load.conns /\ closing[k] = "free"
  /\ \A j \in load.conns : j < k => Drained(j)
  /\ dialing' = k
  /\ \E s \in load.servers : SendHello(s)
  /\ UNCHANGED <<load, kind, wires, callerVars, dispatchVars>>

\* serveConn after serverHandshake: the Conn is ready for calls.
serveConn ==
  /\ AcceptConn
  /\ closing' = [closing EXCEPT ![dialing] = "open"]
  /\ sflow' = IF sgot.credit THEN sflow \cup {dialing} ELSE sflow
  /\ UNCHANGED <<load, dialing, kind, wires, dispatchVars, sreader, cpc, cstreams, pending,
                 csent, crecv, cause, resp, got, out, gaveUp, flight, leader>>

\* Mutant of setConn: what the handshake agreed on is not recorded.
SetConnForgets ==
  /\ cstep = "done" /\ connMu /\ cstep' = "none"
  /\ \/ /\ ~clientClosed
        /\ conn' = dialing /\ UNCHANGED connFlowControl
        /\ ReaderGoto(dialing, "read")
     \/ clientClosed /\ UNCHANGED <<conn, connFlowControl, reader>>
  /\ UNCHANGED <<client, server, sstep, up, down, cgot, sgot, cerr, load, dialing, kind,
                 wires, callerVars, losing, lossAt, closePc, rframe, streams, requests, hpc,
                 reply, hflow, hdone, hsent, hrecv, rctx, hout>>

\* setConn, and the start of readLoop.  A closed client hangs up.
setConn ==
  /\ cstep = "done" /\ connMu /\ cstep' = "none"
  /\ \/ /\ ~clientClosed
        /\ conn' = dialing /\ connFlowControl' = cgot.credit
        /\ ReaderGoto(dialing, "read")
     \/ clientClosed /\ UNCHANGED <<conn, connFlowControl, reader>>
  /\ UNCHANGED <<client, server, sstep, up, down, cgot, sgot, cerr, load, dialing, kind,
                 wires, callerVars, losing, lossAt, closePc, rframe, streams, requests, hpc,
                 reply, hflow, hdone, hsent, hrecv, rctx, hout>>

\* serveConn's read fails.
ServerReadFails(k) ==
  /\ closing[k] = "open" /\ sreader[k] = Nil
  /\ (HungUp(k) /\ toServer[k] = <<>>) \/ May("loss")
  /\ BeginClose(k)
  /\ UNCHANGED <<load, kind, wires, dialing, handshakeVars, dispatchVars, sflow, sreader, cpc,
                 cstreams, pending, csent, crecv, cause, resp, got, out, gaveUp, flight,
                 leader>>

\* readLoop's read fails: connectionLost.
ClientReadFails(k) ==
  /\ reader[k] = "read" /\ connMu /\ closed(k)
  /\ ReaderGoto(k, "gone") /\ Lose(k)
  /\ UNCHANGED <<load, kind, wires, dialing, handshakeVars, callerVars, closePc, rframe,
                 streams, requests, hpc, reply, hflow, hdone, hsent, hrecv, rctx, hout>>

Next ==
  \/ \E k \in Conns : connectOnce(k) \/ ServerReadFails(k) \/ ClientReadFails(k)
  \/ serveConn \/ setConn
  \/ /\ HandshakeAdvances \/ (May("refuse") /\ HandshakeBreaks)
     /\ UNCHANGED <<load, dialing, kind, wires, callerVars, dispatchVars>>
  \/ CallerStep /\ UNCHANGED <<load, dialing, handshakeVars, dispatchVars>>
  \/ DispatchStep /\ UNCHANGED <<load, dialing, kind, handshakeVars, callerVars>>

Spec == Init /\ [][Next]_vars
-----------------------------------------------------------------------------
(***************************************************************************)
(* Properties.                                                             *)
(***************************************************************************)

\* No loss or close is under way in the client.
Settled == connMu /\ closePc \in {"open", "done"}

\* A handler's stream uses credit exactly if the caller's does, also when
\* connections to releases with and without it follow one another.
FlowAgrees ==
  \A o \in Ops : Running(o) /\ kind[o] \in Stream =>
    (o \in hflow <=> ConnOf[o] \in sflow)

\* Cleanup from an old connection cannot remove a replacement stream or
\* request that reused its ID (CHANGELOG.md:50): a handler of the current
\* connection can be found, by a cancel frame or a loss, while it runs.
CleanupIsLocal ==
  \A o \in Ops : Running(o) /\ Current(o) =>
    /\ requests[IdOf[o]] = o
    /\ kind[o] \in Stream /\ o \notin hdone => streams[IdOf[o]] = o

\* A lost or closed connection reaches its handlers: their context ends, and
\* none of its streams stays in the table.
LossReaches ==
  Settled => \A o \in Ops : ~Current(o) =>
    /\ Running(o) => o \in rctx
    /\ streams[IdOf[o]] = o => reader[ConnOf[o]] = "track"

\* No handler works for a caller that is gone: once the frames of an
\* operation are read, it has ended or been told to (docs/protocol.md:84-98).
NoOrphan ==
  \A o \in Ops :
    LET k == ConnOf[o]
        alive == conn = k /\ ~closed(k)
        left == \/ kind[o] \in Stream /\ Done(o)
                \/ kind[o] \in Unary /\ cpc[o] = "over"
        read == /\ out[o] = "none"
                /\ rframe[k] # Nil => rframe[k].op # o
                /\ \A i \in 1..Len(toClient[k]) : toClient[k][i].op # o
    IN alive /\ left /\ read /\ hpc[o] = "run" => o \in rctx \cup hdone

\* An early response ends the sends of a client stream and remains available
\* to CloseAndRecv (docs/protocol.md:84-98, CHANGELOG.md:48).
ResponseKept ==
  \A o \in Ops : cause[o] = "response" /\ o \notin gaveUp =>
    got[o] \in {"none", "response"}

\* Whoever waits is woken: a follower of a singleflight by a leader that has
\* yet to publish, and a call or stream of a Conn that is closed for good by
\* an error or the end of its context.
NoStrandedCaller ==
  \A o \in Ops :
    /\ cpc[o] = "follow" => cpc[leader[o]] \notin {"idle", "over"}
    /\ cpc[o] \in {"wait", "await"} /\ closing[ConnOf[o]] = "done" =>
         resp[o] # "empty" \/ Done(o)

\* Request IDs distinguish operations on the same connection, and active
\* operations are not transferred (docs/protocol.md:18-21): a frame read from
\* another connection does not end an operation of the current one.
FramesStayOnTheirConnection ==
  [][\A k \in Conns : reader[k] \in {"handle", "cancel"} /\ reader'[k] # reader[k] =>
       \A o \in Ops : ConnOf[o] # k /\ Current(o) =>
         (o \in hdone' => o \in hdone) /\ (o \in rctx' => o \in rctx)]_vars
=============================================================================
