------------------------------ MODULE Handshake ------------------------------
(***************************************************************************)
(* The handshake of one dialed connection: clientHandshake and clientAuth  *)
(* (client.go) against serverHandshake and readAuth (server.go).           *)
(*                                                                         *)
(* A configuration holds what the two sides compare.  "wire" stands for    *)
(* protocol version and codec, "" for no compressor or no secret.  A side  *)
(* without "credit" is an older release, which does not know capabilities. *)
(* Each direction carries at most one frame.                               *)
(***************************************************************************)
EXTENDS Naturals

CONSTANTS
  Clients, Servers,  \* configurations
  Nil

ASSUME HandshakeAssumption ==
  /\ Clients # {} /\ Servers # {}
  /\ \A cfg \in Clients \cup Servers :
       /\ DOMAIN cfg = {"wire", "compressor", "secret", "credit"}
       /\ cfg.credit \in BOOLEAN

VARIABLES
  client, server,  \* the configurations of this attempt
  cstep, sstep,    \* where clientHandshake and serverHandshake are
  up, down,        \* the frame on its way to the server, to the client
  cgot, sgot,      \* what each side has agreed to
  cerr             \* the error of clientHandshake

handshakeVars == <<client, server, cstep, sstep, up, down, cgot, sgot, cerr>>

None == [compressor |-> "", credit |-> FALSE]

\* What writePeerHandshakeError can say; "identity" is "unauthorized" too.
Refusals == {"peerConnected", "identity", "unavailable"}

HandshakeInit ==
  /\ client \in Clients /\ server = CHOOSE s \in Servers : TRUE
  /\ cstep = "none" /\ sstep = "none"
  /\ up = Nil /\ down = Nil
  /\ cgot = None /\ sgot = None /\ cerr = "none"
-----------------------------------------------------------------------------
(***************************************************************************)
(* The dialing side.                                                       *)
(***************************************************************************)

\* The hello frame.
SendHello(s) ==
  /\ cstep' = "ack" /\ sstep' = "hello"
  /\ server' = s
  /\ up' = [type |-> "hello", wire |-> client.wire, compressor |-> client.compressor,
            credit |-> client.credit]
  /\ down' = Nil /\ cgot' = None /\ sgot' = None /\ cerr' = "none"
  /\ UNCHANGED client

ClientFails(err) ==
  /\ cstep' = "failed" /\ cerr' = err
  /\ UNCHANGED <<client, server, sstep, up, cgot, sgot>>

\* The transcript that a client signs and a server verifies.  An older
\* release has no capabilities in it; an empty list leaves it as it was.
sign(secret, wire, credit) == <<secret, wire, credit>>

\* What clientHandshake rejects in an acknowledgement.
AckRefused(ack) ==
  \/ ack.wire # client.wire
  \/ ack.compressor # client.compressor

\* Mutant of clientAuth: it signs what the client offers.
ClientAuthOffered(ack) ==
  IF client.secret = ""
  THEN ClientFails("auth")
  ELSE /\ cstep' = "authAck" /\ cgot' = [compressor |-> client.compressor, credit |-> ack.credit]
       /\ up' = [type |-> "auth", signature |-> sign(client.secret, ack.wire, client.credit)]
       /\ UNCHANGED <<client, server, sstep, sgot, cerr>>

\* clientAuth up to its answer: it signs what the server has acknowledged.
clientAuth(ack) ==
  IF client.secret = ""
  THEN ClientFails("auth")
  ELSE /\ cstep' = "authAck" /\ cgot' = [compressor |-> client.compressor, credit |-> ack.credit]
       /\ up' = [type |-> "auth", signature |-> sign(client.secret, ack.wire, ack.credit)]
       /\ UNCHANGED <<client, server, sstep, sgot, cerr>>

\* The answer to hello: an error, or an acknowledgement.
ReadAck ==
  /\ cstep = "ack" /\ down # Nil
  /\ down' = Nil
  /\ CASE down.type = "error" -> ClientFails(down.code)
       [] down.type = "ack" /\ AckRefused(down) -> ClientFails("protocol")
       [] down.type = "ack" /\ ~AckRefused(down) /\ down.auth -> clientAuth(down)
       [] OTHER ->
            /\ cstep' = "done"
            /\ cgot' = [compressor |-> client.compressor, credit |-> down.credit]
            /\ UNCHANGED <<client, server, sstep, up, sgot, cerr>>

\* The answer to auth.
ReadAuthAck ==
  /\ cstep = "authAck" /\ down # Nil
  /\ down' = Nil
  /\ IF down.type = "error"
     THEN ClientFails(down.code)
     ELSE cstep' = "done" /\ UNCHANGED <<client, server, sstep, up, cgot, sgot, cerr>>

\* HandshakeTimeout, the end of Connect's context, or a closed socket.
ClientGivesUp ==
  /\ cstep \in {"ack", "authAck"}
  /\ ClientFails("unavailable") /\ UNCHANGED down
-----------------------------------------------------------------------------
(***************************************************************************)
(* The accepting side.                                                     *)
(***************************************************************************)

ServerGoto(step) ==
  /\ sstep' = step
  /\ UNCHANGED <<client, server, cstep, cgot, sgot, cerr>>

\* Mutant of Acknowledgement: credit is acknowledged whatever was offered.
AcknowledgeAlways(hello) ==
  [type |-> "ack", wire |-> server.wire, compressor |-> hello.compressor,
   credit |-> server.credit, auth |-> server.secret # ""]

\* The acknowledgement: credit, if both sides know it.
Acknowledgement(hello) ==
  [type |-> "ack", wire |-> server.wire, compressor |-> hello.compressor,
   credit |-> hello.credit /\ server.credit, auth |-> server.secret # ""]

\* serverHandshake reads hello.  What it cannot serve, it hangs up on.  A
\* server with a secret acknowledges first and asks for a signature.
ReadHello ==
  /\ sstep = "hello" /\ up # Nil
  /\ up' = Nil
  /\ LET served == up.wire = server.wire /\ up.compressor \in {"", server.compressor}
     IN \/ ~served /\ ServerGoto("failed") /\ UNCHANGED down
        \/ /\ served
           /\ sgot' = [compressor |-> up.compressor, credit |-> Acknowledgement(up).credit]
           /\ IF server.secret # ""
              THEN sstep' = "auth" /\ down' = Acknowledgement(up)
              ELSE sstep' = "accept" /\ UNCHANGED down
           /\ UNCHANGED <<client, server, cstep, cgot, cerr>>

\* readAuth.
readAuth ==
  /\ sstep = "auth" /\ up # Nil
  /\ up' = Nil
  /\ IF up.signature = sign(server.secret, server.wire, sgot.credit)
     THEN ServerGoto("accept") /\ UNCHANGED down
     ELSE ServerGoto("failed") /\ down' = [type |-> "error", code |-> "auth"]

\* accept: the peer manager, if there is one, refuses the connection.
Refuse ==
  /\ sstep = "accept"
  /\ ServerGoto("failed")
  /\ \E code \in Refusals : down' = [type |-> "error", code |-> code]
  /\ UNCHANGED up

\* accept: the connection is served; the last acknowledgement is written.
AcceptConn ==
  /\ sstep = "accept"
  /\ ServerGoto("done")
  /\ down' = IF server.secret # "" THEN [type |-> "authAck"]
             ELSE [type |-> "ack", wire |-> server.wire, auth |-> FALSE,
                   compressor |-> sgot.compressor, credit |-> sgot.credit]
  /\ UNCHANGED up

\* HandshakeTimeout, or a client that has hung up.
ServerGivesUp ==
  /\ sstep \in {"hello", "auth", "accept"}
  /\ ServerGoto("failed")
  /\ UNCHANGED <<up, down>>
-----------------------------------------------------------------------------
HandshakeAdvances == ReadAck \/ ReadAuthAck \/ ReadHello \/ readAuth
HandshakeBreaks   == ClientGivesUp \/ Refuse \/ ServerGivesUp
-----------------------------------------------------------------------------
(***************************************************************************)
(* Properties.                                                             *)
(***************************************************************************)

\* A connection that the client uses is one the server has accepted, on the
\* same terms: compressor and stream credit are those of both, and a server
\* with a secret has seen it (docs/protocol.md:24-40).
HandshakeAgrees ==
  cstep = "done" =>
    /\ sstep = "done" /\ cgot = sgot
    /\ cgot.credit => client.credit /\ server.credit
    /\ server.secret # "" => client.secret = server.secret

\* A client is told of a permanent error only if there is one: releases of
\* different age with the same wire format, compressor and secret connect,
\* with or without authentication (docs/protocol.md:29-37), unless the peer
\* manager refuses.
RefusedWithReason ==
  /\ cerr # "protocol"
  /\ cerr = "auth" => server.secret \notin {"", client.secret}
=============================================================================
