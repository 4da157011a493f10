-------------------------------- MODULE Link --------------------------------
(***************************************************************************)
(* What the two ends of a connection share: the handshake, the socket, the *)
(* frames on their way and the operations that the accepting side starts.  *)
(*                                                                         *)
(* A Client has one connection after the other, and an operation belongs   *)
(* to one of them.  Request IDs are per connection: operations of          *)
(* different connections may have the same (Conn.nextRequestID starts      *)
(* again for every Conn).  A frame names its operation, but the client     *)
(* looks up the request ID only.                                           *)
(***************************************************************************)
EXTENDS Handshake, Sequences, FiniteSets

CONSTANTS
  Conns,   \* connections, in the order of their use
  Ops,     \* calls, notifications and streams opened by the accepting side
  ConnOf,  \* the connection of an operation
  IdOf,    \* its request ID
  Loads    \* what a behaviour is about: see LoadType

Kinds  == {"call", "async", "single", "notify", "server", "client", "bidi"}
Unary  == {"call", "async", "single"}
Stream == {"server", "client", "bidi"}
Events == {"loss", "close", "cancel", "deadline", "busy", "silence", "refuse"}

\* A load bounds a behaviour: its connections, operations and their kinds,
\* what may go wrong, and the configurations of both sides.
LoadType == [conns : SUBSET Conns, ops : SUBSET Ops, kinds : SUBSET Kinds,
             events : SUBSET Events, clients : SUBSET Clients,
             servers : SUBSET Servers]

\* The frames that are about an operation.
FrameTypes == {"request", "notify", "response", "start", "end", "error", "cancel"}
FrameSet   == [type : FrameTypes, op : Ops]

ASSUME LinkAssumption ==
  /\ Conns \subseteq Nat /\ Nil \notin Conns \cup Ops
  /\ DOMAIN ConnOf = Ops /\ \A o \in Ops : ConnOf[o] \in Conns
  /\ DOMAIN IdOf = Ops
  /\ \A o, p \in Ops : ConnOf[o] = ConnOf[p] /\ IdOf[o] = IdOf[p] => o = p
  /\ Loads \subseteq LoadType
ASSUME NilIsNoFrame == Nil \notin FrameSet

VARIABLES
  load,
  dialing,    \* the connection being dialed
  kind,       \* the kind of an operation
  toClient,   \* frames from the accepting side, per connection
  toServer    \* frames from the dialing side

wires == <<toClient, toServer>>
May(event) == event \in load.events

LinkInit ==
  /\ load \in Loads
  /\ HandshakeInit /\ client \in load.clients
  /\ dialing = Nil
  /\ kind = [o \in Ops |-> "call"]
  /\ toClient = [k \in Conns |-> <<>>] /\ toServer = [k \in Conns |-> <<>>]

Frame(type, o) == [type |-> type, op |-> o]

SendToClient(type, o) ==
  toClient' = [toClient EXCEPT ![ConnOf[o]] = Append(@, Frame(type, o))]
SendToServer(type, o) ==
  toServer' = [toServer EXCEPT ![ConnOf[o]] = Append(@, Frame(type, o))]
=============================================================================
