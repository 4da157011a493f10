---------------------------- MODULE DispatchProofs ----------------------------
(***************************************************************************)
(* Proofs about the dialing side as a server of requests: its tables are   *)
(* keyed by request ID and outlive connections, and yet the entries of a   *)
(* connection are found while it is current, and ended once it is not; and *)
(* about the frames of an operation, on their way to its handler and back. *)
(***************************************************************************)
EXTENDS Dispatch, TLAPS

ReaderPcs  == {"none", "read", "handle", "add", "track", "cancel", "gone"}
HandlerPcs == {"none", "run", "write", "finish", "untrack", "over"}

\* The reader holds a frame.
Holding == {"handle", "add", "track", "cancel"}

HandlerTypes ==
  /\ reader \in [Conns -> ReaderPcs] /\ rframe \in [Conns -> FrameSet \cup {Nil}]
  /\ hpc \in [Ops -> HandlerPcs] /\ conn \in Conns \cup {Nil}

TableTypes ==
  /\ losing \in Conns \cup {Nil} /\ lossAt \in {"none", "streams", "requests"}
  /\ closePc \in {"open", "conn", "streams", "requests", "done"}
  /\ streams \in [Ids -> Ops \cup {Nil}] /\ requests \in [Ids -> Ops \cup {Nil}]
  /\ hdone \subseteq Ops /\ rctx \subseteq Ops

\* A frame that is held is about an operation of the reader's connection, and
\* fits its kind.
HeldFits ==
  \A k \in Conns : reader[k] \in Holding =>
    /\ rframe[k] \in FrameSet /\ ConnOf[rframe[k].op] = k
    /\ rframe[k].type \in {"request", "notify"} => kind[rframe[k].op] \notin Stream
    /\ rframe[k].type \in {"start", "error"} => kind[rframe[k].op] \in Stream

\* Where the reader is fits the frame.
HeldInv ==
  \A k \in Conns :
    /\ rframe[k] # Nil <=> reader[k] \in Holding
    /\ reader[k] \in {"add", "track"} => rframe[k].type = "start"
    /\ reader[k] = "cancel" => rframe[k].type = "cancel"

\* connectionLost has taken the connection before it holds on to connMu, and
\* so has Close; no attempt to connect is under way beside a connection.
ConnInv ==
  /\ losing # Nil => conn = Nil /\ lossAt # "none"
  /\ losing = Nil => lossAt = "none"
  /\ closePc \notin {"open", "conn"} => conn = Nil /\ losing = Nil
  /\ conn # Nil => reader[conn] # "none"
  /\ cstep \in {"ack", "authAck", "done"} => conn = Nil /\ reader[dialing] = "none"

\* The reader has added the stream, and has yet to start its handler.
Tracking(o) == reader[ConnOf[o]] = "track" /\ rframe[ConnOf[o]].op = o

\* What the tables owe to an operation: a handler can be found or has been
\* told to end, and what a lost connection leaves behind is on its way out.
Tabled(o) ==
  /\ hpc[o] # "none" => reader[ConnOf[o]] # "none"
  /\ kind[o] \in Stream /\ (Running(o) \/ Tracking(o)) => streams[IdOf[o]] = o \/ o \in hdone
  /\ Running(o) => requests[IdOf[o]] = o \/ o \in rctx
  /\ Running(o) /\ Current(o) => requests[IdOf[o]] = o
  /\ Running(o) /\ ~Current(o) /\ losing = Nil /\ closePc \notin {"streams", "requests"} =>
       o \in rctx
  /\ streams[IdOf[o]] = o /\ ~Current(o) =>
       Tracking(o) \/ lossAt = "streams" \/ closePc = "streams"

TablesInv == TableTypes /\ HeldInv /\ ConnInv /\ \A o \in Ops : Tabled(o)
-----------------------------------------------------------------------------
(***************************************************************************)
(* Local steps: they start no handler, and take nothing out of a table but *)
(* streams that are done; connectionLost may begin.                        *)
(***************************************************************************)

MayLose ==
  \/ UNCHANGED <<conn, losing, lossAt>>
  \/ /\ losing = Nil /\ conn # Nil
     /\ conn' = Nil /\ losing' \in Conns /\ lossAt' = "streams"

MayFinish ==
  /\ streams' \in [Ids -> Ops \cup {Nil}] /\ hdone \subseteq hdone' /\ hdone' \subseteq Ops
  /\ \A o \in Ops :
       /\ streams'[IdOf[o]] = o => streams[IdOf[o]] = o
       /\ streams[IdOf[o]] = o => streams'[IdOf[o]] = o \/ o \in hdone'

ReaderMoves(k) ==
  \/ reader'[k] = reader[k] /\ rframe'[k] = rframe[k]
  \/ reader[k] = "read" /\ reader'[k] = "handle" /\ rframe'[k] \in FrameSet
  \/ reader[k] = "read" /\ reader'[k] = "gone" /\ rframe'[k] = rframe[k]
  \/ /\ reader[k] = "handle" /\ rframe'[k] = rframe[k]
     /\ \/ reader'[k] = "add" /\ rframe[k].type = "start"
        \/ reader'[k] = "cancel" /\ rframe[k].type = "cancel"
  \/ reader[k] \in Holding /\ reader'[k] = "read" /\ rframe'[k] = Nil

Local ==
  /\ MayLose /\ MayFinish /\ \A k \in Conns : ReaderMoves(k)
  /\ requests' = requests /\ rctx \subseteq rctx' /\ rctx' \subseteq Ops
  /\ closePc' = closePc \/ (closePc = "open" /\ closePc' = "conn")
  /\ \A o \in Ops :
       /\ Running(o)' => Running(o)
       /\ hpc'[o] # "none" => hpc[o] # "none"
       /\ Tracking(o) /\ streams'[IdOf[o]] = o => Tracking(o)'

\* A reader of a Local step.
LEMMA ReaderLocal ==
  ASSUME NEW k \in Conns, ReaderMoves(k)
  PROVE  /\ reader'[k] = "none" <=> reader[k] = "none"
         /\ reader'[k] = "track" => reader[k] = "track" /\ rframe'[k] = rframe[k]
  BY ZenonT(30) DEF ReaderMoves, Holding

\* Local steps keep what the tables owe to an operation.
LEMMA TabledLocal ==
  ASSUME HandlerTypes, NEW o \in Ops, Tabled(o), Local,
         Running(o) \/ Tracking(o) => kind'[o] = kind[o]
  PROVE  Tabled(o)'
<1>1. ConnOf[o] \in Conns /\ ConnOf[o] # Nil
  BY ZenonT(30), LinkAssumption
<1>2. hpc'[o] # "none" => reader'[ConnOf[o]] # "none"
  BY ZenonT(30), <1>1, ReaderLocal DEF Local, Tabled
<1>3. /\ requests' = requests /\ (o \in hdone => o \in hdone') /\ (o \in rctx => o \in rctx')
      /\ Running(o)' => Running(o)
      /\ Tracking(o)' => Tracking(o)
      /\ streams'[IdOf[o]] = o => streams[IdOf[o]] = o /\ (Tracking(o) => Tracking(o)')
      /\ streams[IdOf[o]] = o => streams'[IdOf[o]] = o \/ o \in hdone'
  <2>1. Tracking(o)' => Tracking(o)
    BY ZenonT(30), <1>1, ReaderLocal DEF Local, Tracking
  <2>2. QED
    BY ZenonT(30), <2>1 DEF Local, MayFinish
<1>4. CASE UNCHANGED <<conn, losing, lossAt>>
  <2>1. closePc' \in {"streams", "requests"} <=> closePc \in {"streams", "requests"}
    BY ZenonT(30) DEF Local
  <2>2. closePc = "streams" => closePc' = "streams"
    BY ZenonT(30) DEF Local
  <2>3. QED
    BY ZenonT(30), <1>2, <1>3, <1>4, <2>1, <2>2 DEF Tabled, Current
<1>5. CASE conn' = Nil /\ losing' \in Conns /\ lossAt' = "streams"
  <2>1. ~Current(o)' /\ losing' # Nil
    BY ZenonT(30), <1>1, <1>5, LinkAssumption DEF Current
  <2>2. QED
    BY ZenonT(30), <1>2, <1>3, <1>5, <2>1 DEF Tabled
<1>6. QED
  BY ZenonT(30), <1>4, <1>5 DEF Local, MayLose

\* They keep the rest.
LEMMA TablesLocal ==
  ASSUME HandlerTypes, TablesInv, Local, UNCHANGED <<cstep, dialing>>,
         cstep \in {"ack", "authAck", "done"} => dialing \in Conns,
         \A o \in Ops : Running(o) \/ Tracking(o) => kind'[o] = kind[o]
  PROVE  TablesInv'
<1>1. TableTypes'
  BY ZenonT(30) DEF TablesInv, TableTypes, Local, MayLose, MayFinish
<1>2. ASSUME NEW k \in Conns
      PROVE  /\ rframe'[k] # Nil <=> reader'[k] \in Holding
             /\ reader'[k] \in {"add", "track"} => rframe'[k].type = "start"
             /\ reader'[k] = "cancel" => rframe'[k].type = "cancel"
  BY ZenonT(30), NilIsNoFrame DEF TablesInv, HeldInv, Local, ReaderMoves, Holding
<1>3. ConnInv'
  BY ZenonT(30), LinkAssumption, ReaderLocal DEF HandlerTypes, TablesInv, ConnInv, Local,
     MayLose
<1>4. QED
  BY ZenonT(30), <1>1, <1>2, <1>3, TabledLocal DEF TablesInv, HeldInv

\* Ingredients of Local: connectionLost,
LEMMA LoseLocal ==
  ASSUME NEW k \in Conns, connMu, Lose(k) \/ UNCHANGED <<conn, losing, lossAt>>
  PROVE  MayLose
  BY ZenonT(30), LinkAssumption DEF Lose, MayLose, connMu

\* Stream.finish,
LEMMA FinishLocal ==
  ASSUME TableTypes, NEW S \in SUBSET Ops,
         HandlerFinishAll(S) \/ UNCHANGED <<hdone, streams>>
  PROVE  MayFinish /\ (HandlerFinishAll(S) => \A o \in S : streams'[IdOf[o]] # o)
  BY LinkAssumption DEF TableTypes, HandlerFinishAll, MayFinish, Ids

\* steps that are not the reader's,
LEMMA ReaderRests ==
  ASSUME UNCHANGED <<reader, rframe>>
  PROVE  (\A k \in Conns : ReaderMoves(k)) /\ \A o \in Ops : Tracking(o) => Tracking(o)'
  BY ZenonT(30) DEF ReaderMoves, Tracking

\* steps of a reader that has added no stream,
LEMMA ReaderGoes ==
  ASSUME HandlerTypes, NEW k \in Conns, NEW pc, NEW f,
         reader' = [reader EXCEPT ![k] = pc],
         rframe' = [rframe EXCEPT ![k] = f] \/ (rframe' = rframe /\ f = rframe[k]),
         \/ reader[k] = "read" /\ pc = "handle" /\ f \in FrameSet
         \/ reader[k] = "read" /\ pc = "gone" /\ f = rframe[k]
         \/ /\ reader[k] = "handle" /\ f = rframe[k]
            /\ \/ pc = "add" /\ rframe[k].type = "start"
               \/ pc = "cancel" /\ rframe[k].type = "cancel"
         \/ reader[k] \in Holding /\ pc = "read" /\ f = Nil
  PROVE  /\ \A j \in Conns : ReaderMoves(j)
         /\ reader[k] # "track" => \A o \in Ops : Tracking(o) => Tracking(o)'
<1>1. /\ reader'[k] = pc /\ rframe'[k] = f
      /\ \A j \in Conns \ {k} : reader'[j] = reader[j] /\ rframe'[j] = rframe[j]
  BY ZenonT(30) DEF HandlerTypes
<1>2. ReaderMoves(k)
  BY ZenonT(30), <1>1 DEF ReaderMoves
<1>3. ASSUME NEW j \in Conns, j # k PROVE ReaderMoves(j)
  BY ZenonT(30), <1>1, <1>3 DEF ReaderMoves
<1>4. ASSUME reader[k] # "track", NEW o \in Ops, Tracking(o) PROVE Tracking(o)'
  BY ZenonT(30), <1>1, <1>4, LinkAssumption DEF Tracking
<1>5. QED
  BY ZenonT(30), <1>2, <1>3, <1>4

\* and the handlers.
LEMMA HandlerGoes ==
  ASSUME HandlerTypes, NEW o \in Ops, NEW pc, Running(o),
         hpc' = hpc \/ hpc' = [hpc EXCEPT ![o] = pc]
  PROVE  \A p \in Ops : (Running(p)' => Running(p)) /\ (hpc'[p] # "none" => hpc[p] # "none")
  BY ZenonT(30) DEF HandlerTypes, Running

\* The Local steps of a reader: one case per action.
LEMMA ReaderStepsLocal ==
  ASSUME HandlerTypes, TablesInv, HeldFits, NEW k \in Conns,
         \/ ReaderEnds(k) \/ deliverStreamFrame(k) \/ cancel(k)
         \/ \E stream \in Stream : configure(k, stream)
         \/ ClientReads(k) /\ Head(toClient[k]) \in FrameSet
  PROVE  Local
<1>0. TableTypes /\ (\A i \in Ids : streams[i] # Nil => streams[i] \in Ops)
      /\ (\A i \in Ids : requests[i] # Nil => requests[i] \in Ops)
  BY ZenonT(30) DEF TablesInv, TableTypes
<1>1. CASE \/ ReaderEnds(k) \/ \E stream \in Stream : configure(k, stream)
           \/ ClientReads(k) /\ Head(toClient[k]) \in FrameSet
  <2>0. UNCHANGED <<requests, rctx, closePc, hpc, conn, losing, lossAt, hdone, streams>>
    BY ZenonT(30), <1>1 DEF ReaderEnds, ClientReads, configure
  <2>1. MayLose /\ MayFinish
    BY ZenonT(30), <1>0, <2>0 DEF MayLose, MayFinish, TableTypes
  <2>2. rctx' \subseteq Ops
    BY ZenonT(30), <1>0, <2>0 DEF TableTypes
  <2>3. CASE ReaderEnds(k)
    <3>1. reader[k] = "read" /\ reader' = [reader EXCEPT ![k] = "gone"] /\ rframe' = rframe
      BY ZenonT(30), <2>3 DEF ReaderEnds, ReaderGoto
    <3>2. QED
      BY ZenonT(30), <2>0, <2>1, <2>2, <3>1, ReaderGoes DEF Local, Running
  <2>4. ASSUME NEW stream \in Stream, configure(k, stream) PROVE Local
    <3>1. /\ reader[k] = "handle" /\ rframe[k].type = "start"
          /\ reader' = [reader EXCEPT ![k] = "add"] /\ rframe' = rframe
      BY ZenonT(30), <2>4 DEF configure, ReaderGoto
    <3>2. QED
      BY ZenonT(30), <2>0, <2>1, <2>2, <3>1, ReaderGoes DEF Local, Running
  <2>5. CASE ClientReads(k) /\ Head(toClient[k]) \in FrameSet
    <3>1. /\ reader[k] = "read" /\ reader' = [reader EXCEPT ![k] = "handle"]
          /\ rframe' = [rframe EXCEPT ![k] = Head(toClient[k])]
      BY ZenonT(30), <2>5 DEF ClientReads, ReaderGoto
    <3>2. QED
      BY ZenonT(30), <2>0, <2>1, <2>2, <2>5, <3>1, ReaderGoes DEF Local, Running
  <2>6. QED
    BY ZenonT(30), <1>1, <2>3, <2>4, <2>5
<1>2. CASE deliverStreamFrame(k)
  <2> DEFINE o == streams[IdOf[rframe[k].op]]
  <2>1. /\ reader[k] = "handle"
        /\ \/ /\ reader' = [reader EXCEPT ![k] = "cancel"] /\ rframe' = rframe
              /\ rframe[k].type = "cancel"
           \/ reader' = [reader EXCEPT ![k] = "read"] /\ rframe' = [rframe EXCEPT ![k] = Nil]
    BY ZenonT(30), <1>2 DEF deliverStreamFrame, ReaderGoto
  <2>2. /\ UNCHANGED <<requests, rctx, closePc, hpc, conn, losing, lossAt>>
        /\ (o # Nil /\ HandlerFinishAll({o})) \/ UNCHANGED <<hdone, streams>>
    BY ZenonT(30), <1>2 DEF deliverStreamFrame
  <2>3. (\A j \in Conns : ReaderMoves(j)) /\ \A p \in Ops : Tracking(p) => Tracking(p)'
    <3>1. reader[k] # "track" /\ reader[k] \in Holding
      BY ZenonT(30), <2>1 DEF Holding
    <3>2. QED
      BY ZenonT(30), <2>1, <3>1, ReaderGoes
  <2>4. IdOf[rframe[k].op] \in Ids
    BY ZenonT(30), <2>1 DEF HeldFits, Holding, FrameSet, Ids
  <2>5. MayFinish
    <3>1. CASE UNCHANGED <<hdone, streams>>
      BY ZenonT(30), <1>0, <3>1, FinishLocal
    <3>2. CASE o # Nil /\ HandlerFinishAll({o})
      <4>1. {o} \in SUBSET Ops
        BY ZenonT(30), <1>0, <2>4, <3>2
      <4> HIDE DEF o
      <4>2. QED
        BY ZenonT(30), <1>0, <3>2, <4>1, FinishLocal
    <3>3. QED
      BY ZenonT(30), <2>2, <3>1, <3>2
  <2>6. MayLose /\ rctx' \subseteq Ops
    BY ZenonT(30), <1>0, <2>2 DEF MayLose, TableTypes
  <2>7. QED
    BY ZenonT(30), <2>2, <2>3, <2>5, <2>6 DEF Local, Running
<1>3. CASE cancel(k)
  <2>1. /\ reader[k] = "cancel" /\ reader' = [reader EXCEPT ![k] = "read"]
        /\ rframe' = [rframe EXCEPT ![k] = Nil]
        /\ rctx' = rctx \cup ({requests[IdOf[rframe[k].op]]} \ {Nil})
        /\ UNCHANGED <<requests, closePc, hpc, conn, losing, lossAt, hdone, streams>>
    BY ZenonT(30), <1>3 DEF cancel, ReaderGoto
  <2>2. IdOf[rframe[k].op] \in Ids
    BY ZenonT(30), <2>1 DEF HeldFits, Holding, FrameSet, Ids
  <2>3. MayLose /\ MayFinish /\ rctx' \subseteq Ops /\ rctx \subseteq rctx'
    BY ZenonT(30), <1>0, <2>1, <2>2 DEF MayLose, MayFinish, TableTypes
  <2>4. (\A j \in Conns : ReaderMoves(j)) /\ \A p \in Ops : Tracking(p) => Tracking(p)'
    <3>1. reader[k] # "track" /\ reader[k] \in Holding
      BY ZenonT(30), <2>1 DEF Holding
    <3>2. QED
      BY ZenonT(30), <2>1, <3>1, ReaderGoes
  <2>5. QED
    BY ZenonT(30), <2>1, <2>3, <2>4 DEF Local, Running
<1>4. QED
  BY ZenonT(30), <1>1, <1>2, <1>3

\* The Local steps of a handler.
LEMMA HandlerStepsLocal ==
  ASSUME HandlerTypes, TablesInv, NEW o \in Ops,
         \/ HandlerReturns(o) \/ GrantFails(o) \/ HandlerReplies(o) \/ HandlerCloseSend(o)
         \/ HandlerFinish(o) \/ watchContext(o) \/ HandlerOut(o)
  PROVE  Local
<1>0. TableTypes /\ ConnOf[o] \in Conns
  BY ZenonT(30), LinkAssumption DEF TablesInv
<1>1. UNCHANGED <<requests, closePc, reader, rframe>>
  BY ZenonT(30) DEF HandlerReturns, GrantFails, HandlerReplies, HandlerCloseSend,
     HandlerFinish, watchContext, HandlerOut
<1>2. MayLose
  <2>1. CASE UNCHANGED <<conn, losing, lossAt>>
    BY ZenonT(30), <2>1 DEF MayLose
  <2>2. CASE HandlerReturns(o) \/ HandlerFinish(o) \/ watchContext(o)
    BY ZenonT(30), <2>1, <2>2 DEF HandlerReturns, HandlerFinish, watchContext
  <2>3. CASE GrantFails(o) \/ HandlerReplies(o) \/ HandlerCloseSend(o) \/ HandlerOut(o)
    <3>1. connMu /\ (Lose(ConnOf[o]) \/ UNCHANGED <<conn, losing, lossAt>>)
      BY ZenonT(30), <2>3 DEF GrantFails, HandlerReplies, HandlerCloseSend, HandlerOut,
         HandlerWrite
    <3>2. QED
      BY ZenonT(30), <1>0, <3>1, LoseLocal
  <2>4. QED
    BY ZenonT(30), <2>2, <2>3
<1>3. MayFinish
  <2>1. HandlerFinishAll({o}) \/ UNCHANGED <<hdone, streams>>
    BY ZenonT(30) DEF HandlerReturns, GrantFails, HandlerReplies, HandlerCloseSend,
       HandlerFinish, watchContext, HandlerOut
  <2>2. QED
    BY ZenonT(30), <1>0, <2>1, FinishLocal
<1>4. rctx \subseteq rctx' /\ rctx' \subseteq Ops
  <2>1. rctx' = rctx \/ rctx' = rctx \cup {o}
    BY ZenonT(30) DEF HandlerReturns, GrantFails, HandlerReplies, HandlerCloseSend,
       HandlerFinish, watchContext, HandlerOut
  <2>2. QED
    BY ZenonT(30), <1>0, <2>1 DEF TableTypes
<1>5. \A p \in Ops : (Running(p)' => Running(p)) /\ (hpc'[p] # "none" => hpc[p] # "none")
  <2>1. CASE hpc' = hpc
    BY ZenonT(30), <2>1 DEF Running
  <2>2. CASE Running(o) /\ \E pc \in {"write", "finish", "untrack"} : hpc' = [hpc EXCEPT ![o] = pc]
    BY ZenonT(30), <2>2, HandlerGoes
  <2>3. CASE HandlerReturns(o) \/ GrantFails(o) \/ HandlerReplies(o) \/ HandlerCloseSend(o)
             \/ HandlerFinish(o)
    BY ZenonT(30), <2>1, <2>2, <2>3 DEF HandlerReturns, GrantFails, HandlerReplies,
       HandlerCloseSend, HandlerFinish, HandlerGoto, Running
  <2>4. QED
    BY ZenonT(30), <2>1, <2>3 DEF watchContext, HandlerOut
<1>6. QED
  BY ZenonT(30), <1>1, <1>2, <1>3, <1>4, <1>5, ReaderRests DEF Local

\* Close, and the two ways to find a connection lost.
LEMMA LossesLocal ==
  ASSUME HandlerTypes, TablesInv,
         UNCHANGED <<requests, rctx, hpc, rframe, streams, hdone>>,
         \/ Close \/ PingTimeout
         \/ \E k \in Conns : /\ reader[k] = "read" /\ connMu /\ Lose(k)
                             /\ ReaderGoto(k, "gone") /\ UNCHANGED closePc
  PROVE  Local
<1>0. TableTypes
  BY ZenonT(30) DEF TablesInv
<1>1. /\ MayFinish /\ rctx \subseteq rctx' /\ rctx' \subseteq Ops
      /\ \A o \in Ops : (Running(o)' => Running(o)) /\ (hpc'[o] # "none" => hpc[o] # "none")
  BY ZenonT(30), <1>0 DEF TableTypes, MayFinish, Running
<1>2. CASE Close \/ PingTimeout
  <2>1. MayLose
    BY ZenonT(30), <1>2, LoseLocal DEF Close, PingTimeout, MayLose, HandlerTypes
  <2>2. reader' = reader /\ (closePc' = closePc \/ (closePc = "open" /\ closePc' = "conn"))
    BY ZenonT(30), <1>2 DEF Close, PingTimeout
  <2>3. QED
    BY ZenonT(30), <1>1, <2>1, <2>2, ReaderRests DEF Local
<1>3. ASSUME NEW k \in Conns, reader[k] = "read", connMu, Lose(k), ReaderGoto(k, "gone"),
             UNCHANGED closePc
      PROVE  Local
  <2>1. MayLose
    BY ZenonT(30), <1>3, LoseLocal
  <2>2. (\A j \in Conns : ReaderMoves(j)) /\ \A p \in Ops : Tracking(p) => Tracking(p)'
    BY ZenonT(30), <1>3, ReaderGoes DEF ReaderGoto
  <2>3. QED
    BY ZenonT(30), <1>1, <1>3, <2>1, <2>2 DEF Local
<1>4. QED
  BY ZenonT(30), <1>2, <1>3
-----------------------------------------------------------------------------
(***************************************************************************)
(* The steps that clear a table.                                           *)
(***************************************************************************)

\* failStreams, by connectionLost or by Close.
LEMMA StreamsFail ==
  ASSUME HandlerTypes, TablesInv, LossStreams \/ ClientCloseStreams,
         UNCHANGED <<kind, cstep, dialing>>
  PROVE  TablesInv'
<1>1. /\ failStreams /\ UNCHANGED <<conn, losing, reader, rframe, requests, hpc, rctx>>
      /\ \/ lossAt = "streams" /\ lossAt' = "requests" /\ closePc' = closePc
         \/ closePc = "streams" /\ closePc' = "requests" /\ lossAt' = lossAt
  BY ZenonT(30) DEF LossStreams, ClientCloseStreams
<1>2. TableTypes
  BY ZenonT(30) DEF TablesInv
<1>3. TableTypes' /\ hdone \subseteq hdone'
  BY ZenonT(30), <1>1, <1>2 DEF TableTypes, failStreams
<1>4. \A o \in Ops : streams'[IdOf[o]] = Nil /\ (streams[IdOf[o]] = o => o \in hdone')
  BY ZenonT(30), <1>1, LinkAssumption DEF failStreams, Ids
<1>5. HeldInv' /\ ConnInv'
  BY ZenonT(30), <1>1 DEF TablesInv, HeldInv, ConnInv
<1>6. ASSUME NEW o \in Ops PROVE Tabled(o)'
  <2>1. Tabled(o) /\ streams'[IdOf[o]] # o /\ (o \in hdone => o \in hdone')
    BY ZenonT(30), <1>3, <1>4, LinkAssumption DEF TablesInv
  <2>2. lossAt = "streams" => losing # Nil
    BY ZenonT(30) DEF TablesInv, ConnInv
  <2>3. /\ (Running(o)' <=> Running(o)) /\ (Tracking(o)' <=> Tracking(o))
        /\ (Current(o)' <=> Current(o))
    BY ZenonT(30), <1>1 DEF Running, Tracking, Current
  <2>4. closePc' \notin {"streams", "requests"} => closePc \notin {"streams", "requests"}
    BY ZenonT(30), <1>1
  <2>5. QED
    BY ZenonT(30), <1>1, <1>4, <2>1, <2>3, <2>4 DEF Tabled
<1>7. QED
  BY ZenonT(30), <1>3, <1>5, <1>6 DEF TablesInv

\* cancelRequests, by connectionLost or by Close.
LEMMA RequestsFail ==
  ASSUME HandlerTypes, TablesInv, LossRequests \/ CloseRequests,
         UNCHANGED <<kind, cstep, dialing>>
  PROVE  TablesInv'
<1>1. /\ cancelRequests /\ UNCHANGED <<conn, reader, rframe, streams, hpc, hdone>>
      /\ \/ /\ lossAt = "requests" /\ lossAt' = "none" /\ losing' = Nil
            /\ closePc' = closePc
         \/ /\ closePc = "requests" /\ closePc' = "done"
            /\ UNCHANGED <<lossAt, losing>>
  BY ZenonT(30) DEF LossRequests, CloseRequests
<1>2. TableTypes
  BY ZenonT(30) DEF TablesInv
<1>3. TableTypes' /\ rctx \subseteq rctx'
  BY ZenonT(30), <1>1, <1>2 DEF TableTypes, cancelRequests
<1>4. \A o \in Ops : requests[IdOf[o]] = o => o \in rctx'
  BY ZenonT(30), <1>1, LinkAssumption DEF cancelRequests, Ids
<1>5. conn = Nil
  BY ZenonT(30), <1>1 DEF TablesInv, ConnInv
<1>6. HeldInv' /\ ConnInv'
  BY ZenonT(30), <1>1 DEF TablesInv, HeldInv, ConnInv
<1>7. ASSUME NEW o \in Ops PROVE Tabled(o)'
  <2>1. Tabled(o) /\ (o \in rctx => o \in rctx') /\ ~Current(o)
    BY ZenonT(30), <1>3, <1>5, LinkAssumption DEF TablesInv, Current
  <2>2. /\ (Running(o)' <=> Running(o)) /\ (Tracking(o)' <=> Tracking(o)) /\ ~Current(o)'
    BY ZenonT(30), <1>1, <2>1 DEF Running, Tracking, Current
  <2>3. (lossAt = "streams" => lossAt' = "streams") /\ (closePc = "streams" => closePc' = "streams")
    BY ZenonT(30), <1>1
  <2>4. Running(o) => o \in rctx'
    BY ZenonT(30), <1>4, <2>1 DEF Tabled
  <2>5. QED
    BY ZenonT(30), <1>1, <2>1, <2>2, <2>3, <2>4 DEF Tabled
<1>8. QED
  BY ZenonT(30), <1>3, <1>6, <1>7 DEF TablesInv

\* Close takes the connection.
LEMMA ConnCloses ==
  ASSUME HandlerTypes, TablesInv, CloseConn, UNCHANGED <<kind, cstep, dialing>>
  PROVE  TablesInv'
<1>1. /\ closePc = "conn" /\ losing = Nil /\ closePc' = "streams" /\ conn' = Nil
      /\ UNCHANGED <<losing, lossAt, reader, rframe, streams, requests, hpc, hdone, rctx>>
  BY ZenonT(30) DEF CloseConn, connMu
<1>2. TableTypes'
  BY ZenonT(30), <1>1 DEF TablesInv, TableTypes
<1>3. HeldInv' /\ ConnInv'
  BY ZenonT(30), <1>1 DEF TablesInv, HeldInv, ConnInv
<1>4. ASSUME NEW o \in Ops PROVE Tabled(o)'
  <2>1. Tabled(o) /\ ~Current(o)'
    BY ZenonT(30), <1>1, LinkAssumption DEF TablesInv, Current
  <2>2. (Running(o)' <=> Running(o)) /\ (Tracking(o)' <=> Tracking(o))
    BY ZenonT(30), <1>1 DEF Running, Tracking
  <2>3. QED
    BY ZenonT(30), <1>1, <2>1, <2>2 DEF Tabled
<1>5. QED
  BY ZenonT(30), <1>2, <1>3, <1>4 DEF TablesInv
-----------------------------------------------------------------------------
(***************************************************************************)
(* The steps that add to a table, and untrackRequest.  An entry that is    *)
(* overwritten or removed is of the current connection, or the context of  *)
(* its handler has ended.                                                  *)
(***************************************************************************)

\* While nothing is lost or closed, a handler of another connection has been
\* told to end.
LEMMA OthersEnded ==
  ASSUME TablesInv, connMu, closePc \in {"open", "conn"}, NEW o \in Ops, Running(o), ~Current(o)
  PROVE  o \in rctx
  BY ZenonT(30) DEF TablesInv, Tabled, connMu

\* Two operations of the current connection have different IDs.
LEMMA SameId ==
  ASSUME NEW o \in Ops, NEW p \in Ops, IdOf[p] = IdOf[o], Current(o), Current(p)
  PROVE  p = o
  BY ZenonT(30), LinkAssumption DEF Current

\* What the reader does when it tracks a request, or finds that it may not.
Tracks(k, o) ==
  /\ connMu /\ trackRequest(k, o)
  /\ \/ reader[k] = "handle" /\ kind[o] \notin Stream
     \/ reader[k] = "track" /\ kind[o] \in Stream
  /\ UNCHANGED <<conn, losing, lossAt, closePc, rctx>>

\* For another connection, or a closed client, nothing is tracked.
LEMMA TracksLocal ==
  ASSUME HandlerTypes, TablesInv, NEW k \in Conns, NEW o \in Ops, rframe[k].op = o,
         Tracks(k, o), conn # k \/ clientClosed
  PROVE  Local
<1>1. /\ reader' = [reader EXCEPT ![k] = "read"] /\ rframe' = [rframe EXCEPT ![k] = Nil]
      /\ UNCHANGED <<requests, hpc, conn, losing, lossAt, closePc, rctx>>
      /\ \/ reader[k] = "handle" /\ UNCHANGED <<hdone, streams>>
         \/ reader[k] = "track" /\ HandlerFinishAll({o})
  BY ZenonT(30) DEF Tracks, trackRequest, ReaderGoto
<1>2. TableTypes
  BY ZenonT(30) DEF TablesInv
<1>3. MayFinish /\ (reader[k] = "track" => streams'[IdOf[o]] # o)
  BY ZenonT(30), <1>1, <1>2, FinishLocal
<1>4. MayLose /\ rctx' \subseteq Ops /\ rctx \subseteq rctx'
  BY ZenonT(30), <1>1, <1>2 DEF MayLose, TableTypes
<1>5. \A j \in Conns : ReaderMoves(j)
  BY ZenonT(30), <1>1, ReaderGoes DEF Holding
<1>6. ASSUME NEW p \in Ops, Tracking(p), streams'[IdOf[p]] = p PROVE Tracking(p)'
  <2>1. p # o \/ reader[k] # "track"
    BY ZenonT(30), <1>3, <1>6
  <2>2. ConnOf[p] # k /\ ConnOf[p] \in Conns
    BY ZenonT(30), <1>1, <1>6, <2>1, LinkAssumption DEF Tracking
  <2>3. QED
    BY ZenonT(30), <1>1, <1>6, <2>2 DEF Tracking, HandlerTypes
<1>7. QED
  BY ZenonT(30), <1>1, <1>3, <1>4, <1>5, <1>6 DEF Local, Running

\* The handler of the current connection gets its entries, and starts.
LEMMA HandlerTracked ==
  ASSUME HandlerTypes, TablesInv, NEW k \in Conns, NEW o \in Ops, rframe[k].op = o,
         ConnOf[o] = k, Tracks(k, o), conn = k, ~clientClosed,
         UNCHANGED <<kind, cstep, dialing>>
  PROVE  TablesInv'
<1>1. /\ reader' = [reader EXCEPT ![k] = "read"] /\ rframe' = [rframe EXCEPT ![k] = Nil]
      /\ requests' = [requests EXCEPT ![IdOf[o]] = o] /\ hpc' = [hpc EXCEPT ![o] = "run"]
      /\ UNCHANGED <<hdone, streams, conn, losing, lossAt, closePc, rctx>>
      /\ \/ reader[k] = "handle" /\ kind[o] \notin Stream
         \/ reader[k] = "track" /\ kind[o] \in Stream
      /\ losing = Nil /\ closePc = "open"
  BY ZenonT(30) DEF Tracks, trackRequest, ReaderGoto, connMu, clientClosed
<1>2. TableTypes /\ IdOf[o] \in Ids /\ Nil \notin Conns
  BY ZenonT(30), LinkAssumption DEF TablesInv, Ids
<1>3. TableTypes'
  BY ZenonT(30), <1>1, <1>2 DEF TableTypes
<1>4. HeldInv' /\ ConnInv'
  BY <1>1 DEF HandlerTypes, TablesInv, HeldInv, ConnInv, Holding
<1>5. /\ reader'[k] = "read" /\ requests'[IdOf[o]] = o
      /\ \A j \in Conns \ {k} : reader'[j] = reader[j] /\ rframe'[j] = rframe[j]
      /\ \A p \in Ops \ {o} : hpc'[p] = hpc[p]
      /\ \A p \in Ops : IdOf[p] # IdOf[o] => requests'[IdOf[p]] = requests[IdOf[p]]
  BY ZenonT(30), <1>1, <1>2 DEF HandlerTypes, TableTypes, Ids
<1>6. Tabled(o)'
  <2>1. Tabled(o) /\ Current(o)'
    BY ZenonT(30), <1>1 DEF TablesInv, Current
  <2>2. kind[o] \in Stream => Tracking(o)
    BY ZenonT(30), <1>1 DEF Tracking
  <2>3. kind[o] \in Stream => streams[IdOf[o]] = o \/ o \in hdone
    BY ZenonT(30), <2>1, <2>2 DEF Tabled
  <2>4. QED
    BY ZenonT(30), <1>1, <1>5, <2>1, <2>3 DEF Tabled
<1>7. ASSUME NEW p \in Ops, p # o PROVE Tabled(p)'
  <2>1. Tabled(p) /\ ConnOf[p] \in Conns
    BY ZenonT(30), LinkAssumption DEF TablesInv
  <2>2. /\ (Running(p)' <=> Running(p)) /\ (Current(p)' <=> Current(p))
        /\ (hpc'[p] # "none" <=> hpc[p] # "none")
    BY ZenonT(30), <1>1, <1>5, <1>7 DEF Running, Current
  <2>3. Tracking(p)' <=> Tracking(p)
    <3>1. CASE ConnOf[p] = k
      BY ZenonT(30), <1>1, <1>5, <1>7, <3>1 DEF Tracking
    <3>2. CASE ConnOf[p] # k
      BY ZenonT(30), <1>5, <2>1, <3>2 DEF Tracking
    <3>3. QED
      BY ZenonT(30), <3>1, <3>2
  <2>4. Running(p) /\ IdOf[p] = IdOf[o] => p \in rctx /\ ~Current(p)
    <3>1. Current(o) /\ connMu /\ closePc \in {"open", "conn"}
      BY ZenonT(30), <1>1 DEF Current, connMu
    <3>2. QED
      BY ZenonT(30), <1>7, <3>1, OthersEnded, SameId
  <2>5. reader'[ConnOf[p]] = "none" => reader[ConnOf[p]] = "none"
    BY ZenonT(30), <1>1, <1>5, <2>1
  <2>6. QED
    BY ZenonT(30), <1>1, <1>5, <2>1, <2>2, <2>3, <2>4, <2>5 DEF Tabled
<1>8. QED
  BY ZenonT(30), <1>3, <1>4, <1>6, <1>7 DEF TablesInv

\* addStream takes an ID that is free, or refuses.
LEMMA StreamAdded ==
  ASSUME HandlerTypes, TablesInv, HeldFits, NEW k \in Conns, ClientAddStream(k),
         UNCHANGED <<kind, cstep, dialing>>,
         cstep \in {"ack", "authAck", "done"} => dialing \in Conns
  PROVE  TablesInv'
<1>0. PICK o : o = rframe[k].op
  OBVIOUS
<1>1. /\ reader[k] = "add"
      /\ \/ /\ streams[IdOf[o]] = Nil /\ streams' = [streams EXCEPT ![IdOf[o]] = o]
            /\ reader' = [reader EXCEPT ![k] = "track"] /\ rframe' = rframe
         \/ /\ reader' = [reader EXCEPT ![k] = "read"] /\ rframe' = [rframe EXCEPT ![k] = Nil]
            /\ streams' = streams
      /\ UNCHANGED <<conn, losing, lossAt, closePc, requests, hpc, hdone, rctx>>
  BY ZenonT(30), <1>0 DEF ClientAddStream, ReaderGoto
<1>2. o \in Ops /\ ConnOf[o] = k
  BY ZenonT(30), <1>0, <1>1 DEF HeldFits, Holding, FrameSet
<1>3. TableTypes /\ IdOf[o] \in Ids /\ Nil \notin Conns
  BY ZenonT(30), <1>2, LinkAssumption DEF TablesInv, Ids
<1>4. CASE /\ reader' = [reader EXCEPT ![k] = "read"] /\ rframe' = [rframe EXCEPT ![k] = Nil]
           /\ streams' = streams
  <2>1. MayLose /\ MayFinish /\ rctx' \subseteq Ops
    BY ZenonT(30), <1>1, <1>3, <1>4 DEF MayLose, MayFinish, TableTypes
  <2>2. (\A j \in Conns : ReaderMoves(j)) /\ \A p \in Ops : Tracking(p) => Tracking(p)'
    <3>1. reader[k] # "track" /\ reader[k] \in Holding
      BY ZenonT(30), <1>1 DEF Holding
    <3>2. QED
      BY ZenonT(30), <1>4, <3>1, ReaderGoes
  <2>3. Local
    BY ZenonT(30), <1>1, <2>1, <2>2 DEF Local, Running
  <2>4. QED
    BY ZenonT(30), <2>3, TablesLocal
<1>5. CASE /\ streams[IdOf[o]] = Nil /\ streams' = [streams EXCEPT ![IdOf[o]] = o]
           /\ reader' = [reader EXCEPT ![k] = "track"] /\ rframe' = rframe
  <2>1. TableTypes'
    BY ZenonT(30), <1>1, <1>2, <1>3, <1>5 DEF TableTypes
  <2>2. HeldInv' /\ ConnInv'
    <3>1. rframe[k].type = "start" /\ rframe[k] # Nil
      BY ZenonT(30), <1>1 DEF TablesInv, HeldInv, Holding
    <3>2. HeldInv'
      BY ZenonT(30), <1>5, <3>1 DEF HandlerTypes, TablesInv, HeldInv, Holding
    <3>3. ConnInv'
      BY ZenonT(30), <1>1, <1>5 DEF HandlerTypes, TablesInv, ConnInv
    <3>4. QED
      BY ZenonT(30), <3>2, <3>3
  <2>3. /\ reader'[k] = "track" /\ streams'[IdOf[o]] = o
        /\ \A j \in Conns \ {k} : reader'[j] = reader[j] /\ rframe'[j] = rframe[j]
        /\ \A p \in Ops : IdOf[p] # IdOf[o] => streams'[IdOf[p]] = streams[IdOf[p]]
    BY ZenonT(30), <1>2, <1>3, <1>5 DEF HandlerTypes, TableTypes, Ids
  <2>4. Tracking(o)'
    BY ZenonT(30), <1>0, <1>2, <1>5, <2>3 DEF Tracking
  <2>5. Tabled(o)'
    <3>1. Tabled(o)
      BY ZenonT(30), <1>2 DEF TablesInv
    <3>2. reader'[k] # "none" /\ (Running(o)' <=> Running(o)) /\ (Current(o)' <=> Current(o))
      BY ZenonT(30), <1>1, <2>3 DEF Running, Current
    <3>3. QED
      BY ZenonT(30), <1>1, <1>2, <2>3, <2>4, <3>1, <3>2 DEF Tabled
  <2>6. ASSUME NEW p \in Ops, p # o PROVE Tabled(p)'
    <3>1. Tabled(p) /\ ConnOf[p] \in Conns /\ Nil # p
      BY ZenonT(30), LinkAssumption DEF TablesInv
    <3>2. (Running(p)' <=> Running(p)) /\ (Current(p)' <=> Current(p))
      BY ZenonT(30), <1>1 DEF Running, Current
    <3>3. Tracking(p)' <=> Tracking(p)
      <4>1. CASE ConnOf[p] = k
        BY ZenonT(30), <1>0, <1>1, <1>5, <2>3, <2>6, <4>1 DEF Tracking
      <4>2. CASE ConnOf[p] # k
        BY ZenonT(30), <2>3, <3>1, <4>2 DEF Tracking
      <4>3. QED
        BY ZenonT(30), <4>1, <4>2
    <3>4. streams'[IdOf[p]] = p <=> streams[IdOf[p]] = p
      BY ZenonT(30), <1>5, <2>3, <2>6, <3>1
    <3>5. reader'[ConnOf[p]] = "none" => reader[ConnOf[p]] = "none"
      BY ZenonT(30), <2>3, <3>1
    <3>6. QED
      BY ZenonT(30), <1>1, <3>1, <3>2, <3>3, <3>4, <3>5 DEF Tabled
  <2>7. QED
    BY ZenonT(30), <2>1, <2>2, <2>5, <2>6 DEF TablesInv
<1>6. QED
  BY ZenonT(30), <1>1, <1>4, <1>5

\* untrackRequest takes out the entry of its own connection only.
LEMMA RequestUntracked ==
  ASSUME HandlerTypes, TablesInv, NEW o \in Ops, untrackRequest(o),
         UNCHANGED <<kind, cstep, dialing>>
  PROVE  TablesInv'
<1>1. /\ hpc[o] = "untrack" /\ hpc' = [hpc EXCEPT ![o] = "over"] /\ losing = Nil
      /\ requests' = IF Current(o) THEN [requests EXCEPT ![IdOf[o]] = Nil] ELSE requests
      /\ UNCHANGED <<conn, losing, lossAt, closePc, reader, rframe, streams, hdone, rctx>>
  BY ZenonT(30) DEF untrackRequest, HandlerGoto, connMu
<1>2. TableTypes /\ IdOf[o] \in Ids /\ Nil \notin Conns
  BY ZenonT(30), LinkAssumption DEF TablesInv, Ids
<1>3. TableTypes'
  BY ZenonT(30), <1>1, <1>2 DEF TableTypes
<1>4. HeldInv' /\ ConnInv'
  BY ZenonT(30), <1>1 DEF TablesInv, HeldInv, ConnInv
<1>5. ASSUME NEW p \in Ops PROVE Tabled(p)'
  <2>1. Tabled(p) /\ ConnOf[p] \in Conns
    BY ZenonT(30), LinkAssumption DEF TablesInv
  <2>2. /\ (Current(p)' <=> Current(p)) /\ (Tracking(p)' <=> Tracking(p))
    BY ZenonT(30), <1>1 DEF Current, Tracking
  <2>3. (Running(p)' <=> Running(p)) /\ (hpc'[p] # "none" <=> hpc[p] # "none")
    BY ZenonT(30), <1>1 DEF Running, HandlerTypes
  <2>4. Running(p) => requests'[IdOf[p]] = requests[IdOf[p]] \/ (p \in rctx /\ ~Current(p))
    <3>1. CASE Running(p) /\ Current(o) /\ IdOf[p] = IdOf[o]
      <4>1. p # o /\ connMu /\ closePc \in {"open", "conn"}
        <5>1. p # o /\ connMu /\ conn # Nil
          BY ZenonT(30), <1>1, <1>2, <2>1, <3>1, LinkAssumption DEF Running, connMu, Current
        <5>2. QED
          BY ZenonT(30), <5>1 DEF TablesInv, ConnInv
      <4>2. QED
        BY ZenonT(30), <3>1, <4>1, OthersEnded, SameId
    <3>2. CASE ~Current(o) \/ IdOf[p] # IdOf[o]
      BY ZenonT(30), <1>1, <1>2, <3>2 DEF TableTypes, Ids
    <3>3. QED
      BY ZenonT(30), <3>1, <3>2
  <2>5. QED
    BY ZenonT(30), <1>1, <2>1, <2>2, <2>3, <2>4 DEF Tabled
<1>6. QED
  BY ZenonT(30), <1>3, <1>4, <1>5 DEF TablesInv

\* Steps that leave the tables alone, of the callers and of the handshake.
LEMMA TablesFrame ==
  ASSUME TablesInv,
         UNCHANGED <<conn, losing, lossAt, closePc, reader, rframe, streams, requests, hpc,
                     hdone, rctx>>,
         cstep' \in {"ack", "authAck", "done"} => conn = Nil /\ reader[dialing'] = "none",
         \A o \in Ops : Running(o) \/ Tracking(o) => kind'[o] = kind[o]
  PROVE  TablesInv'
<1>1. TableTypes' /\ HeldInv'
  BY ZenonT(30) DEF TablesInv, TableTypes, HeldInv
<1>2. ConnInv'
  BY ZenonT(30) DEF TablesInv, ConnInv
<1>3. ASSUME NEW o \in Ops PROVE Tabled(o)'
  <2>1. /\ Tabled(o) /\ (Running(o)' <=> Running(o)) /\ (Tracking(o)' <=> Tracking(o))
        /\ Current(o)' <=> Current(o)
    BY ZenonT(30) DEF TablesInv, Running, Tracking, Current
  <2>2. QED
    BY ZenonT(30), <2>1 DEF Tabled
<1>4. QED
  BY ZenonT(30), <1>1, <1>2, <1>3 DEF TablesInv

\* setConn and readLoop: the connection is a fresh one, for which nothing runs.
LEMMA ConnSet ==
  ASSUME HandlerTypes, TablesInv, dialing \in Conns, cstep = "done", connMu, ~clientClosed,
         conn' = dialing, reader' = [reader EXCEPT ![dialing] = "read"],
         UNCHANGED <<losing, lossAt, closePc, rframe, streams, requests, hpc, hdone, rctx, kind>>,
         cstep' = "none"
  PROVE  TablesInv'
<1>1. conn = Nil /\ reader[dialing] = "none" /\ losing = Nil /\ closePc = "open"
  BY ZenonT(30) DEF TablesInv, ConnInv, connMu, clientClosed
<1>2. TableTypes' /\ HeldInv'
  BY ZenonT(30), <1>1 DEF HandlerTypes, TablesInv, TableTypes, HeldInv, Holding
<1>3. ConnInv'
  BY ZenonT(30), <1>1 DEF HandlerTypes, TablesInv, ConnInv
<1>4. ASSUME NEW o \in Ops PROVE Tabled(o)'
  <2>1. Tabled(o) /\ ConnOf[o] \in Conns /\ ~Current(o)
    BY ZenonT(30), <1>1, LinkAssumption DEF TablesInv, Current
  <2>2. Running(o)' <=> Running(o)
    BY ZenonT(30) DEF Running
  <2>3. Tracking(o)' <=> Tracking(o)
    BY ZenonT(30), <1>1, <2>1 DEF Tracking, HandlerTypes
  <2>4. Current(o)' => hpc[o] = "none"
    BY ZenonT(30), <1>1, <2>1 DEF Tabled, Current
  <2>5. reader'[ConnOf[o]] = "none" => reader[ConnOf[o]] = "none"
    BY ZenonT(30), <2>1 DEF HandlerTypes
  <2>6. Running(o) => hpc[o] # "none"
    BY ZenonT(30) DEF Running
  <2>7. QED
    BY ZenonT(30), <2>1, <2>2, <2>3, <2>4, <2>5, <2>6 DEF Tabled
<1>5. QED
  BY ZenonT(30), <1>2, <1>3, <1>4 DEF TablesInv
-----------------------------------------------------------------------------
\* Every step of the dialing side keeps what its tables owe.
LEMMA TablesStep ==
  ASSUME HandlerTypes, TablesInv, HeldFits, DispatchStep, UNCHANGED <<kind, cstep, dialing>>,
         cstep \in {"ack", "authAck", "done"} => dialing \in Conns,
         \A k \in Conns : toClient[k] # <<>> => Head(toClient[k]) \in FrameSet
  PROVE  TablesInv'
<1>1. CASE Local
  BY ZenonT(30), <1>1, TablesLocal
<1>2. ASSUME NEW k \in Conns,
             \/ ReaderEnds(k) \/ deliverStreamFrame(k) \/ cancel(k) \/ ClientReads(k)
             \/ startServerStream(k) \/ startClientStream(k) \/ startBidiStream(k)
      PROVE  TablesInv'
  <2>1. ClientReads(k) => Head(toClient[k]) \in FrameSet
    BY ZenonT(30) DEF ClientReads
  <2>2. \/ ReaderEnds(k) \/ deliverStreamFrame(k) \/ cancel(k)
        \/ \E stream \in Stream : configure(k, stream)
        \/ ClientReads(k) /\ Head(toClient[k]) \in FrameSet
    BY ZenonT(30), <1>2, <2>1 DEF startServerStream, startClientStream, startBidiStream,
       Stream
  <2>3. QED
    BY ZenonT(30), <1>1, <2>2, ReaderStepsLocal
<1>3. ASSUME NEW k \in Conns, startRequest(k) \/ startNotify(k) \/ trackStream(k)
      PROVE  TablesInv'
  <2>1. /\ connMu /\ trackRequest(k, rframe[k].op)
        /\ UNCHANGED <<conn, losing, lossAt, closePc, rctx>>
        /\ \/ reader[k] = "handle" /\ rframe[k].type \in {"request", "notify"}
           \/ reader[k] = "track"
    BY ZenonT(30), <1>3 DEF startRequest, startNotify, trackStream
  <2>2. PICK o : o = rframe[k].op
    OBVIOUS
  <2>3. /\ o \in Ops /\ ConnOf[o] = k
        /\ \/ reader[k] = "handle" /\ kind[o] \notin Stream
           \/ reader[k] = "track" /\ kind[o] \in Stream
    <3>1. reader[k] = "track" => rframe[k].type = "start"
      BY ZenonT(30) DEF TablesInv, HeldInv
    <3>2. QED
      BY ZenonT(30), <2>1, <2>2, <3>1 DEF HeldFits, Holding, FrameSet
  <2>4. Tracks(k, o)
    BY ZenonT(30), <2>1, <2>2, <2>3 DEF Tracks
  <2>5. QED
    BY ZenonT(30), <1>1, <2>2, <2>3, <2>4, TracksLocal, HandlerTracked
<1>4. ASSUME NEW k \in Conns, ClientAddStream(k) PROVE TablesInv'
  BY ZenonT(30), <1>4, StreamAdded
<1>5. ASSUME NEW o \in Ops, \/ HandlerReturns(o) \/ GrantFails(o) \/ HandlerReplies(o)
                            \/ HandlerCloseSend(o) \/ HandlerFinish(o) \/ watchContext(o)
                            \/ HandlerOut(o)
      PROVE  TablesInv'
  BY ZenonT(30), <1>1, <1>5, HandlerStepsLocal
<1>6. ASSUME NEW o \in Ops, untrackRequest(o) PROVE TablesInv'
  BY ZenonT(30), <1>6, RequestUntracked
<1>7. CASE LossStreams \/ ClientCloseStreams \/ LossRequests \/ CloseRequests \/ CloseConn
  BY ZenonT(30), <1>7, StreamsFail, RequestsFail, ConnCloses
<1>8. CASE Close \/ PingTimeout
  <2>1. UNCHANGED <<requests, rctx, hpc, rframe, streams, hdone>>
    BY ZenonT(30), <1>8 DEF Close, PingTimeout
  <2>2. QED
    BY ZenonT(30), <1>1, <1>8, <2>1, LossesLocal
<1>9. QED
  BY ZenonT(30), <1>2, <1>3, <1>4, <1>5, <1>6, <1>7, <1>8 DEF DispatchStep, ReaderStep

\* What an invariant of the tables says when nothing is under way.
LEMMA CleanupFollows ==
  ASSUME TablesInv, NEW o \in Ops
  PROVE  /\ Running(o) /\ Current(o) =>
              /\ requests[IdOf[o]] = o
              /\ kind[o] \in Stream /\ o \notin hdone => streams[IdOf[o]] = o
         /\ connMu /\ closePc \in {"open", "done"} /\ ~Current(o) =>
              /\ Running(o) => o \in rctx
              /\ streams[IdOf[o]] = o => reader[ConnOf[o]] = "track"
<1>1. Tabled(o) /\ (losing = Nil => lossAt = "none")
  BY ZenonT(30) DEF TablesInv, ConnInv
<1>2. Running(o) /\ Current(o) =>
        /\ requests[IdOf[o]] = o
        /\ kind[o] \in Stream /\ o \notin hdone => streams[IdOf[o]] = o
  BY ZenonT(30), <1>1 DEF Tabled
<1>3. connMu /\ closePc \in {"open", "done"} /\ ~Current(o) =>
        /\ Running(o) => o \in rctx
        /\ streams[IdOf[o]] = o => reader[ConnOf[o]] = "track"
  BY ZenonT(30), <1>1 DEF Tabled, connMu, Tracking
<1>4. QED
  BY ZenonT(30), <1>2, <1>3
-----------------------------------------------------------------------------
(***************************************************************************)
(* The frames of an operation, from the wire to its handler.               *)
(***************************************************************************)

First == {"request", "notify", "start"}   \* frames that start a handler
Stops == {"cancel", "error"}              \* frames that stop one
Past  == {"write", "finish", "untrack", "over"}

\* A frame of one of the types is about the operation: on the wire, or held.
Has(s, o, types)  == \E i \in 1..Len(s) : s[i].op = o /\ s[i].type \in types
Holds(o, types)   == /\ rframe[ConnOf[o]] # Nil /\ rframe[ConnOf[o]].op = o
                     /\ rframe[ConnOf[o]].type \in types
Coming(o, types)  == Holds(o, types) \/ Has(toClient[ConnOf[o]], o, types)

\* Nothing of an operation is ahead of its first frame.
Ordered(s) ==
  \A i \in 1..Len(s) : s[i].type \in First => \A j \in 1..(i - 1) : s[j].op # s[i].op

OrderInv ==
  /\ \A k \in Conns : /\ Ordered(toClient[k])
                      /\ rframe[k] # Nil => ~Has(toClient[k], rframe[k].op, First)
  /\ \A o \in Ops : hpc[o] # "none" => ~Coming(o, First)

\* The handler has returned or been told to, or there will be none.
Ended(o) ==
  \/ o \in rctx \cup hdone \/ hpc[o] \in Past
  \/ hpc[o] = "none" /\ ~Coming(o, First)

\* What a handler answers with, and what a stream it has finished still writes.
RepliesInv ==
  /\ hout \in [Ops -> {"none", "cancel", "error"}]
  /\ reply \in [Ops -> {"none", "response", "error", "end"}]
  /\ \A o \in Ops : hpc[o] = "write" => reply[o] # "none"
  /\ \A o \in Ops : hout[o] # "none" => hpc[o] # "none" /\ o \in hdone

\* A reader leaves its frame alone, has dealt with it, or takes the next.
ReadsOn(k) ==
  \/ rframe'[k] = rframe[k] /\ toClient'[k] = toClient[k]
  \/ /\ rframe[k] # Nil /\ rframe'[k] = Nil /\ toClient'[k] = toClient[k]
     /\ rframe[k].type \in Stops /\ hpc[rframe[k].op] = "run" /\ conn = k =>
          rframe[k].op \in rctx' \cup hdone'
  \/ /\ rframe[k] = Nil /\ toClient[k] # <<>>
     /\ rframe'[k] = Head(toClient[k]) /\ toClient'[k] = Tail(toClient[k])

\* A handler moves on, or its first frame starts it.
Moves(o) ==
  \/ hpc'[o] = hpc[o] \/ (hpc[o] # "none" /\ hpc'[o] \in Past)
  \/ hpc'[o] = "run" /\ Holds(o, First) /\ rframe'[ConnOf[o]] = Nil /\ toClient' = toClient

\* Frames back come from a handler that has returned, from a stream that is
\* done, or from addStream.
Answers(o) ==
  \/ hpc[o] = "write" /\ hpc'[o] = "finish"
  \/ hout[o] # "none"
  \/ /\ reader[ConnOf[o]] = "add" /\ rframe[ConnOf[o]].op = o
     /\ rframe'[ConnOf[o]] = Nil /\ hpc' = hpc /\ toClient' = toClient

Advance ==
  /\ rctx \subseteq rctx' /\ hdone \subseteq hdone' /\ conn' \in {conn, Nil}
  /\ \A k \in Conns : (reader'[k] = "none" <=> reader[k] = "none") /\ ReadsOn(k)
  /\ \A o \in Ops : Moves(o)
  /\ \/ toServer' = toServer
     \/ \E o \in Ops, type \in {"response", "error", "end", "cancel"} :
          SendToServer(type, o) /\ Answers(o)

\* What Lose and Stream.finish mean for a step to be an advance.
LEMMA LoseAdvances ==
  ASSUME NEW k, Lose(k)
  PROVE  conn' \in {conn, Nil}
  BY ZenonT(30) DEF Lose

\* A step that leaves the readers alone.
LEMMA RestAdvances ==
  ASSUME HandlerTypes, NEW o \in Ops, UNCHANGED <<reader, rframe, toClient>>,
         \/ hpc' = hpc
         \/ hpc[o] # "none" /\ \E step \in Past : hpc' = [hpc EXCEPT ![o] = step],
         rctx \subseteq rctx', hdone \subseteq hdone', conn' \in {conn, Nil},
         \/ toServer' = toServer
         \/ \E type \in {"response", "error", "end", "cancel"} :
              SendToServer(type, o) /\ Answers(o)
  PROVE  Advance
<1>1. \A k \in Conns : (reader'[k] = "none" <=> reader[k] = "none") /\ ReadsOn(k)
  BY ZenonT(30) DEF ReadsOn
<1>2. \A p \in Ops : Moves(p)
  BY ZenonT(30) DEF Moves, HandlerTypes
<1>3. QED
  BY ZenonT(30), <1>1, <1>2 DEF Advance

\* One case per action of a handler.
LEMMA HandlersAdvance ==
  ASSUME HandlerTypes, RepliesInv, NEW o \in Ops,
         \/ HandlerReturns(o) \/ GrantFails(o) \/ HandlerReplies(o)
         \/ HandlerCloseSend(o) \/ HandlerFinish(o) \/ untrackRequest(o)
         \/ watchContext(o) \/ HandlerOut(o)
  PROVE  Advance
<1> USE DEF wires
<1>1. CASE HandlerReturns(o)
  <2>1. /\ UNCHANGED <<reader, rframe, toClient, rctx, hdone, conn, toServer>>
        /\ HandlerGoto(o, "finish") \/ HandlerGoto(o, "write")
        /\ hpc[o] # "none"
    BY ZenonT(30), <1>1 DEF HandlerReturns
  <2>2. QED
    BY ZenonT(30), <2>1, RestAdvances DEF HandlerGoto, Past
<1>2. CASE GrantFails(o)
  <2>1. /\ UNCHANGED <<reader, rframe, toClient, rctx, hdone, toServer>>
        /\ HandlerGoto(o, "finish") /\ Lose(ConnOf[o]) /\ hpc[o] # "none"
    BY ZenonT(30), <1>2 DEF GrantFails
  <2>2. QED
    BY ZenonT(30), <2>1, RestAdvances, LoseAdvances DEF HandlerGoto, Past
<1>3. CASE HandlerReplies(o)
  <2>1. /\ UNCHANGED <<reader, rframe, rctx, hdone>> /\ hpc[o] = "write" /\ reply[o] # "end"
        /\ \/ UNCHANGED <<hpc, conn, toClient, toServer>>
           \/ HandlerWrite(reply[o], o) /\ HandlerGoto(o, "finish")
    BY ZenonT(30), <1>3 DEF HandlerReplies
  <2>2. CASE UNCHANGED <<hpc, conn, toClient, toServer>>
    BY ZenonT(30), <2>1, <2>2, RestAdvances
  <2>3. CASE HandlerWrite(reply[o], o) /\ HandlerGoto(o, "finish")
    <3>1. /\ toClient' = toClient
          /\ \/ conn' = conn /\ SendToServer(reply[o], o)
             \/ Lose(ConnOf[o]) /\ toServer' = toServer
      BY ZenonT(30), <2>3 DEF HandlerWrite
    <3>2. reply[o] \in {"response", "error"}
      BY ZenonT(30), <2>1 DEF RepliesInv
    <3>3. hpc'[o] = "finish"
      BY ZenonT(30), <2>3 DEF HandlerTypes, HandlerGoto
    <3>4. Answers(o)
      BY ZenonT(30), <2>1, <3>3 DEF Answers
    <3>5. QED
      BY ZenonT(30), <2>1, <2>3, <3>1, <3>2, <3>4, RestAdvances, LoseAdvances DEF
         HandlerGoto, Past
  <2>4. QED
    BY ZenonT(30), <2>1, <2>2, <2>3
<1>4. CASE HandlerCloseSend(o)
  <2>1. /\ UNCHANGED <<reader, rframe, rctx>> /\ hpc[o] = "write" /\ HandlerGoto(o, "finish")
        /\ toClient' = toClient /\ (hdone' = hdone \/ HandlerFinishAll({o}))
        /\ \/ conn' = conn /\ (toServer' = toServer \/ SendToServer("end", o))
           \/ Lose(ConnOf[o]) /\ toServer' = toServer
    BY ZenonT(30), <1>4 DEF HandlerCloseSend
  <2>2. hpc'[o] = "finish" /\ hdone \subseteq hdone'
    BY ZenonT(30), <2>1 DEF HandlerTypes, HandlerGoto, HandlerFinishAll
  <2>3. Answers(o)
    BY ZenonT(30), <2>1, <2>2 DEF Answers
  <2>4. QED
    BY ZenonT(30), <2>1, <2>2, <2>3, RestAdvances, LoseAdvances DEF HandlerGoto, Past
<1>5. CASE HandlerFinish(o) \/ untrackRequest(o) \/ watchContext(o)
  <2>1. /\ UNCHANGED <<reader, rframe, toClient, toServer, conn>>
        /\ hpc' = hpc \/ HandlerGoto(o, "untrack") \/ HandlerGoto(o, "over")
        /\ hdone' = hdone \/ HandlerFinishAll({o})
        /\ rctx' = rctx \/ rctx' = rctx \cup {o}
        /\ hpc[o] # "none"
    BY ZenonT(30), <1>5 DEF HandlerFinish, untrackRequest, watchContext
  <2>2. rctx \subseteq rctx' /\ hdone \subseteq hdone'
    BY ZenonT(30), <2>1 DEF HandlerFinishAll
  <2>3. QED
    BY ZenonT(30), <2>1, <2>2, RestAdvances DEF HandlerGoto, Past
<1>6. CASE HandlerOut(o)
  <2>1. /\ UNCHANGED <<reader, rframe, rctx, hdone, hpc>> /\ hout[o] # "none"
        /\ HandlerWrite(hout[o], o)
    BY ZenonT(30), <1>6 DEF HandlerOut
  <2>2. /\ toClient' = toClient
        /\ \/ conn' = conn /\ SendToServer(hout[o], o)
           \/ Lose(ConnOf[o]) /\ toServer' = toServer
    BY ZenonT(30), <2>1 DEF HandlerWrite
  <2>3. hout[o] \in {"cancel", "error"} /\ Answers(o)
    BY ZenonT(30), <2>1 DEF RepliesInv, Answers
  <2>4. QED
    BY ZenonT(30), <2>1, <2>2, <2>3, RestAdvances, LoseAdvances
<1>7. QED
  BY ZenonT(30), <1>1, <1>2, <1>3, <1>4, <1>5, <1>6

\* A step of one reader.
LEMMA ReaderAdvances ==
  ASSUME HandlerTypes, NEW k \in Conns, reader[k] # "none",
         NEW step \in ReaderPcs \ {"none"}, ReaderGoto(k, step), ReadsOn(k),
         rframe' = rframe \/ \E f : rframe' = [rframe EXCEPT ![k] = f],
         \A j \in Conns \ {k} : toClient'[j] = toClient[j],
         rctx \subseteq rctx', hdone \subseteq hdone', conn' = conn,
         \A o \in Ops : Moves(o),
         \/ toServer' = toServer
         \/ \E o \in Ops, type \in {"response", "error", "end", "cancel"} :
              SendToServer(type, o) /\ Answers(o)
  PROVE  Advance
<1>1. \A j \in Conns : reader'[j] = "none" <=> reader[j] = "none"
  BY ZenonT(30) DEF ReaderGoto, HandlerTypes
<1>2. \A j \in Conns \ {k} : rframe'[j] = rframe[j]
  BY ZenonT(30) DEF HandlerTypes
<1>3. \A j \in Conns : ReadsOn(j)
  BY ZenonT(30), <1>2 DEF ReadsOn
<1>4. QED
  BY ZenonT(30), <1>1, <1>3 DEF Advance

\* A reader that takes a frame, or moves on with it.
LEMMA ReadersAdvance ==
  ASSUME HandlerTypes, HeldInv, toClient \in [Conns -> Seq(FrameSet)],
         NEW k \in Conns,
         \/ ClientReads(k) \/ ReaderEnds(k) \/ \E stream \in Stream : configure(k, stream)
  PROVE  Advance
<1> USE DEF wires
<1>1. CASE ClientReads(k)
  <2>1. /\ reader[k] = "read" /\ ReaderGoto(k, "handle") /\ toClient[k] # <<>>
        /\ toClient' = [toClient EXCEPT ![k] = Tail(toClient[k])]
        /\ rframe' = [rframe EXCEPT ![k] = Head(toClient[k])]
        /\ UNCHANGED <<conn, hpc, rctx, hdone, toServer>>
    BY ZenonT(30), <1>1 DEF ClientReads
  <2>2. rframe[k] = Nil
    BY ZenonT(30), <2>1 DEF HeldInv, Holding
  <2>3. ReadsOn(k)
    BY ZenonT(30), <2>1, <2>2 DEF ReadsOn, HandlerTypes
  <2>4. \A j \in Conns \ {k} : toClient'[j] = toClient[j]
    BY ZenonT(30), <2>1
  <2>5. QED
    BY ZenonT(30), <2>1, <2>3, <2>4, ReaderAdvances DEF Moves, ReaderPcs
<1>2. CASE ReaderEnds(k) \/ \E stream \in Stream : configure(k, stream)
  <2>1. /\ reader[k] \in {"read", "handle"} /\ (ReaderGoto(k, "gone") \/ ReaderGoto(k, "add"))
        /\ UNCHANGED <<rframe, toClient, conn, hpc, rctx, hdone, toServer>>
    BY ZenonT(30), <1>2 DEF ReaderEnds, configure
  <2>2. ReadsOn(k)
    BY ZenonT(30), <2>1 DEF ReadsOn
  <2>3. QED
    BY ZenonT(30), <2>1, <2>2, ReaderAdvances DEF Moves, ReaderPcs
<1>3. QED
  BY ZenonT(30), <1>1, <1>2

\* trackRequest starts a handler with the first frame of its operation.
LEMMA TrackAdvances ==
  ASSUME HandlerTypes, HeldInv, HeldFits, NEW k \in Conns,
         startRequest(k) \/ startNotify(k) \/ trackStream(k)
  PROVE  Advance
<1> USE DEF wires
<1>1. /\ reader[k] \in {"handle", "track"} /\ trackRequest(k, rframe[k].op)
      /\ reader[k] = "handle" => rframe[k].type \in {"request", "notify"}
      /\ UNCHANGED <<toClient, toServer, conn, rctx>>
  BY ZenonT(30) DEF startRequest, startNotify, trackStream
<1>2. PICK o : o = rframe[k].op
  OBVIOUS
<1>3. /\ o \in Ops /\ ConnOf[o] = k /\ rframe[k] # Nil /\ rframe[k].type \in First
  BY ZenonT(30), <1>1, <1>2 DEF HeldFits, HeldInv, Holding, FrameSet, First
<1>4. /\ ReaderGoto(k, "read") /\ rframe' = [rframe EXCEPT ![k] = Nil]
      /\ hpc' = hpc \/ hpc' = [hpc EXCEPT ![o] = "run"]
      /\ hdone \subseteq hdone'
  BY ZenonT(30), <1>1, <1>2 DEF trackRequest, HandlerFinishAll
<1>5. \A p \in Ops : Moves(p)
  <2>1. Holds(o, First) /\ rframe'[ConnOf[o]] = Nil
    BY ZenonT(30), <1>2, <1>3, <1>4 DEF Holds, HandlerTypes
  <2>2. \A p \in Ops \ {o} : hpc'[p] = hpc[p]
    BY ZenonT(30), <1>3, <1>4 DEF HandlerTypes
  <2>3. hpc'[o] = hpc[o] \/ hpc'[o] = "run"
    BY ZenonT(30), <1>3, <1>4 DEF HandlerTypes
  <2>4. QED
    BY ZenonT(30), <1>1, <2>1, <2>2, <2>3 DEF Moves
<1>6. ReadsOn(k)
  BY ZenonT(30), <1>1, <1>3, <1>4 DEF ReadsOn, HandlerTypes, First, Stops
<1>7. QED
  BY ZenonT(30), <1>1, <1>4, <1>5, <1>6, ReaderAdvances DEF ReaderPcs

\* addStream: the stream is added, or its start frame is answered.
LEMMA AddAdvances ==
  ASSUME HandlerTypes, HeldInv, HeldFits, NEW k \in Conns, ClientAddStream(k)
  PROVE  Advance
<1> USE DEF wires
<1>1. PICK o : o = rframe[k].op
  OBVIOUS
<1>2. /\ reader[k] = "add" /\ UNCHANGED <<toClient, conn, hpc, rctx, hdone>>
      /\ \/ ReaderGoto(k, "track") /\ UNCHANGED <<rframe, toServer>>
         \/ /\ ReaderGoto(k, "read") /\ rframe' = [rframe EXCEPT ![k] = Nil]
            /\ toServer' = toServer \/ SendToServer("error", o)
  BY ZenonT(30), <1>1 DEF ClientAddStream
<1>3. /\ o \in Ops /\ ConnOf[o] = k /\ rframe[k] # Nil /\ rframe[k].type = "start"
  BY ZenonT(30), <1>1, <1>2 DEF HeldFits, HeldInv, Holding, FrameSet
<1>4. \A p \in Ops : Moves(p)
  BY ZenonT(30), <1>2 DEF Moves
<1>5. CASE ReaderGoto(k, "track") /\ UNCHANGED <<rframe, toServer>>
  <2>1. ReadsOn(k)
    BY ZenonT(30), <1>2, <1>5 DEF ReadsOn
  <2>2. QED
    BY ZenonT(30), <1>2, <1>4, <1>5, <2>1, ReaderAdvances DEF ReaderPcs
<1>6. CASE /\ ReaderGoto(k, "read") /\ rframe' = [rframe EXCEPT ![k] = Nil]
           /\ toServer' = toServer \/ SendToServer("error", o)
  <2>1. ReadsOn(k) /\ rframe'[k] = Nil
    BY ZenonT(30), <1>2, <1>3, <1>6 DEF ReadsOn, HandlerTypes, Stops
  <2>2. Answers(o)
    BY ZenonT(30), <1>1, <1>2, <1>3, <2>1 DEF Answers
  <2>3. QED
    BY ZenonT(30), <1>2, <1>3, <1>4, <1>6, <2>1, <2>2, ReaderAdvances DEF ReaderPcs
<1>7. QED
  BY ZenonT(30), <1>2, <1>5, <1>6

\* deliverStreamFrame and cancel reach a handler of the current connection.
LEMMA FramesReach ==
  ASSUME HandlerTypes, TablesInv, HeldFits, NEW k \in Conns,
         deliverStreamFrame(k) \/ cancel(k)
  PROVE  Advance
<1> USE DEF wires
<1>1. PICK o : o = rframe[k].op
  OBVIOUS
<1>2. /\ UNCHANGED <<toClient, toServer, conn, hpc>> /\ reader[k] \in {"handle", "cancel"}
      /\ \/ ReaderGoto(k, "cancel") /\ rframe' = rframe
         \/ ReaderGoto(k, "read") /\ rframe' = [rframe EXCEPT ![k] = Nil]
      /\ hdone \subseteq hdone' /\ rctx \subseteq rctx'
  <2>1. CASE deliverStreamFrame(k)
    BY ZenonT(30), <2>1 DEF deliverStreamFrame, HandlerFinishAll
  <2>2. CASE cancel(k)
    BY ZenonT(30), <2>2 DEF cancel
  <2>3. QED
    BY ZenonT(30), <2>1, <2>2
<1>3. /\ o \in Ops /\ ConnOf[o] = k /\ rframe[k] # Nil /\ Tabled(o)
      /\ reader[k] = "cancel" => rframe[k].type = "cancel"
      /\ rframe[k].type = "error" => kind[o] \in Stream
  BY ZenonT(30), <1>1, <1>2 DEF HeldFits, TablesInv, HeldInv, Holding, FrameSet
<1>4. ASSUME rframe'[k] = Nil, rframe[k].type \in Stops, hpc[o] = "run", conn = k
      PROVE  o \in rctx' \cup hdone'
  <2>1. Running(o) /\ Current(o) /\ o # Nil
    BY ZenonT(30), <1>3, <1>4, LinkAssumption DEF Running, Current
  <2>2. CASE cancel(k)
    <3>1. requests[IdOf[o]] = o
      BY ZenonT(30), <1>3, <2>1 DEF Tabled
    <3>2. QED
      BY ZenonT(30), <1>1, <2>1, <2>2, <3>1 DEF cancel
  <2>3. CASE deliverStreamFrame(k)
    <3>1. rframe[k].type = "error" /\ kind[o] \in Stream
      <4>1. rframe[k].type = "cancel" => rframe' = rframe
        BY ZenonT(30), <2>3 DEF deliverStreamFrame
      <4>2. QED
        BY ZenonT(30), <1>3, <1>4, <4>1 DEF Stops
    <3>2. streams[IdOf[o]] = o \/ o \in hdone
      BY ZenonT(30), <1>3, <2>1, <3>1 DEF Tabled
    <3>3. CASE streams[IdOf[o]] = o
      BY ZenonT(30), <1>1, <2>1, <2>3, <3>1, <3>3 DEF deliverStreamFrame, HandlerFinishAll
    <3>4. QED
      BY ZenonT(30), <1>2, <3>2, <3>3
  <2>4. QED
    BY ZenonT(30), <2>2, <2>3
<1>5. ReadsOn(k)
  <2>1. rframe'[k] = rframe[k] \/ rframe'[k] = Nil
    BY ZenonT(30), <1>2 DEF HandlerTypes
  <2>2. QED
    BY ZenonT(30), <1>1, <1>2, <1>3, <1>4, <2>1 DEF ReadsOn
<1>6. \A p \in Ops : Moves(p)
  BY ZenonT(30), <1>2 DEF Moves
<1>7. QED
  BY ZenonT(30), <1>2, <1>5, <1>6, ReaderAdvances DEF ReaderPcs

\* Every step of the dialing side is of this kind.
LEMMA Advances ==
  ASSUME HandlerTypes, TablesInv, HeldFits, RepliesInv, DispatchStep,
         toClient \in [Conns -> Seq(FrameSet)]
  PROVE  Advance
<1>1. HeldInv
  BY ZenonT(30) DEF TablesInv
<1>2. ASSUME NEW k \in Conns, ReaderStep(k) PROVE Advance
  BY ZenonT(30), <1>1, <1>2, ReadersAdvance, TrackAdvances, AddAdvances, FramesReach DEF
     ReaderStep, startServerStream, startClientStream, startBidiStream, Stream
<1>3. CASE \/ LossStreams \/ LossRequests \/ PingTimeout
           \/ Close \/ CloseConn \/ ClientCloseStreams \/ CloseRequests
  <2>1. /\ UNCHANGED <<reader, rframe, toClient, toServer, hpc>>
        /\ rctx' = rctx \/ cancelRequests
        /\ hdone' = hdone \/ failStreams
        /\ conn' = conn \/ conn' = Nil
    BY ZenonT(30), <1>3 DEF LossStreams, LossRequests, PingTimeout, Close, CloseConn,
       ClientCloseStreams, CloseRequests, Lose, wires
  <2>2. rctx \subseteq rctx' /\ hdone \subseteq hdone'
    BY ZenonT(30), <2>1 DEF cancelRequests, failStreams
  <2>3. \A k \in Conns : ReadsOn(k)
    BY ZenonT(30), <2>1 DEF ReadsOn
  <2>4. \A o \in Ops : Moves(o)
    BY ZenonT(30), <2>1 DEF Moves
  <2>5. QED
    BY ZenonT(30), <2>1, <2>2, <2>3, <2>4 DEF Advance
<1>4. QED
  BY ZenonT(30), <1>2, <1>3, HandlersAdvance DEF DispatchStep

\* A handler that is there stays there.
LEMMA HandlerLasts ==
  ASSUME Advance, NEW o \in Ops, hpc[o] # "none"
  PROVE  hpc'[o] # "none"
  BY ZenonT(30) DEF Advance, Moves, Past

\* What a handler answers with: one case per action that changes it.
LEMMA RepliesStep ==
  ASSUME HandlerTypes, RepliesInv, HeldFits, HeldInv, Advance, DispatchStep
  PROVE  RepliesInv'
<1> USE DEF wires
<1>1. /\ hdone \subseteq hdone' /\ \A o \in Ops : hpc[o] # "none" => hpc'[o] # "none"
  BY ZenonT(30), HandlerLasts DEF Advance
<1>2. ASSUME UNCHANGED <<reply, hout>>, \A o \in Ops : hpc'[o] = "write" => hpc[o] = "write"
      PROVE  RepliesInv'
  BY ZenonT(30), <1>1, <1>2 DEF RepliesInv
<1>3. ASSUME NEW k \in Conns, ReaderStep(k) PROVE RepliesInv'
  <2>1. /\ UNCHANGED <<reply, hout>>
        /\ hpc' = hpc \/ (reader[k] \in Holding /\ hpc' = [hpc EXCEPT ![rframe[k].op] = "run"])
    <3>1. CASE startRequest(k) \/ startNotify(k) \/ trackStream(k)
      BY ZenonT(30), <3>1 DEF startRequest, startNotify, trackStream, trackRequest, Holding
    <3>2. CASE ~(startRequest(k) \/ startNotify(k) \/ trackStream(k))
      BY ZenonT(30), <1>3, <3>2 DEF ReaderStep, ClientReads, ReaderEnds, startServerStream,
         startClientStream, startBidiStream, configure, ClientAddStream, deliverStreamFrame,
         cancel
    <3>3. QED
      BY ZenonT(30), <3>1, <3>2
  <2>2. \A o \in Ops : hpc'[o] = "write" => hpc[o] = "write"
    BY ZenonT(30), <2>1 DEF HandlerTypes
  <2>3. QED
    BY ZenonT(30), <1>2, <2>1, <2>2
<1>4. ASSUME NEW o \in Ops, HandlerReturns(o) PROVE RepliesInv'
  <2>1. /\ hout' = hout
        /\ \/ HandlerGoto(o, "finish") /\ reply' = reply
           \/ /\ HandlerGoto(o, "write")
              /\ \E r \in {"error", "end", "response"} : reply' = [reply EXCEPT ![o] = r]
    BY ZenonT(30), <1>4 DEF HandlerReturns
  <2>2. QED
    BY ZenonT(30), <1>1, <2>1 DEF RepliesInv, HandlerGoto, HandlerTypes
<1>5. ASSUME NEW o \in Ops, HandlerReplies(o) PROVE RepliesInv'
  <2>1. /\ hout' = hout
        /\ \/ reply' = [reply EXCEPT ![o] = "error"] /\ hpc' = hpc
           \/ HandlerGoto(o, "finish") /\ reply' = reply
    BY ZenonT(30), <1>5 DEF HandlerReplies
  <2>2. QED
    BY ZenonT(30), <1>1, <2>1 DEF RepliesInv, HandlerGoto, HandlerTypes
<1>6. ASSUME NEW o \in Ops, HandlerCloseSend(o) \/ watchContext(o) PROVE RepliesInv'
  <2>1. /\ reply' = reply /\ hpc[o] # "none"
        /\ hpc' = hpc \/ HandlerGoto(o, "finish")
        /\ \/ hout' = hout
           \/ /\ HandlerFinishAll({o})
              /\ \E type \in {"cancel", "error"} : hout' = [hout EXCEPT ![o] = type]
    BY ZenonT(30), <1>6 DEF HandlerCloseSend, watchContext
  <2>2. \A p \in Ops : hpc'[p] = "write" => hpc[p] = "write"
    BY ZenonT(30), <2>1 DEF HandlerGoto, HandlerTypes
  <2>3. hout' # hout => o \in hdone'
    BY ZenonT(30), <2>1 DEF HandlerFinishAll
  <2>4. QED
    BY ZenonT(30), <1>1, <2>1, <2>2, <2>3 DEF RepliesInv
<1>7. ASSUME NEW o \in Ops, HandlerOut(o) PROVE RepliesInv'
  <2>1. reply' = reply /\ hpc' = hpc /\ hout' = [hout EXCEPT ![o] = "none"]
    BY ZenonT(30), <1>7 DEF HandlerOut
  <2>2. QED
    BY ZenonT(30), <1>1, <2>1 DEF RepliesInv
<1>8. ASSUME NEW o \in Ops, GrantFails(o) \/ HandlerFinish(o) \/ untrackRequest(o)
      PROVE  RepliesInv'
  <2>1. /\ UNCHANGED <<reply, hout>>
        /\ \E step \in {"finish", "untrack", "over"} : HandlerGoto(o, step)
    BY ZenonT(30), <1>8 DEF GrantFails, HandlerFinish, untrackRequest
  <2>2. \A p \in Ops : hpc'[p] = "write" => hpc[p] = "write"
    BY ZenonT(30), <2>1 DEF HandlerGoto, HandlerTypes
  <2>3. QED
    BY ZenonT(30), <1>2, <2>1, <2>2
<1>9. CASE \/ LossStreams \/ LossRequests \/ PingTimeout
           \/ Close \/ CloseConn \/ ClientCloseStreams \/ CloseRequests
  <2>1. UNCHANGED <<reply, hout, hpc>>
    BY ZenonT(30), <1>9 DEF LossStreams, LossRequests, PingTimeout, Close, CloseConn,
       ClientCloseStreams, CloseRequests
  <2>2. QED
    BY ZenonT(30), <1>2, <2>1
<1>10. QED
  BY ZenonT(30), <1>3, <1>4, <1>5, <1>6, <1>7, <1>8, <1>9 DEF DispatchStep
-----------------------------------------------------------------------------
(***************************************************************************)
(* The order of the frames, and what it is for: a handler that has ended   *)
(* is not started again, and a frame that stops one is not passed over.    *)
(***************************************************************************)

\* Taking the first frame of a wire.
LEMMA TailHas ==
  ASSUME NEW S, NEW s \in Seq(S), s # <<>>, NEW o, NEW types
  PROVE  Has(s, o, types) <=>
           \/ Has(Tail(s), o, types)
           \/ Head(s).op = o /\ Head(s).type \in types
<1>1. /\ Len(s) \in Nat /\ Len(s) > 0 /\ Head(s) = s[1] /\ Len(Tail(s)) = Len(s) - 1
      /\ \A i \in 1..Len(Tail(s)) : Tail(s)[i] = s[i + 1] /\ i + 1 \in 1..Len(s)
  OBVIOUS
<1>2. ASSUME Has(Tail(s), o, types) \/ (Head(s).op = o /\ Head(s).type \in types)
      PROVE  Has(s, o, types)
  <2>1. 1 \in 1..Len(s)
    BY <1>1
  <2>2. QED
    BY ZenonT(30), <1>1, <1>2, <2>1 DEF Has
<1>3. ASSUME Has(s, o, types)
      PROVE  Has(Tail(s), o, types) \/ (Head(s).op = o /\ Head(s).type \in types)
  <2>1. PICK i \in 1..Len(s) : s[i].op = o /\ s[i].type \in types
    BY ZenonT(30), <1>3 DEF Has
  <2>2. CASE i = 1
    BY ZenonT(30), <1>1, <2>1, <2>2
  <2>3. CASE i # 1
    <3>1. i - 1 \in 1..Len(Tail(s)) /\ Tail(s)[i - 1] = s[i]
      BY <1>1, <2>3
    <3>2. QED
      BY ZenonT(30), <2>1, <3>1 DEF Has
  <2>4. QED
    BY ZenonT(30), <2>2, <2>3
<1>4. QED
  BY ZenonT(30), <1>2, <1>3

\* What is left is in order, and does not start what was taken.
LEMMA TailOrdered ==
  ASSUME NEW S, NEW s \in Seq(S), s # <<>>, Ordered(s)
  PROVE  Ordered(Tail(s)) /\ ~Has(Tail(s), Head(s).op, First)
<1>1. /\ Len(s) \in Nat /\ Len(s) > 0 /\ Head(s) = s[1] /\ Len(Tail(s)) = Len(s) - 1
      /\ \A i \in 1..Len(Tail(s)) : Tail(s)[i] = s[i + 1] /\ i + 1 \in 1..Len(s)
  OBVIOUS
<1>2. Ordered(Tail(s))
  <2> SUFFICES ASSUME NEW i \in 1..Len(Tail(s)), Tail(s)[i].type \in First,
                      NEW j \in 1..(i - 1)
               PROVE  Tail(s)[j].op # Tail(s)[i].op
    BY ZenonT(30) DEF Ordered
  <2>1. j + 1 \in 1..(i + 1 - 1) /\ j \in 1..Len(Tail(s))
    BY <1>1
  <2>2. QED
    BY <1>1, <2>1 DEF Ordered
<1>3. ~Has(Tail(s), Head(s).op, First)
  <2> SUFFICES ASSUME NEW i \in 1..Len(Tail(s)), Tail(s)[i].op = Head(s).op,
                      Tail(s)[i].type \in First
               PROVE  FALSE
    BY ZenonT(30) DEF Has
  <2>1. 1 \in 1..(i + 1 - 1)
    BY <1>1
  <2>2. QED
    BY <1>1, <2>1 DEF Ordered
<1>4. QED
  BY ZenonT(30), <1>2, <1>3

\* Adding a frame at its end.
LEMMA AppendHas ==
  ASSUME NEW S, NEW s \in Seq(S), NEW f \in S, NEW o, NEW types
  PROVE  Has(Append(s, f), o, types) <=>
           Has(s, o, types) \/ (f.op = o /\ f.type \in types)
<1>1. /\ Len(s) \in Nat /\ Len(Append(s, f)) = Len(s) + 1
      /\ \A i \in 1..Len(s) : Append(s, f)[i] = s[i] /\ i \in 1..(Len(s) + 1)
      /\ Append(s, f)[Len(s) + 1] = f /\ Len(s) + 1 \in 1..(Len(s) + 1)
      /\ \A i \in 1..(Len(s) + 1) : i \in 1..Len(s) \/ i = Len(s) + 1
  OBVIOUS
<1>2. QED
  BY ZenonT(30), <1>1 DEF Has

\* A first frame keeps the order if the operation has no other.
LEMMA AppendOrdered ==
  ASSUME NEW s \in Seq(FrameSet), NEW f \in FrameSet, Ordered(s),
         f.type \in First => ~Has(s, f.op, FrameTypes)
  PROVE  Ordered(Append(s, f))
<1>1. /\ Len(s) \in Nat /\ Len(Append(s, f)) = Len(s) + 1
      /\ \A i \in 1..Len(s) : Append(s, f)[i] = s[i] /\ s[i] \in FrameSet
      /\ Append(s, f)[Len(s) + 1] = f
  OBVIOUS
<1> SUFFICES ASSUME NEW i \in 1..(Len(s) + 1), Append(s, f)[i].type \in First,
                    NEW j \in 1..(i - 1)
             PROVE  Append(s, f)[j].op # Append(s, f)[i].op
  BY ZenonT(30), <1>1 DEF Ordered
<1>2. j \in 1..Len(s) /\ (i \in 1..Len(s) \/ i = Len(s) + 1)
  BY <1>1
<1>3. Append(s, f)[j] = s[j] /\ s[j].type \in FrameTypes
  BY ZenonT(30), <1>1, <1>2 DEF FrameSet
<1>4. CASE i \in 1..Len(s)
  BY ZenonT(30), <1>1, <1>2, <1>3, <1>4 DEF Ordered
<1>5. CASE i = Len(s) + 1
  BY ZenonT(30), <1>1, <1>2, <1>3, <1>5 DEF Has
<1>6. QED
  BY ZenonT(30), <1>2, <1>4, <1>5

\* No frame comes from nowhere.
LEMMA ComingOnly ==
  ASSUME toClient \in [Conns -> Seq(FrameSet)], OrderInv, Advance,
         NEW o \in Ops, NEW types, Coming(o, types)'
  PROVE  Coming(o, types)
<1>1. PICK k \in Conns : k = ConnOf[o]
  BY ZenonT(30), LinkAssumption
<1>2. Ordered(toClient[k]) /\ ReadsOn(k) /\ toClient[k] \in Seq(FrameSet)
  BY ZenonT(30) DEF OrderInv, Advance
<1>3. \/ rframe'[k] # Nil /\ rframe'[k].op = o /\ rframe'[k].type \in types
      \/ Has(toClient'[k], o, types)
  BY ZenonT(30), <1>1 DEF Coming, Holds
<1>4. CASE toClient[k] # <<>> /\ rframe'[k] = Head(toClient[k]) /\ toClient'[k] = Tail(toClient[k])
  <2>1. Has(toClient[k], o, types) <=>
          \/ Has(Tail(toClient[k]), o, types)
          \/ Head(toClient[k]).op = o /\ Head(toClient[k]).type \in types
    BY ZenonT(30), <1>2, <1>4, TailHas
  <2>2. Has(toClient[k], o, types)
    BY ZenonT(30), <1>3, <1>4, <2>1
  <2>3. QED
    BY ZenonT(30), <1>1, <2>2 DEF Coming
<1>5. CASE toClient'[k] = toClient[k] /\ rframe'[k] \in {rframe[k], Nil}
  BY ZenonT(30), <1>1, <1>3, <1>5 DEF Coming, Holds
<1>6. QED
  BY ZenonT(30), <1>2, <1>4, <1>5 DEF ReadsOn

\* The dialing side keeps the order.
LEMMA OrderAdvances ==
  ASSUME toClient \in [Conns -> Seq(FrameSet)], OrderInv, Advance
  PROVE  OrderInv'
<1>1. ASSUME NEW k \in Conns
      PROVE  /\ Ordered(toClient'[k])
             /\ rframe'[k] # Nil => ~Has(toClient'[k], rframe'[k].op, First)
  <2>1. /\ Ordered(toClient[k]) /\ ReadsOn(k) /\ toClient[k] \in Seq(FrameSet)
        /\ rframe[k] # Nil => ~Has(toClient[k], rframe[k].op, First)
    BY ZenonT(30) DEF OrderInv, Advance
  <2>2. CASE toClient[k] # <<>> /\ rframe'[k] = Head(toClient[k]) /\ toClient'[k] = Tail(toClient[k])
    BY ZenonT(30), <2>1, <2>2, TailOrdered
  <2>3. CASE toClient'[k] = toClient[k] /\ rframe'[k] \in {rframe[k], Nil}
    BY ZenonT(30), <2>1, <2>3
  <2>4. QED
    BY ZenonT(30), <2>1, <2>2, <2>3 DEF ReadsOn
<1>2. ASSUME NEW o \in Ops, hpc'[o] # "none", Coming(o, First)' PROVE FALSE
  <2>1. hpc[o] = "none"
    BY ZenonT(30), <1>2, ComingOnly DEF OrderInv
  <2>2. Moves(o) /\ ConnOf[o] \in Conns
    BY ZenonT(30), LinkAssumption DEF Advance
  <2>3. Holds(o, First) /\ rframe'[ConnOf[o]] = Nil /\ toClient' = toClient
    BY ZenonT(30), <1>2, <2>1, <2>2 DEF Moves
  <2>4. ~Has(toClient[ConnOf[o]], o, First)
    BY ZenonT(30), <2>2, <2>3 DEF OrderInv, Holds
  <2>5. QED
    BY ZenonT(30), <1>2, <2>3, <2>4 DEF Coming, Holds
<1>3. QED
  BY ZenonT(30), <1>1, <1>2 DEF OrderInv

\* A handler that has ended stays ended.
LEMMA EndedAdvances ==
  ASSUME toClient \in [Conns -> Seq(FrameSet)], OrderInv, Advance,
         NEW o \in Ops, Ended(o)
  PROVE  Ended(o)'
<1>1. Moves(o) /\ rctx \subseteq rctx' /\ hdone \subseteq hdone'
  BY ZenonT(30) DEF Advance
<1>2. CASE o \in rctx \cup hdone
  BY ZenonT(30), <1>1, <1>2 DEF Ended
<1>3. CASE hpc[o] \in Past
  <2>1. ~Holds(o, First)
    BY ZenonT(30), <1>3 DEF OrderInv, Coming, Past
  <2>2. QED
    BY ZenonT(30), <1>1, <1>3, <2>1 DEF Moves, Ended
<1>4. CASE hpc[o] = "none" /\ ~Coming(o, First)
  <2>1. ~Coming(o, First)' /\ ~Holds(o, First)
    BY ZenonT(30), <1>4, ComingOnly DEF Coming
  <2>2. hpc'[o] = "none"
    BY ZenonT(30), <1>1, <1>4, <2>1 DEF Moves
  <2>3. QED
    BY ZenonT(30), <2>1, <2>2 DEF Ended
<1>5. QED
  BY ZenonT(30), <1>2, <1>3, <1>4 DEF Ended

\* A frame that stops a handler reaches it, on a connection that is current.
LEMMA StopsAdvance ==
  ASSUME toClient \in [Conns -> Seq(FrameSet)], OrderInv, Advance, HeldInv,
         NEW o \in Ops, Coming(o, Stops),
         Current(o) \/ reader[ConnOf[o]] = "none", hpc \in [Ops -> HandlerPcs]
  PROVE  Coming(o, Stops)' \/ Ended(o)'
<1>1. PICK k \in Conns : k = ConnOf[o]
  BY ZenonT(30), LinkAssumption
<1>2. /\ Ordered(toClient[k]) /\ ReadsOn(k) /\ toClient[k] \in Seq(FrameSet)
      /\ rframe[k] # Nil => ~Has(toClient[k], rframe[k].op, First)
      /\ Moves(o)
  BY ZenonT(30) DEF OrderInv, Advance
<1>3. CASE /\ rframe[k] = Nil /\ toClient[k] # <<>>
           /\ rframe'[k] = Head(toClient[k]) /\ toClient'[k] = Tail(toClient[k])
  <2>1. Has(toClient[k], o, Stops)
    BY ZenonT(30), <1>1, <1>3 DEF Coming, Holds
  <2>2. \/ Has(toClient'[k], o, Stops)
        \/ rframe'[k].op = o /\ rframe'[k].type \in Stops
    <3>1. Has(toClient[k], o, Stops) <=>
            \/ Has(Tail(toClient[k]), o, Stops)
            \/ Head(toClient[k]).op = o /\ Head(toClient[k]).type \in Stops
      BY ZenonT(30), <1>2, <1>3, TailHas
    <3>2. QED
      BY ZenonT(30), <1>3, <2>1, <3>1
  <2>3. Head(toClient[k]) # Nil
    BY <1>2, <1>3, NilIsNoFrame
  <2>4. QED
    BY ZenonT(30), <1>1, <1>3, <2>2, <2>3 DEF Coming, Holds
<1>4. CASE toClient'[k] = toClient[k] /\ rframe'[k] = rframe[k]
  BY ZenonT(30), <1>1, <1>4 DEF Coming, Holds
<1>5. CASE /\ rframe[k] # Nil /\ rframe'[k] = Nil /\ toClient'[k] = toClient[k]
           /\ rframe[k].type \in Stops /\ hpc[rframe[k].op] = "run" /\ conn = k =>
                rframe[k].op \in rctx' \cup hdone'
  <2>1. CASE Has(toClient[k], o, Stops)
    BY ZenonT(30), <1>1, <1>5, <2>1 DEF Coming
  <2>2. CASE ~Has(toClient[k], o, Stops)
    <3>1. rframe[k].op = o /\ rframe[k].type \in Stops
      BY ZenonT(30), <1>1, <2>2 DEF Coming, Holds
    <3>2. conn = k
      BY ZenonT(30), <1>1, <1>5 DEF HeldInv, Holding, Current
    <3>3. CASE hpc[o] = "run"
      BY ZenonT(30), <1>5, <3>1, <3>2, <3>3 DEF Ended
    <3>4. CASE hpc[o] # "run"
      <4>1. ~Coming(o, First)
        BY ZenonT(30), <1>1, <1>2, <1>5, <3>1 DEF Coming, Holds, First, Stops
      <4>2. Ended(o)
        BY ZenonT(30), <3>4, <4>1 DEF Ended, HandlerPcs, Past
      <4>3. QED
        BY ZenonT(30), <4>2, EndedAdvances
    <3>5. QED
      BY ZenonT(30), <3>3, <3>4
  <2>3. QED
    BY ZenonT(30), <2>1, <2>2
<1>6. QED
  BY ZenonT(30), <1>2, <1>3, <1>4, <1>5 DEF ReadsOn

\* Who answers has ended.
LEMMA AnswerEnds ==
  ASSUME toClient \in [Conns -> Seq(FrameSet)], OrderInv, Advance, HeldInv, RepliesInv,
         NEW o \in Ops, Answers(o)
  PROVE  Ended(o)'
<1>1. CASE hpc'[o] = "finish"
  BY ZenonT(30), <1>1 DEF Ended, Past
<1>2. CASE hout[o] # "none"
  BY ZenonT(30), <1>2 DEF RepliesInv, Advance, Ended
<1>3. CASE /\ reader[ConnOf[o]] = "add" /\ rframe[ConnOf[o]].op = o
           /\ rframe'[ConnOf[o]] = Nil /\ hpc' = hpc /\ toClient' = toClient
  <2>1. ConnOf[o] \in Conns
    BY ZenonT(30), LinkAssumption
  <2>2. Holds(o, First)
    BY ZenonT(30), <1>3, <2>1 DEF HeldInv, Holding, Holds, First
  <2>3. hpc'[o] = "none" /\ ~Has(toClient'[ConnOf[o]], o, First)
    BY ZenonT(30), <1>3, <2>1, <2>2 DEF OrderInv, Coming, Holds
  <2>4. ~Coming(o, First)'
    BY ZenonT(30), <1>3, <2>3 DEF Coming, Holds
  <2>5. QED
    BY ZenonT(30), <2>3, <2>4 DEF Ended
<1>4. QED
  BY ZenonT(30), <1>1, <1>2, <1>3 DEF Answers
=============================================================================
