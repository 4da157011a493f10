----------------------------- MODULE CallerProofs -----------------------------
(***************************************************************************)
(* Proofs about the parts of Session that know nothing of the dialing      *)
(* side's handlers: what each state of the accepting side of a handshake   *)
(* says about the other side, what a step of the callers leaves as it was, *)
(* and what the tables of a Conn owe to the callers.                       *)
(***************************************************************************)
EXTENDS Caller, TLAPS

\* What both sides come to agree on, and the frames that lead there.
Terms == [compressor |-> client.compressor, credit |-> client.credit /\ server.credit]
Hello == [type |-> "hello", wire |-> client.wire, compressor |-> client.compressor,
          credit |-> client.credit]
Ack == [type |-> "ack", wire |-> server.wire, compressor |-> client.compressor,
        credit |-> client.credit /\ server.credit, auth |-> server.secret # ""]
Auth == [type |-> "auth", signature |-> sign(client.secret, server.wire, Terms.credit)]
AuthAck == [type |-> "authAck"]
AuthError == [type |-> "error", code |-> "auth"]
Errors == {[type |-> "error", code |-> c] : c \in Refusals}

\* The hello frame was acceptable.
Served == client.wire = server.wire /\ sgot = Terms

\* Where the server is tells where the client can be, and what is on the way.
AtNone == sstep = "none" /\ cstep = "none"

AtHello == sstep = "hello" /\ cstep \in {"ack", "failed"} /\ up = Hello /\ down = Nil

AtAuth ==
  /\ sstep = "auth" /\ Served /\ server.secret # ""
  /\ \/ cstep \in {"ack", "failed"} /\ down = Ack /\ up = Nil
     \/ cstep = "authAck" /\ cgot = Terms /\ down = Nil /\ up = Auth
     \/ cstep = "failed" /\ down = Nil /\ up \in {Nil, Auth}

AtAccept ==
  /\ sstep = "accept" /\ Served /\ up = Nil /\ down = Nil
  /\ \/ server.secret = "" /\ cstep \in {"ack", "failed"}
     \/ /\ server.secret # "" /\ client.secret = server.secret
        /\ cstep = "failed" \/ (cstep = "authAck" /\ cgot = Terms)

AtDone ==
  /\ sstep = "done" /\ Served /\ server.secret \in {"", client.secret}
  /\ \/ cstep = "ack" /\ server.secret = "" /\ down = Ack
     \/ cstep = "authAck" /\ cgot = Terms /\ server.secret # "" /\ down = AuthAck
     \/ cstep = "done" /\ cgot = Terms
     \/ cstep \in {"none", "failed"}

AtFailed ==
  /\ sstep = "failed"
  /\ \/ cstep \in {"ack", "authAck"} /\ down \in {Nil} \cup Errors
     \/ cstep = "ack" /\ Served /\ server.secret # "" /\ down = Ack
     \/ cstep = "authAck" /\ down = AuthError /\ server.secret \notin {"", client.secret}
     \/ cstep = "failed"

\* The error of the client has its reason in the configurations.
ErrorInv ==
  /\ client \in Clients /\ server \in Servers
  /\ cerr \in {"none", "auth"} \cup Refusals
  /\ cerr = "auth" => server.secret \notin {"", client.secret}

HandshakeInv ==
  ErrorInv /\ (AtNone \/ AtHello \/ AtAuth \/ AtAccept \/ AtDone \/ AtFailed)

ClosePcs == {"free", "open", "streams", "pending", "done"}
CallPcs  == {"idle", "pend", "add", "send", "wait", "follow", "land", "publish", "open",
               "closeSend", "ending", "await", "recheck", "over"}

\* No frame of the operation has been written.
Early == {"idle", "pend", "add", "send", "follow"}
Written(o) == cpc[o] \notin Early

\* A frame that fits the kind of its operation.
Fits(type, o) ==
  /\ type \in {"request", "notify"} => kind[o] \notin Stream
  /\ type \in {"start", "end", "error"} => kind[o] \in Stream

\* A frame to the client is about an operation of its connection that has
\* written, and its type fits the operation.
FrameOK(k, f) ==
  f \in FrameSet /\ ConnOf[f.op] = k /\ Written(f.op) /\ Fits(f.type, f.op)

CallerTypes ==
  /\ closing \in [Conns -> ClosePcs] /\ sflow \subseteq Conns
  /\ cpc \in [Ops -> CallPcs] /\ kind \in [Ops -> Kinds]
  /\ out \in [Ops -> {"none", "cancel", "error"}] /\ cstreams \subseteq Ops
  /\ toClient \in [Conns -> Seq(FrameSet)]

\* Where the caller of an operation is fits its kind.
Paced(o) ==
  /\ cpc[o] = "pend" => kind[o] \in Unary \cup {"client"}
  /\ cpc[o] = "wait" => kind[o] \in Unary
  /\ cpc[o] \in {"follow", "land", "publish"} => kind[o] = "single"
  /\ cpc[o] \in {"add", "open"} => kind[o] \in Stream
  /\ cpc[o] \in {"closeSend", "ending", "recheck"} => kind[o] \in {"client", "bidi"}
  /\ cpc[o] = "await" => kind[o] = "client"

\* The streams and frames of a Conn belong to operations that have begun.
CallerBegun ==
  /\ \A o \in Ops : Paced(o)
  /\ \A o \in cstreams : cpc[o] \notin Early \ {"send"} /\ kind[o] \in Stream
  /\ \A o \in Ops : out[o] # "none" => Written(o) /\ Fits(out[o], o)
  /\ \A k \in Conns : \A i \in 1..Len(toClient[k]) : FrameOK(k, toClient[k][i])

\* What the handshake gives the Conn it makes.
DialInv ==
  /\ \A k \in sflow : closing[k] # "free"
  /\ sstep # "none" => dialing \in Conns
  /\ sstep \in {"hello", "auth", "accept"} => closing[dialing] = "free"
  /\ sstep = "done" => closing[dialing] # "free" /\ (dialing \in sflow <=> sgot.credit)

CallerInv == CallerTypes /\ CallerBegun /\ DialInv

\* Operations that have begun stay what they are.
Kept == \A o \in Ops : /\ cpc[o] # "idle" => cpc'[o] # "idle" /\ kind'[o] = kind[o]
                       /\ Written(o) => Written(o)'

\* No step takes back what the dialing side may have relied on.
Onward ==
  /\ Kept
  /\ \A k \in Conns : closing[k] # "free" =>
       closing'[k] # "free" /\ (k \in sflow' <=> k \in sflow)
  /\ sflow \subseteq sflow'
-----------------------------------------------------------------------------
\* setConn takes the result of the handshake.
Taken == cstep = "done" /\ cstep' = "none"
         /\ UNCHANGED <<client, server, sstep, up, down, cgot, sgot, cerr>>

\* Only a new attempt changes what is to be agreed on.
LEMMA SameTerms ==
  ASSUME UNCHANGED <<client, server>>
  PROVE  Terms' = Terms /\ Hello' = Hello /\ Ack' = Ack /\ Auth' = Auth
  BY ZenonT(30) DEF Terms, Hello, Ack, Auth

\* What the frames of a handshake say.
LEMMA Fields ==
  /\ Hello.wire = client.wire /\ Hello.compressor = client.compressor
  /\ Hello.credit = client.credit
  /\ Ack.type = "ack" /\ Ack.wire = server.wire /\ Ack.compressor = client.compressor
  /\ Terms = [compressor |-> client.compressor, credit |-> Ack.credit]
  /\ Ack.auth = (server.secret # "")
  /\ Auth.signature = <<client.secret, server.wire, Terms.credit>>
  /\ Auth = [type |-> "auth", signature |-> sign(client.secret, Ack.wire, Ack.credit)]
  /\ Acknowledgement(Hello) = Ack
  /\ AuthAck.type # "error" /\ AuthError.type = "error" /\ AuthError.code = "auth"
  /\ \A e \in Errors : e.type = "error" /\ e.code \in Refusals
  BY DEF Hello, Ack, Terms, Auth, sign, Acknowledgement, AuthAck, AuthError, Errors

\* The steps of a handshake keep its invariant: one case per step.
LEMMA HandshakeStep ==
  ASSUME HandshakeInv,
         \/ \E s \in Servers : SendHello(s)
         \/ AcceptConn \/ Taken \/ HandshakeAdvances \/ HandshakeBreaks
         \/ UNCHANGED handshakeVars
  PROVE  HandshakeInv'
<1> USE HandshakeAssumption
<1> USE DEF HandshakeInv, ErrorInv, AtNone, AtHello, AtAuth, AtAccept, AtDone, AtFailed,
   Served
<1>1. ASSUME NEW s \in Servers, SendHello(s) PROVE HandshakeInv'
  BY ZenonT(30), <1>1 DEF SendHello, Hello
<1>2. CASE AcceptConn
  <2>1. /\ AtAccept /\ UNCHANGED <<client, server, cstep, cgot, sgot, cerr, up>>
        /\ sstep' = "done"
    BY ZenonT(30), <1>2 DEF AcceptConn, ServerGoto
  <2>2. CASE server.secret = ""
    <3>1. down' = Ack
      BY ZenonT(30), <1>2, <2>1, <2>2 DEF AcceptConn, Ack, Terms
    <3>2. QED
      BY ZenonT(30), <2>1, <2>2, <3>1, SameTerms
  <2>3. CASE server.secret # ""
    <3>1. down' = AuthAck
      BY ZenonT(30), <1>2, <2>3 DEF AcceptConn, AuthAck
    <3>2. QED
      BY ZenonT(30), <2>1, <2>3, <3>1, SameTerms
  <2>4. QED
    BY ZenonT(30), <2>2, <2>3
<1>3. CASE Taken
  BY ZenonT(30), <1>3, SameTerms DEF Taken
<1>4. CASE ReadAck
  <2>1. cstep = "ack" /\ down # Nil /\ down' = Nil
    BY ZenonT(30), <1>4 DEF ReadAck
  <2>2. CASE down \in Errors
    <3>1. ClientFails(down.code) /\ down.code \in Refusals
      BY ZenonT(30), <1>4, <2>2, Fields DEF ReadAck
    <3>2. QED
      BY ZenonT(30), <1>4, <2>1, <3>1, SameTerms DEF ClientFails, Refusals
  <2>3. CASE down = Ack
    <3>1. Served
      BY ZenonT(30), <2>1, <2>3, Fields
    <3>2. ~AckRefused(Ack)
      BY ZenonT(30), <3>1, Fields DEF AckRefused
    <3>3. CASE server.secret # ""
      <4>1. clientAuth(Ack)
        BY ZenonT(30), <1>4, <2>3, <3>2, <3>3, Fields DEF ReadAck
      <4>2. CASE client.secret = ""
        BY ZenonT(30), <1>4, <2>1, <3>3, <4>1, <4>2, SameTerms DEF clientAuth, ClientFails
      <4>3. CASE client.secret # ""
        BY ZenonT(30), <1>4, <2>1, <3>1, <3>3, <4>1, <4>3, SameTerms, Fields DEF clientAuth
      <4>4. QED
        BY ZenonT(30), <4>2, <4>3
    <3>4. CASE server.secret = ""
      <4>1. /\ cstep' = "done" /\ cgot' = Terms
            /\ UNCHANGED <<client, server, sstep, up, sgot, cerr>>
        BY ZenonT(30), <1>4, <2>3, <3>2, <3>4, Fields DEF ReadAck
      <4>2. AtDone
        BY ZenonT(30), <2>1, <2>3, <3>4, Fields
      <4>3. QED
        BY ZenonT(30), <1>4, <2>1, <4>1, <4>2, SameTerms
    <3>5. QED
      BY ZenonT(30), <3>3, <3>4
  <2>4. QED
    BY ZenonT(30), <2>1, <2>2, <2>3
<1>5. CASE ReadAuthAck
  <2>1. cstep = "authAck" /\ down # Nil /\ down' = Nil
    BY ZenonT(30), <1>5 DEF ReadAuthAck
  <2>2. CASE down = AuthAck
    BY ZenonT(30), <1>5, <2>1, <2>2, SameTerms, Fields DEF ReadAuthAck
  <2>3. CASE sstep = "failed" /\ down \in Errors \cup {AuthError}
    <3>1. ClientFails(down.code)
      BY ZenonT(30), <1>5, <2>3, Fields DEF ReadAuthAck
    <3>2. \/ down.code \in Refusals
          \/ down.code = "auth" /\ server.secret \notin {"", client.secret}
      BY ZenonT(30), <2>1, <2>3, Fields
    <3>3. QED
      BY ZenonT(30), <1>5, <2>1, <2>3, <3>1, <3>2, SameTerms DEF ClientFails, Refusals
  <2>4. QED
    BY ZenonT(30), <2>1, <2>2, <2>3
<1>6. CASE ReadHello
  <2>1. AtHello /\ UNCHANGED <<client, server, cstep, cgot, cerr>> /\ up' = Nil
    BY ZenonT(30), <1>6 DEF ReadHello, ServerGoto
  <2>2. CASE sstep' = "failed"
    BY ZenonT(30), <1>6, <2>1, <2>2, SameTerms DEF ReadHello, ServerGoto
  <2>3. CASE sstep' # "failed"
    <3>1. sgot' = Terms /\ client.wire = server.wire
      BY ZenonT(30), <1>6, <2>1, <2>3, Fields DEF ReadHello, ServerGoto
    <3>2. \/ server.secret # "" /\ sstep' = "auth" /\ down' = Ack
          \/ server.secret = "" /\ sstep' = "accept" /\ down' = down
      BY ZenonT(30), <1>6, <2>1, <2>3, Fields DEF ReadHello, ServerGoto
    <3>3. QED
      BY ZenonT(30), <1>6, <2>1, <3>1, <3>2, SameTerms
  <2>4. QED
    BY ZenonT(30), <2>2, <2>3
<1>7. CASE readAuth
  <2>1. /\ AtAuth /\ up = Auth /\ down = Nil /\ cstep \in {"authAck", "failed"}
        /\ UNCHANGED <<client, server, cstep, cgot, sgot, cerr>> /\ up' = Nil
    BY ZenonT(30), <1>7, Fields DEF readAuth, ServerGoto
  <2>2. CASE client.secret = server.secret
    BY ZenonT(30), <1>7, <2>1, <2>2, SameTerms, Fields DEF readAuth, ServerGoto, sign
  <2>3. CASE client.secret # server.secret
    BY ZenonT(30), <1>7, <2>1, <2>3, SameTerms, Fields DEF readAuth, ServerGoto, sign,
       AuthError
  <2>4. QED
    BY ZenonT(30), <2>2, <2>3
<1>8. CASE ClientGivesUp
  BY ZenonT(30), <1>8, SameTerms DEF ClientGivesUp, ClientFails, Refusals
<1>9. CASE Refuse
  BY ZenonT(30), <1>9, SameTerms DEF Refuse, ServerGoto, Errors
<1>10. CASE ServerGivesUp
  BY ZenonT(30), <1>10, SameTerms DEF ServerGivesUp, ServerGoto
<1>11. CASE UNCHANGED handshakeVars
  BY ZenonT(30), <1>11, SameTerms DEF handshakeVars
<1> HIDE DEF HandshakeInv
<1>12. QED
  BY ZenonT(30), <1>1, <1>2, <1>3, <1>4, <1>5, <1>6, <1>7, <1>8, <1>9, <1>10, <1>11
     DEF HandshakeAdvances, HandshakeBreaks

\* Frames of the handshake do not finish it: AcceptConn does, in serveConn.
LEMMA HandshakeQuiet ==
  ASSUME HandshakeAdvances \/ HandshakeBreaks
  PROVE  /\ sstep' \in {"hello", "auth", "accept"} => sstep \in {"hello", "auth", "accept"}
         /\ sstep' = "done" => sstep = "done" /\ sgot' = sgot
         /\ sstep' # "none" => sstep # "none"
<1>1. CASE ReadAck
  BY ZenonT(30), <1>1 DEF ReadAck, ClientFails, clientAuth
<1>2. CASE ReadAuthAck
  BY ZenonT(30), <1>2 DEF ReadAuthAck, ClientFails
<1>3. CASE ReadHello
  BY ZenonT(30), <1>3 DEF ReadHello, ServerGoto
<1>4. CASE readAuth
  BY ZenonT(30), <1>4 DEF readAuth, ServerGoto
<1>5. CASE ClientGivesUp
  BY ZenonT(30), <1>5 DEF ClientGivesUp, ClientFails
<1>6. CASE Refuse \/ ServerGivesUp
  BY ZenonT(30), <1>6 DEF Refuse, ServerGivesUp, ServerGoto
<1>7. QED
  BY ZenonT(30), <1>1, <1>2, <1>3, <1>4, <1>5, <1>6 DEF HandshakeAdvances, HandshakeBreaks
-----------------------------------------------------------------------------
\* What a step of the callers does to the rest of the session.
CallerEffect ==
  /\ closing' \in [Conns -> ClosePcs] /\ sflow' = sflow
  /\ cpc' \in [Ops -> CallPcs] /\ kind' \in [Ops -> Kinds]
  /\ out' \in [Ops -> {"none", "cancel", "error"}] /\ cstreams' \subseteq Ops
  /\ \A k \in Conns : closing'[k] = "free" <=> closing[k] = "free"
  /\ \A o \in Ops : Paced(o)'
  /\ \A o \in cstreams' : cpc'[o] \notin Early \ {"send"} /\ kind'[o] \in Stream
  /\ \A o \in Ops : out'[o] # "none" => Written(o)' /\ Fits(out[o], o)'
  /\ Kept
  /\ \/ toClient' = toClient
     \/ \E o \in Ops, type \in FrameTypes :
          SendToClient(type, o) /\ Written(o)' /\ Fits(type, o)'

\* The first frame of any kind of operation, and what the caller does next.
WritesFirst(o, next) ==
  /\ WriteFirst(o, next)
  /\ \/ next = "wait" /\ kind[o] \in Unary
     \/ next = "over" /\ kind[o] = "notify"
     \/ next = "open" /\ kind[o] \in Stream

\* The steps of the callers, with the kinds of operation merged.
LEMMA CallerCases ==
  ASSUME CallerStep, kind \in [Ops -> Kinds]
  PROVE  \/ \E o \in Ops :
              \/ \E k \in Kinds : Begin(o, k)
              \/ \E next \in {"wait", "open", "over"} : WritesFirst(o, next)
              \/ addPending(o) \/ addStream(o) \/ Receive(o) \/ invokeAsyncHandler(o)
              \/ SeesClosed(o) \/ CallGivesUp(o) \/ FollowerGivesUp(o) \/ Land(o)
              \/ Publish(o) \/ CloseStart(o) \/ WriteEnd(o) \/ EndSent(o) \/ Await(o)
              \/ Recheck(o) \/ CancelHandle(o) \/ StreamGivesUp(o) \/ WriteOut(o)
         \/ \E k \in Conns : ReadFrame(k) \/ ReadRest(k) \/ CloseStreams(k) \/ ClosePending(k)
  BY ZenonT(30) DEF CallerStep, sendRequest, sendNotify, openServerStream, openClientStream,
     openBidiStream, WritesFirst, Stream

\* Every step of the callers has only the effects above: one case per action.
LEMMA CallerFacts ==
  ASSUME CallerTypes, CallerBegun, CallerStep
  PROVE  CallerEffect
<1> USE LinkAssumption DEF CallerTypes, CallerEffect, Kept, wires, ClosePcs, CallPcs,
   FrameTypes, Early, Written, Fits, Paced, Unary, Stream
<1>0. /\ \A o \in Ops : Paced(o)
      /\ \A o \in cstreams : cpc[o] \notin Early \ {"send"} /\ kind[o] \in Stream
      /\ \A o \in Ops : out[o] # "none" => Written(o) /\ Fits(out[o], o)
  BY ZenonT(30) DEF CallerBegun
<1>1. ASSUME NEW o \in Ops, NEW k \in Kinds, Begin(o, k) PROVE CallerEffect
  BY <1>0, <1>1 DEF Begin, Goto, Kinds, Unary, Stream
<1>2. ASSUME NEW o \in Ops, addPending(o) PROVE CallerEffect
  BY <1>0, <1>2 DEF addPending, Goto, Return
<1>3. ASSUME NEW o \in Ops, addStream(o) PROVE CallerEffect
  BY <1>0, <1>3 DEF addStream, Goto, Return
<1>4. ASSUME NEW o \in Ops, NEW next \in {"wait", "open", "over"}, WritesFirst(o, next)
      PROVE  CallerEffect
  <2>1. FirstFrame(o) \in FrameTypes /\ Fits(FirstFrame(o), o)
    BY ZenonT(30), <1>4 DEF FirstFrame, WritesFirst
  <2>2. QED
    BY <1>0, <1>4, <2>1 DEF WritesFirst, WriteFirst, Goto, Return, Finish, FinishAll,
       BeginClose, closed
<1>5. ASSUME NEW o \in Ops, Receive(o) PROVE CallerEffect
  BY ZenonT(30), <1>0, <1>5 DEF Receive, Goto, Return
<1>6. ASSUME NEW o \in Ops, invokeAsyncHandler(o) PROVE CallerEffect
  BY ZenonT(30), <1>0, <1>6 DEF invokeAsyncHandler, Goto, Return
<1>7. ASSUME NEW o \in Ops, SeesClosed(o) PROVE CallerEffect
  BY ZenonT(30), <1>0, <1>7 DEF SeesClosed, Goto, Return
<1>8. ASSUME NEW o \in Ops, CallGivesUp(o) PROVE CallerEffect
  BY ZenonT(30), <1>0, <1>8 DEF CallGivesUp, Goto, Return
<1>9. ASSUME NEW o \in Ops, FollowerGivesUp(o) PROVE CallerEffect
  BY ZenonT(30), <1>0, <1>9 DEF FollowerGivesUp, Goto
<1>10. ASSUME NEW o \in Ops, Land(o) PROVE CallerEffect
  BY ZenonT(30), <1>0, <1>10 DEF Land, Goto
<1>11. ASSUME NEW o \in Ops, Publish(o) PROVE CallerEffect
  BY ZenonT(30), <1>0, <1>11 DEF Publish
<1>12. ASSUME NEW o \in Ops, CloseStart(o) PROVE CallerEffect
  BY <1>0, <1>12 DEF CloseStart, Goto, Return, Finish, FinishAll
<1>13. ASSUME NEW o \in Ops, WriteEnd(o) PROVE CallerEffect
  BY <1>0, <1>13 DEF WriteEnd, Goto, Finish, FinishAll, BeginClose, closed
<1>14. ASSUME NEW o \in Ops, EndSent(o) PROVE CallerEffect
  BY ZenonT(30), <1>0, <1>14 DEF EndSent, Goto, Finish, FinishAll
<1>15. ASSUME NEW o \in Ops, Await(o) PROVE CallerEffect
  BY <1>0, <1>15 DEF Await, Goto, Return, Finish, FinishAll
<1>16. ASSUME NEW o \in Ops, Recheck(o) PROVE CallerEffect
  BY ZenonT(30), <1>0, <1>16 DEF Recheck, Goto, Return, Finish, FinishAll
<1>17. ASSUME NEW o \in Ops, CancelHandle(o) PROVE CallerEffect
  BY ZenonT(30), <1>0, <1>17 DEF CancelHandle
<1>18. ASSUME NEW o \in Ops, StreamGivesUp(o) PROVE CallerEffect
  BY <1>0, <1>18 DEF StreamGivesUp, Finish, FinishAll
<1>19. ASSUME NEW o \in Ops, WriteOut(o) PROVE CallerEffect
  <2>1. /\ out' = [out EXCEPT ![o] = "none"] /\ out[o] # "none"
        /\ UNCHANGED <<sflow, cpc, kind, cstreams>>
        /\ toClient' = toClient \/ SendToClient(out[o], o)
    BY ZenonT(30), <1>19 DEF WriteOut
  <2>2. closing' \in {closing, [closing EXCEPT ![ConnOf[o]] = "streams"]}
    BY ZenonT(30), <1>19 DEF WriteOut, BeginClose
  <2>3. closing[ConnOf[o]] = "open" \/ closing' = closing
    BY ZenonT(30), <1>19 DEF WriteOut, BeginClose, closed
  <2>4. QED
    BY <1>0, <2>1, <2>2, <2>3
<1>20. ASSUME NEW k \in Conns, ReadFrame(k) PROVE CallerEffect
  <2>1. UNCHANGED <<closing, sflow, cpc, kind, out, toClient>>
    BY ZenonT(30), <1>20 DEF ReadFrame
  <2>2. cstreams' \subseteq cstreams
    BY ZenonT(30), <1>20 DEF ReadFrame, Finish, FinishAll
  <2>3. QED
    BY ZenonT(30), <1>0, <2>1, <2>2
<1>21. ASSUME NEW k \in Conns, ReadRest(k) PROVE CallerEffect
  BY <1>0, <1>21 DEF ReadRest, Finish, FinishAll
<1>22. ASSUME NEW k \in Conns, CloseStreams(k) PROVE CallerEffect
  BY ZenonT(30), <1>0, <1>22 DEF CloseStreams, FinishAll
<1>23. ASSUME NEW k \in Conns, ClosePending(k) PROVE CallerEffect
  BY ZenonT(30), <1>0, <1>23 DEF ClosePending
<1> HIDE DEF CallerTypes, CallerEffect, Kept, wires, ClosePcs, CallPcs, FrameTypes, Early,
   Written, Fits, Paced, Unary, Stream
<1>24. kind \in [Ops -> Kinds]
  BY ZenonT(30) DEF CallerTypes
<1>25. QED
  BY ZenonT(30), <1>1, <1>2, <1>3, <1>4, <1>5, <1>6, <1>7, <1>8, <1>9, <1>10, <1>11,
     <1>12, <1>13, <1>14, <1>15, <1>16, <1>17, <1>18, <1>19, <1>20, <1>21, <1>22,
     <1>23, <1>24, CallerCases

\* A frame that fits its operation still does after a step.
LEMMA SameFrames ==
  ASSUME Kept, NEW k \in Conns, NEW f, FrameOK(k, f)
  PROVE  FrameOK(k, f)'
  BY ZenonT(30) DEF FrameOK, FrameSet, Fits, Kept, Written, Early

\* A new frame to the client fits its operation.
LEMMA WireStep ==
  ASSUME CallerTypes, CallerBegun, CallerEffect
  PROVE  /\ toClient' \in [Conns -> Seq(FrameSet)]
         /\ \A k \in Conns : \A i \in 1..Len(toClient'[k]) : FrameOK(k, toClient[k][i])'
<1> USE LinkAssumption DEF CallerTypes
<1>1. ASSUME NEW k \in Conns, NEW f, FrameOK(k, f) PROVE FrameOK(k, f)'
  BY ZenonT(30), <1>1, SameFrames DEF CallerEffect
<1>2. CASE toClient' = toClient
  BY ZenonT(30), <1>1, <1>2 DEF CallerBegun
<1>3. ASSUME NEW o \in Ops, NEW type \in FrameTypes, SendToClient(type, o), Written(o)',
             Fits(type, o)'
      PROVE  /\ toClient' \in [Conns -> Seq(FrameSet)]
             /\ \A k \in Conns : \A i \in 1..Len(toClient'[k]) : FrameOK(k, toClient[k][i])'
  <2> DEFINE c == ConnOf[o]
             f == Frame(type, o)
  <2>1. f \in FrameSet /\ f.op = o /\ f.type = type /\ c \in Conns
    BY ZenonT(30) DEF Frame, FrameSet
  <2>2. FrameOK(c, f)'
    BY ZenonT(30), <1>3, <2>1 DEF FrameOK
  <2>3. toClient' = [toClient EXCEPT ![c] = Append(toClient[c], f)]
    BY ZenonT(30), <1>3 DEF SendToClient
  <2> HIDE DEF c, f
  <2>4. toClient' \in [Conns -> Seq(FrameSet)]
    BY <2>1, <2>3
  <2>5. ASSUME NEW k \in Conns, NEW i \in 1..Len(toClient'[k])
        PROVE  FrameOK(k, toClient[k][i])'
    <3>1. CASE k # c
      BY ZenonT(30), <1>1, <2>3, <2>5, <3>1 DEF CallerBegun
    <3>2. CASE k = c /\ i \in 1..Len(toClient[c])
      <4>1. toClient'[k][i] = toClient[k][i]
        BY <2>1, <2>3, <3>2
      <4>2. FrameOK(k, toClient[k][i])
        BY ZenonT(30), <3>2 DEF CallerBegun
      <4>3. QED
        BY ZenonT(30), <1>1, <4>1, <4>2
    <3>3. CASE k = c /\ i = Len(toClient[c]) + 1
      <4>1. toClient'[k][i] = f
        BY <2>1, <2>3, <3>3
      <4>2. QED
        BY ZenonT(30), <2>2, <3>3, <4>1
    <3>4. QED
      BY <2>1, <2>3, <3>1, <3>2, <3>3
  <2>6. QED
    BY ZenonT(30), <2>4, <2>5
<1>4. QED
  BY ZenonT(30), <1>2, <1>3 DEF CallerEffect

\* What changes neither operations nor frames.
LEMMA SameBegun ==
  ASSUME CallerBegun, UNCHANGED <<cpc, kind, out, cstreams, toClient>>
  PROVE  CallerBegun' /\ Kept
  BY ZenonT(30) DEF CallerBegun, FrameOK, Kept, Paced, Written, Fits
-----------------------------------------------------------------------------
(***************************************************************************)
(* CallerInv, and that every step goes Onward: one lemma per kind of step. *)
(***************************************************************************)

\* Steps that change none of it.
LEMMA CallerSame ==
  ASSUME CallerInv, UNCHANGED <<closing, sflow, cpc, kind, out, cstreams, toClient>>,
         UNCHANGED <<dialing, sstep, sgot>>
  PROVE  CallerInv' /\ Onward
<1>1. CallerTypes' /\ DialInv'
  BY ZenonT(30) DEF CallerInv, CallerTypes, DialInv
<1>2. QED
  BY ZenonT(30), <1>1, SameBegun DEF CallerInv, Onward

\* A frame of the handshake is read, or one of the sides gives up.
LEMMA CallerHandshake ==
  ASSUME CallerInv, HandshakeAdvances \/ HandshakeBreaks,
         UNCHANGED <<closing, sflow, cpc, kind, out, cstreams, toClient>>,
         UNCHANGED dialing
  PROVE  CallerInv' /\ Onward
<1>1. CallerTypes'
  BY ZenonT(30) DEF CallerInv, CallerTypes
<1>2. DialInv'
  BY ZenonT(30), HandshakeQuiet DEF CallerInv, DialInv
<1>3. QED
  BY ZenonT(30), <1>1, <1>2, SameBegun DEF CallerInv, Onward

\* connectOnce: the connection to be made is a fresh one.
LEMMA CallerDial ==
  ASSUME CallerInv, NEW k \in Conns, closing[k] = "free", NEW s, SendHello(s), dialing' = k,
         UNCHANGED <<closing, sflow, cpc, kind, out, cstreams, toClient>>
  PROVE  CallerInv' /\ Onward
<1>1. CallerTypes'
  BY ZenonT(30) DEF CallerInv, CallerTypes
<1>2. DialInv'
  BY ZenonT(30) DEF CallerInv, DialInv, SendHello
<1>3. QED
  BY ZenonT(30), <1>1, <1>2, SameBegun DEF CallerInv, Onward

\* serveConn: the Conn takes credit from what its handshake agreed on.
LEMMA CallerServe ==
  ASSUME CallerInv, AcceptConn, closing' = [closing EXCEPT ![dialing] = "open"],
         sflow' = IF sgot.credit THEN sflow \cup {dialing} ELSE sflow,
         UNCHANGED <<cpc, kind, out, cstreams, toClient>>, UNCHANGED dialing
  PROVE  CallerInv' /\ Onward
<1>1. /\ sstep = "accept" /\ sstep' = "done" /\ sgot' = sgot /\ dialing \in Conns
      /\ closing[dialing] = "free" /\ dialing \notin sflow
  BY ZenonT(30) DEF CallerInv, DialInv, AcceptConn, ServerGoto
<1>2. CallerTypes'
  BY ZenonT(30), <1>1 DEF CallerInv, CallerTypes, ClosePcs
<1>3. DialInv'
  BY ZenonT(30), <1>1 DEF CallerInv, CallerTypes, DialInv
<1>4. QED
  BY ZenonT(30), <1>1, <1>2, <1>3, SameBegun DEF CallerInv, CallerTypes, Onward

\* serveConn's read fails: the Conn begins to close.
LEMMA CallerClose ==
  ASSUME CallerInv, NEW k \in Conns, BeginClose(k),
         UNCHANGED <<sflow, cpc, kind, out, cstreams, toClient>>,
         UNCHANGED <<dialing, sstep, sgot>>, closing[k] = "open"
  PROVE  CallerInv' /\ Onward
<1>1. closing' = [closing EXCEPT ![k] = "streams"]
  BY ZenonT(30) DEF BeginClose, closed
<1>2. CallerTypes'
  BY ZenonT(30), <1>1 DEF CallerInv, CallerTypes, ClosePcs
<1>3. DialInv'
  BY ZenonT(30), <1>1 DEF CallerInv, CallerTypes, DialInv
<1>4. QED
  BY ZenonT(30), <1>1, <1>2, <1>3, SameBegun DEF CallerInv, CallerTypes, Onward

\* The callers may close a Conn but never open one, and do not touch credit.
LEMMA CallerKeeps ==
  ASSUME CallerInv, CallerStep, UNCHANGED <<dialing, sstep, sgot>>
  PROVE  CallerInv' /\ Onward
<1>1. CallerEffect
  BY ZenonT(30), CallerFacts DEF CallerInv
<1>2. CallerTypes' /\ CallerBegun'
  BY ZenonT(30), <1>1, WireStep DEF CallerInv, CallerEffect, CallerTypes, CallerBegun
<1>3. DialInv'
  BY ZenonT(30), <1>1 DEF CallerInv, CallerTypes, DialInv, CallerEffect
<1>4. QED
  BY ZenonT(30), <1>1, <1>2, <1>3 DEF CallerInv, CallerEffect, Onward

\* readLoop of the dialing side takes a frame.
LEMMA CallerRead ==
  ASSUME CallerInv, NEW k \in Conns, toClient[k] # <<>>,
         toClient' = [toClient EXCEPT ![k] = Tail(toClient[k])],
         UNCHANGED <<closing, sflow, cpc, kind, out, cstreams, dialing, sstep, sgot>>
  PROVE  CallerInv' /\ Onward /\ FrameOK(k, Head(toClient[k]))
<1>1. /\ Head(toClient[k]) = toClient[k][1] /\ 1 \in 1..Len(toClient[k])
      /\ Tail(toClient[k]) \in Seq(FrameSet)
      /\ \A i \in 1..Len(Tail(toClient[k])) :
           Tail(toClient[k])[i] = toClient[k][i + 1] /\ i + 1 \in 1..Len(toClient[k])
  BY DEF CallerInv, CallerTypes
<1>2. FrameOK(k, Head(toClient[k]))
  BY ZenonT(30), <1>1 DEF CallerInv, CallerBegun
<1>3. CallerTypes' /\ DialInv' /\ Kept
  <2>1. CallerTypes'
    BY ZenonT(30), <1>1 DEF CallerInv, CallerTypes
  <2>2. DialInv' /\ Kept
    BY ZenonT(30) DEF CallerInv, DialInv, Kept, Written
  <2>3. QED
    BY ZenonT(30), <2>1, <2>2
<1>4. ASSUME NEW c \in Conns, NEW i \in 1..Len(toClient'[c])
      PROVE  FrameOK(c, toClient[c][i])'
  <2>1. CASE c = k
    <3>1. toClient'[c][i] = toClient[k][i + 1] /\ i + 1 \in 1..Len(toClient[k])
      BY ZenonT(30), <1>1, <1>4, <2>1 DEF CallerInv, CallerTypes
    <3>2. FrameOK(k, toClient[k][i + 1])
      BY ZenonT(30), <3>1 DEF CallerInv, CallerBegun
    <3>3. QED
      BY ZenonT(30), <1>3, <2>1, <3>1, <3>2, SameFrames
  <2>2. CASE c # k
    <3>1. toClient'[c] = toClient[c]
      BY ZenonT(30), <2>2 DEF CallerInv, CallerTypes
    <3>2. FrameOK(c, toClient[c][i])
      BY ZenonT(30), <1>4, <3>1 DEF CallerInv, CallerBegun
    <3>3. QED
      BY ZenonT(30), <1>3, <3>1, <3>2, SameFrames
  <2>3. QED
    BY ZenonT(30), <2>1, <2>2
<1>5. CallerBegun'
  BY ZenonT(30), <1>4 DEF CallerInv, CallerBegun, Paced, Written, Fits
<1>6. QED
  BY ZenonT(30), <1>2, <1>3, <1>5 DEF CallerInv, Onward
-----------------------------------------------------------------------------
(***************************************************************************)
(* What the tables of a Conn hold, and what its callers are given.         *)
(***************************************************************************)

AnswerTypes == {"response", "error", "end", "cancel"}
AnswerSet   == [type : AnswerTypes, op : Ops]
Causes      == {"none", "error", "closed", "cancel", "deadline", "ended", "response"}

\* A frame from the client is about an operation of its connection that has
\* written.
AnswerOK(k, f) == f \in AnswerSet /\ ConnOf[f.op] = k /\ Written(f.op)

CallTypes ==
  /\ pending \subseteq Ops /\ gaveUp \subseteq Ops
  /\ cause \in [Ops -> Causes]
  /\ resp \in [Ops -> {"empty", "response", "error"}]
  /\ got \in [Ops -> {"none", "response", "error"}]
  /\ flight \in [Conns -> Ops \cup {Nil}] /\ leader \in [Ops -> Ops \cup {Nil}]
  /\ sreader \in [Conns -> AnswerSet \cup {Nil}]

\* A stream is in the table until it is done, and its caller has no result;
\* failStreams and failPending leave nothing behind.
StreamOK(o) ==
  /\ o \in cstreams => /\ got[o] = "none" /\ ~Done(o)
                       /\ closing[ConnOf[o]] \in {"open", "streams"}
  /\ kind[o] \in Stream /\ cpc[o] \in {"send", "open", "closeSend", "ending", "await"} =>
       o \in cstreams \/ Done(o)
  /\ cpc[o] \in Early => got[o] = "none"
  /\ cpc[o] \in Early \ {"send"} => ~Done(o)
  /\ cpc[o] = "recheck" => Done(o)

\* A call is in the table until it has a result.
PendingOK(o) ==
  /\ o \in pending => /\ ~Done(o) /\ cpc[o] \notin {"idle", "pend"}
                      /\ closing[ConnOf[o]] \in {"open", "streams", "pending"}
  /\ kind[o] \in Unary /\ cpc[o] \in {"send", "wait"} => o \in pending \/ resp[o] # "empty"

\* Who joins a flight waits for a leader that has yet to land.
FlightOK ==
  /\ \A k \in Conns : flight[k] # Nil =>
       /\ ConnOf[flight[k]] = k /\ kind[flight[k]] = "single"
       /\ cpc[flight[k]] \in {"pend", "send", "wait", "land"}
  /\ \A o \in Ops : cpc[o] = "follow" =>
       /\ leader[o] # Nil /\ kind[leader[o]] = "single"
       /\ cpc[leader[o]] \in {"pend", "send", "wait", "land", "publish"}

\* The reader ends a stream after its response was given to the caller.
ReaderOK(k) ==
  sreader[k] # Nil =>
    /\ AnswerOK(k, sreader[k]) /\ sreader[k].type \in {"response", "error"}
    /\ sreader[k].op \notin pending
    /\ sreader[k].type = "response" => kind[sreader[k].op] = "client"

ResponseOK(o) ==
  /\ kind[o] = "client" /\ cpc[o] = "add" => o \in pending \/ closing[ConnOf[o]] = "done"
  /\ kind[o] = "client" /\ o \in cstreams \ gaveUp =>
       \/ o \in pending
       \/ /\ sreader[ConnOf[o]] # Nil /\ sreader[ConnOf[o]].op = o
          /\ resp[o] = sreader[ConnOf[o]].type
  /\ cause[o] = "response" =>
       /\ kind[o] = "client" /\ Written(o)
       /\ o \notin gaveUp => resp[o] = "response" /\ got[o] \in {"none", "response"}

CallsInv ==
  /\ CallTypes /\ FlightOK
  /\ \A o \in Ops : StreamOK(o) /\ PendingOK(o) /\ ResponseOK(o)
  /\ \A k \in Conns : ReaderOK(k)

\* closeWithError begins once.
Closes == \A k \in Conns : closing'[k] # closing[k] =>
            closing[k] = "open" /\ closing'[k] = "streams"

\* BeginClose has no other effect.
LEMMA ClosesOnce ==
  ASSUME closing \in [Conns -> ClosePcs], NEW c \in Conns,
         closing' = closing \/ BeginClose(c)
  PROVE  Closes
  BY ZenonT(30) DEF BeginClose, closed, Closes

\* What a step leaves of an operation's entries, and of an operation.
Entries(o) ==
  /\ cause'[o] = cause[o] /\ resp'[o] = resp[o] /\ got'[o] = got[o]
  /\ o \in cstreams' <=> o \in cstreams
  /\ o \in pending' <=> o \in pending
  /\ o \in gaveUp' <=> o \in gaveUp
Same(o) == cpc'[o] = cpc[o] /\ kind'[o] = kind[o] /\ Entries(o)

\* A step of the caller of an operation, or of its application.
Alone(o) == Closes /\ sreader' = sreader /\ \A p \in Ops \ {o} : Same(p)

\* The part of the types that such a step needs, and what holds of every
\* operation before it.
Shape ==
  /\ cpc \in [Ops -> CallPcs] /\ kind \in [Ops -> Kinds] /\ cause \in [Ops -> Causes]
  /\ resp \in [Ops -> {"empty", "response", "error"}]
  /\ got \in [Ops -> {"none", "response", "error"}]
CallOK(o) == StreamOK(o) /\ PendingOK(o) /\ ResponseOK(o)
Begun(o) == /\ Paced(o)
            /\ o \in cstreams => cpc[o] \notin Early \ {"send"} /\ kind[o] \in Stream
Ready == Shape /\ \A o \in Ops : CallOK(o) /\ Begun(o)

\* Before every step.
LEMMA ReadyHolds ==
  ASSUME CallerTypes, CallerBegun, CallsInv
  PROVE  Ready
<1>1. Shape
  BY ZenonT(30) DEF CallerTypes, CallsInv, CallTypes, Shape
<1>2. \A o \in Ops : CallOK(o)
  BY ZenonT(30) DEF CallsInv, CallOK
<1>3. \A o \in Ops : Begun(o)
  BY ZenonT(30) DEF CallerBegun, Begun
<1>4. QED
  BY ZenonT(30), <1>1, <1>2, <1>3 DEF Ready

\* An operation that the step is not about.
LEMMA SameOK ==
  ASSUME NEW o \in Ops, CallOK(o), Same(o), NEW c, c = ConnOf[o],
         closing'[c] = closing[c] \/ (closing[c] = "open" /\ closing'[c] = "streams"),
         sreader[c] # Nil /\ sreader[c].op = o => sreader'[c] = sreader[c]
  PROVE  CallOK(o)'
<1>1. StreamOK(o)' /\ PendingOK(o)'
  BY ZenonT(30) DEF CallOK, Same, Entries, StreamOK, PendingOK, Done
<1>2. ResponseOK(o)'
  BY ZenonT(30) DEF CallOK, Same, Entries, ResponseOK, Written
<1>3. QED
  BY ZenonT(30), <1>1, <1>2 DEF CallOK

\* Every operation that the step is not about.
LEMMA AllSameOK ==
  ASSUME Ready, Closes, sreader' = sreader, NEW o \in Ops, Same(o)
  PROVE  CallOK(o)'
<1>1. PICK c \in Conns : c = ConnOf[o]
  BY ZenonT(30), LinkAssumption
<1>2. closing'[c] = closing[c] \/ (closing[c] = "open" /\ closing'[c] = "streams")
  BY ZenonT(30) DEF Closes
<1>3. CallOK(o) /\ sreader'[c] = sreader[c]
  BY ZenonT(30) DEF Ready
<1>4. QED
  BY ZenonT(30), <1>1, <1>2, <1>3, SameOK

\* All operations but one.
LEMMA AloneOK ==
  ASSUME Ready, NEW o \in Ops, Alone(o), CallOK(o)'
  PROVE  \A p \in Ops : CallOK(p)'
<1>1. ASSUME NEW p \in Ops, p # o PROVE CallOK(p)'
  <2>1. Same(p) /\ Closes /\ sreader' = sreader
    BY ZenonT(30), <1>1 DEF Alone
  <2>2. QED
    BY ZenonT(30), <2>1, AllSameOK
<1>2. QED
  BY ZenonT(30), <1>1

\* An operation begins.
LEMMA BeginOK ==
  ASSUME Ready, NEW o \in Ops, NEW k \in Kinds, Begin(o, k)
  PROVE  \A p \in Ops : CallOK(p)'
<1>1. Shape /\ CallOK(o) /\ Begun(o)
  BY ZenonT(30) DEF Ready
<1>2. /\ cpc[o] = "idle" /\ kind' = [kind EXCEPT ![o] = k]
      /\ \E pc \in {"pend", "add", "send", "follow"} :
           /\ Goto(o, pc)
           /\ k = "client" => pc = "pend"
           /\ pc = "send" => k = "notify"
      /\ UNCHANGED <<closing, sreader, cause, resp, got, cstreams, pending, gaveUp>>
  BY ZenonT(30) DEF Begin
<1>3. Alone(o)
  BY ZenonT(30), <1>1, <1>2 DEF Goto, Shape, Alone, Closes, Same, Entries
<1>4. /\ cpc'[o] \in {"pend", "add", "send", "follow"} /\ kind'[o] = k
      /\ k = "client" => cpc'[o] = "pend"
      /\ cpc'[o] = "send" => k = "notify"
  BY ZenonT(30), <1>1, <1>2 DEF Goto, Shape
<1>5. /\ got[o] = "none" /\ ~Done(o) /\ o \notin cstreams /\ o \notin pending /\ ~Written(o)
  BY ZenonT(30), <1>1, <1>2 DEF CallOK, StreamOK, PendingOK, Begun, Early, Written
<1>6. StreamOK(o)' /\ PendingOK(o)'
  BY ZenonT(30), <1>2, <1>4, <1>5 DEF StreamOK, PendingOK, Stream, Unary, Done
<1>7. ResponseOK(o)'
  BY ZenonT(30), <1>2, <1>4, <1>5 DEF ResponseOK, Done
<1>8. QED
  BY ZenonT(30), <1>3, <1>6, <1>7, AloneOK DEF CallOK

\* addPending.
LEMMA PendOK ==
  ASSUME Ready, NEW o \in Ops, addPending(o)
  PROVE  \A p \in Ops : CallOK(p)'
<1>1. Shape /\ CallOK(o) /\ Begun(o)
  BY ZenonT(30) DEF Ready
<1>2. /\ cpc[o] = "pend"
      /\ UNCHANGED <<closing, sreader, cause, resp, cstreams, gaveUp, kind>>
      /\ \/ Return(o, "error") /\ pending' = pending
         \/ /\ ~closed(ConnOf[o]) /\ pending' = pending \cup {o} /\ got' = got
            /\ Goto(o, IF kind[o] = "client" THEN "add" ELSE "send")
  BY ZenonT(30) DEF addPending
<1>3. Alone(o)
  BY ZenonT(30), <1>1, <1>2 DEF Return, Goto, Shape, Alone, Closes, Same, Entries
<1>4. \/ cpc'[o] \in {"land", "over"} /\ (o \in pending' <=> o \in pending)
      \/ /\ closing[ConnOf[o]] = "open" /\ o \in pending' /\ got'[o] = got[o]
         /\ cpc'[o] = IF kind[o] = "client" THEN "add" ELSE "send"
  BY ZenonT(30), <1>1, <1>2 DEF Return, Goto, Shape, closed
<1>5. /\ got[o] = "none" /\ ~Done(o) /\ o \notin cstreams /\ o \notin pending
      /\ kind[o] \in Unary \cup {"client"}
  BY ZenonT(30), <1>1, <1>2 DEF CallOK, StreamOK, PendingOK, Begun, Paced, Early
<1>6. StreamOK(o)' /\ PendingOK(o)'
  BY ZenonT(30), <1>2, <1>4, <1>5 DEF StreamOK, PendingOK, Stream, Unary, Done, Early
<1>7. ResponseOK(o)'
  BY ZenonT(30), <1>2, <1>4, <1>5 DEF ResponseOK, Done
<1>8. QED
  BY ZenonT(30), <1>3, <1>6, <1>7, AloneOK DEF CallOK

\* addStream.
LEMMA AddOK ==
  ASSUME Ready, NEW o \in Ops, addStream(o)
  PROVE  \A p \in Ops : CallOK(p)'
<1>1. Shape /\ CallOK(o) /\ Begun(o)
  BY ZenonT(30) DEF Ready
<1>2. /\ cpc[o] = "add"
      /\ UNCHANGED <<closing, sreader, cause, resp, gaveUp, kind>>
      /\ \/ Return(o, "error") /\ pending' = pending \ {o} /\ cstreams' = cstreams
         \/ /\ ~closed(ConnOf[o]) /\ cstreams' = cstreams \cup {o}
            /\ UNCHANGED <<got, pending>> /\ Goto(o, "send")
  BY ZenonT(30) DEF addStream
<1>3. Alone(o)
  BY ZenonT(30), <1>1, <1>2 DEF Return, Goto, Shape, Alone, Closes, Same, Entries
<1>4. \/ cpc'[o] \in {"land", "over"} /\ o \notin pending' /\ (o \in cstreams' <=> o \in cstreams)
      \/ /\ closing[ConnOf[o]] = "open" /\ o \in cstreams' /\ got'[o] = got[o]
         /\ cpc'[o] = "send" /\ pending' = pending
  BY ZenonT(30), <1>1, <1>2 DEF Return, Goto, Shape, closed
<1>5. /\ got[o] = "none" /\ ~Done(o) /\ o \notin cstreams
      /\ kind[o] \in Stream
  BY ZenonT(30), <1>1, <1>2 DEF CallOK, StreamOK, Begun, Paced, Early
<1>6. StreamOK(o)' /\ PendingOK(o)'
  BY ZenonT(30), <1>1, <1>2, <1>4, <1>5 DEF CallOK, StreamOK, PendingOK, Stream, Unary,
     Done, Early
<1>7. ResponseOK(o)'
  BY ZenonT(30), <1>1, <1>2, <1>4, <1>5 DEF CallOK, ResponseOK, Done
<1>8. QED
  BY ZenonT(30), <1>3, <1>6, <1>7, AloneOK DEF CallOK

\* The first frame is written, or the operation fails.
LEMMA WriteOK ==
  ASSUME Ready, closing \in [Conns -> ClosePcs], NEW o \in Ops,
         NEW next \in {"wait", "open", "over"}, WritesFirst(o, next)
  PROVE  \A p \in Ops : CallOK(p)'
<1>1. Shape /\ CallOK(o) /\ Begun(o)
  BY ZenonT(30) DEF Ready
<1>2. /\ cpc[o] = "send" /\ UNCHANGED <<sreader, resp, gaveUp, kind>>
      /\ \/ Goto(o, next) /\ UNCHANGED <<closing, got, cause, cstreams, pending>>
         \/ /\ Return(o, "error") /\ Finish(o, "error")
            /\ closing' = closing \/ BeginClose(ConnOf[o])
  BY ZenonT(30) DEF WritesFirst, WriteFirst
<1>3. next = "wait" <=> kind[o] \in Unary
  BY ZenonT(30) DEF WritesFirst, Unary, Stream
<1>4. Closes
  <2>1. ConnOf[o] \in Conns
    BY ZenonT(30), LinkAssumption
  <2>2. QED
    BY ZenonT(30), <1>2, <2>1, ClosesOnce DEF Closes
<1>5. Alone(o)
  BY ZenonT(30), <1>1, <1>2, <1>4 DEF Return, Goto, Finish, FinishAll, Shape, Alone, Same,
     Entries
<1>6. ASSUME Goto(o, next), UNCHANGED <<closing, got, cause, cstreams, pending>>
      PROVE  CallOK(o)'
  <2>1. cpc'[o] = next
    BY ZenonT(30), <1>1, <1>6 DEF Goto, Shape
  <2>2. StreamOK(o)' /\ PendingOK(o)'
    BY ZenonT(30), <1>1, <1>2, <1>3, <1>6, <2>1 DEF CallOK, StreamOK, PendingOK, Done,
       Early, Stream, Unary
  <2>3. ResponseOK(o)'
    BY ZenonT(30), <1>1, <1>2, <1>6, <2>1 DEF CallOK, ResponseOK, Written, Early
  <2>4. QED
    BY ZenonT(30), <2>2, <2>3 DEF CallOK
<1>7. ASSUME Return(o, "error"), Finish(o, "error") PROVE CallOK(o)'
  <2>1. /\ cpc'[o] \in {"land", "over"} /\ o \notin cstreams' /\ o \notin pending'
        /\ cause'[o] = (IF Done(o) THEN cause[o] ELSE "error")
    BY ZenonT(30), <1>1, <1>7 DEF Return, Goto, Finish, FinishAll, Shape
  <2>2. cause[o] # "response"
    BY ZenonT(30), <1>1, <1>2 DEF CallOK, ResponseOK, Written, Early
  <2>3. QED
    BY ZenonT(30), <1>2, <2>1, <2>2 DEF CallOK, StreamOK, PendingOK, ResponseOK, Early
<1>8. QED
  BY ZenonT(30), <1>2, <1>5, <1>6, <1>7, AloneOK

\* A unary call returns, or a follower does.
LEMMA WaitOK ==
  ASSUME Ready, NEW o \in Ops,
         Receive(o) \/ invokeAsyncHandler(o) \/ SeesClosed(o) \/ CallGivesUp(o)
  PROVE  \A p \in Ops : CallOK(p)'
<1>1. Shape /\ CallOK(o) /\ Begun(o)
  BY ZenonT(30) DEF Ready
<1>2. /\ cpc[o] = "wait"
      /\ UNCHANGED <<closing, sreader, cause, cstreams, gaveUp, kind>>
      /\ \/ \E what \in {"response", "error"} :
              Return(o, what) /\ resp' = [resp EXCEPT ![o] = "empty"] /\ pending' = pending
         \/ Return(o, "error") /\ resp' = resp /\ pending' = pending \ {o}
  BY ZenonT(30), <1>1 DEF Receive, invokeAsyncHandler, SeesClosed, CallGivesUp, Shape
<1>3. Alone(o)
  BY ZenonT(30), <1>1, <1>2 DEF Return, Goto, Shape, Alone, Closes, Same, Entries
<1>4. cpc'[o] \in {"land", "over"} /\ (o \in pending' => o \in pending)
  BY ZenonT(30), <1>1, <1>2 DEF Return, Goto, Shape
<1>5. kind[o] \in Unary /\ o \notin cstreams /\ cause[o] # "response"
  BY ZenonT(30), <1>1, <1>2 DEF CallOK, ResponseOK, Begun, Paced, Stream, Unary
<1>6. CallOK(o)'
  BY ZenonT(30), <1>1, <1>2, <1>4, <1>5 DEF CallOK, StreamOK, PendingOK, ResponseOK, Done,
     Early, Unary
<1>7. QED
  BY ZenonT(30), <1>3, <1>6, AloneOK

\* Singleflight.
LEMMA JoinOK ==
  ASSUME Ready, NEW o \in Ops, FollowerGivesUp(o) \/ Land(o)
  PROVE  \A p \in Ops : CallOK(p)'
<1>1. Shape /\ CallOK(o) /\ Begun(o)
  BY ZenonT(30) DEF Ready
<1>2. /\ cpc[o] \in {"follow", "land"}
      /\ UNCHANGED <<closing, sreader, cause, resp, cstreams, pending, gaveUp, kind>>
      /\ \E pc \in {"over", "publish"} : Goto(o, pc)
      /\ \/ cpc[o] = "land" /\ got' = got
         \/ got' = [got EXCEPT ![o] = "error"]
  BY ZenonT(30) DEF FollowerGivesUp, Land
<1>3. Alone(o)
  BY ZenonT(30), <1>1, <1>2 DEF Goto, Shape, Alone, Closes, Same, Entries
<1>4. cpc'[o] \in {"over", "publish"}
  BY ZenonT(30), <1>1, <1>2 DEF Goto, Shape
<1>5. kind[o] = "single" /\ o \notin cstreams
  BY ZenonT(30), <1>1, <1>2 DEF CallOK, Begun, Paced, Stream
<1>6. CallOK(o)'
  BY ZenonT(30), <1>1, <1>2, <1>4, <1>5 DEF CallOK, StreamOK, PendingOK, ResponseOK, Done,
     Early, Stream
<1>7. QED
  BY ZenonT(30), <1>3, <1>6, AloneOK

\* The leader of a flight and its followers return.
LEMMA PublishOK ==
  ASSUME Ready, NEW o \in Ops, Publish(o)
  PROVE  \A p \in Ops : CallOK(p)'
<1>1. Shape
  BY ZenonT(30) DEF Ready
<1>2. /\ UNCHANGED <<closing, sreader, cause, resp, cstreams, pending, gaveUp, kind>>
      /\ \A p \in Ops : \/ cpc'[p] = cpc[p] /\ got'[p] = got[p]
                        \/ cpc[p] \in {"follow", "publish"} /\ cpc'[p] = "over"
  BY ZenonT(30), <1>1 DEF Publish, Shape
<1>3. ASSUME NEW p \in Ops PROVE CallOK(p)'
  <2>1. CallOK(p) /\ Begun(p)
    BY ZenonT(30) DEF Ready
  <2>2. CASE cpc'[p] = cpc[p] /\ got'[p] = got[p]
    <3>1. Same(p) /\ Closes
      BY ZenonT(30), <1>2, <2>2 DEF Same, Entries, Closes
    <3>2. QED
      BY ZenonT(30), <1>2, <3>1, AllSameOK
  <2>3. CASE cpc[p] \in {"follow", "publish"} /\ cpc'[p] = "over"
    <3>1. kind[p] = "single" /\ p \notin cstreams
      BY ZenonT(30), <2>1, <2>3 DEF Begun, Paced, Stream
    <3>2. QED
      BY ZenonT(30), <1>2, <2>1, <2>3, <3>1
         DEF CallOK, StreamOK, PendingOK, ResponseOK, Done, Early, Stream
  <2>4. QED
    BY ZenonT(30), <1>2, <2>2, <2>3
<1>4. QED
  BY ZenonT(30), <1>3

\* CloseAndRecv returns what was delivered, or an error.
LEMMA ResultOK ==
  ASSUME Ready, NEW o \in Ops, NEW what, Return(o, what), Finish(o, "closed"),
         Written(o), kind[o] \in Stream,
         what = resp[o] \/ (resp[o] = "empty" /\ what = "error"),
         UNCHANGED <<closing, sreader, resp, gaveUp, kind>>
  PROVE  \A p \in Ops : CallOK(p)'
<1>1. Shape /\ CallOK(o) /\ Begun(o)
  BY ZenonT(30) DEF Ready
<1>2. Alone(o)
  BY ZenonT(30), <1>1 DEF Return, Goto, Finish, FinishAll, Shape, Alone, Closes, Same,
     Entries
<1>3. /\ cpc'[o] \in {"land", "over"} /\ o \notin cstreams' /\ o \notin pending'
      /\ cause'[o] = (IF Done(o) THEN cause[o] ELSE "closed") /\ got'[o] = what
  BY ZenonT(30), <1>1 DEF Return, Goto, Finish, FinishAll, Shape
<1>4. StreamOK(o)' /\ PendingOK(o)'
  BY ZenonT(30), <1>3 DEF StreamOK, PendingOK, Early
<1>5. ResponseOK(o)'
  BY ZenonT(30), <1>1, <1>3 DEF CallOK, ResponseOK, Written, Early
<1>6. QED
  BY ZenonT(30), <1>2, <1>4, <1>5, AloneOK DEF CallOK

\* The caller of a stream goes on.
LEMMA PaceOK ==
  ASSUME Ready, NEW o \in Ops, NEW pc \in {"closeSend", "ending", "recheck"}, Goto(o, pc),
         cpc[o] \in {"open", "closeSend", "await"}, pc = "recheck" => Done(o),
         UNCHANGED <<closing, sreader, cause, resp, got, cstreams, pending, gaveUp, kind>>
  PROVE  \A p \in Ops : CallOK(p)'
<1>1. Shape /\ CallOK(o) /\ Begun(o)
  BY ZenonT(30) DEF Ready
<1>2. Alone(o) /\ cpc'[o] = pc
  BY ZenonT(30), <1>1 DEF Goto, Shape, Alone, Closes, Same, Entries
<1>3. kind[o] \in Stream
  BY ZenonT(30), <1>1 DEF Begun, Paced, Stream
<1>4. StreamOK(o)' /\ PendingOK(o)'
  BY ZenonT(30), <1>1, <1>2, <1>3 DEF CallOK, StreamOK, PendingOK, Done, Early, Stream,
     Unary
<1>5. ResponseOK(o)'
  BY ZenonT(30), <1>1, <1>2 DEF CallOK, ResponseOK, Written, Early
<1>6. QED
  BY ZenonT(30), <1>2, <1>4, <1>5, AloneOK DEF CallOK

\* The first look of CloseAndRecv, its wait and its last look.
LEMMA CloseOK ==
  ASSUME Ready, NEW o \in Ops, CloseStart(o) \/ Await(o) \/ Recheck(o)
  PROVE  \A p \in Ops : CallOK(p)'
<1>1. Shape /\ CallOK(o) /\ Begun(o)
  BY ZenonT(30) DEF Ready
<1>2. cpc[o] \in {"open", "await", "recheck"}
      /\ UNCHANGED <<closing, sreader, resp, gaveUp, kind>>
  BY ZenonT(30) DEF CloseStart, Await, Recheck
<1>3. Written(o) /\ kind[o] \in Stream
  BY ZenonT(30), <1>1, <1>2 DEF Begun, Paced, Written, Early, Stream
<1>4. CASE Return(o, resp[o]) /\ Finish(o, "closed")
  BY ZenonT(30), <1>2, <1>3, <1>4, ResultOK
<1>5. CASE Return(o, "error") /\ resp[o] = "empty" /\ Finish(o, "closed")
  BY ZenonT(30), <1>2, <1>3, <1>5, ResultOK
<1>6. CASE /\ cpc[o] = "open" /\ Goto(o, "closeSend")
           /\ UNCHANGED <<got, cause, cstreams, pending>>
  BY ZenonT(30), <1>2, <1>6, PaceOK
<1>7. CASE /\ cpc[o] = "await" /\ Done(o) /\ Goto(o, "recheck")
           /\ UNCHANGED <<got, cause, cstreams, pending>>
  BY ZenonT(30), <1>2, <1>7, PaceOK
<1>8. QED
  BY ZenonT(30), <1>4, <1>5, <1>6, <1>7 DEF CloseStart, Await, Recheck

\* CloseSend.
LEMMA WriteEndOK ==
  ASSUME Ready, closing \in [Conns -> ClosePcs], NEW o \in Ops, WriteEnd(o)
  PROVE  \A p \in Ops : CallOK(p)'
<1>1. Shape /\ CallOK(o) /\ Begun(o)
  BY ZenonT(30) DEF Ready
<1>2. cpc[o] = "closeSend" /\ UNCHANGED <<sreader, resp, got, kind>>
  BY ZenonT(30) DEF WriteEnd
<1>3. CASE /\ Done(o) /\ Goto(o, "recheck")
           /\ UNCHANGED <<closing, cause, cstreams, pending, gaveUp>>
  BY ZenonT(30), <1>2, <1>3, PaceOK
<1>4. CASE Goto(o, "ending") /\ UNCHANGED <<closing, cause, cstreams, pending, gaveUp>>
  BY ZenonT(30), <1>2, <1>4, PaceOK
<1>5. CASE /\ ~Done(o) /\ Finish(o, "error") /\ Goto(o, "recheck")
           /\ gaveUp' = gaveUp \/ gaveUp' = gaveUp \cup {o}
           /\ closing' = closing \/ BeginClose(ConnOf[o])
  <2>1. ConnOf[o] \in Conns
    BY ZenonT(30), LinkAssumption
  <2>2. Closes
    BY ZenonT(30), <1>5, <2>1, ClosesOnce DEF Closes
  <2>3. Alone(o)
    BY ZenonT(30), <1>1, <1>2, <1>5, <2>2
       DEF Goto, Finish, FinishAll, Shape, Alone, Same, Entries
  <2>4. /\ cpc'[o] = "recheck" /\ o \notin cstreams' /\ o \notin pending'
        /\ cause'[o] = "error"
    BY ZenonT(30), <1>1, <1>5 DEF Goto, Finish, FinishAll, Shape
  <2>5. kind[o] \in Stream
    BY ZenonT(30), <1>1, <1>2 DEF Begun, Paced, Stream
  <2>6. CallOK(o)'
    BY ZenonT(30), <1>2, <2>4, <2>5 DEF CallOK, StreamOK, PendingOK, ResponseOK, Done,
       Early, Stream, Unary
  <2>7. QED
    BY ZenonT(30), <2>3, <2>6, AloneOK
<1>6. QED
  BY ZenonT(30), <1>3, <1>4, <1>5 DEF WriteEnd

\* The rest of CloseSend.
LEMMA EndSentOK ==
  ASSUME Ready, NEW o \in Ops, EndSent(o)
  PROVE  \A p \in Ops : CallOK(p)'
<1>1. Shape /\ CallOK(o) /\ Begun(o)
  BY ZenonT(30) DEF Ready
<1>2. /\ cpc[o] = "ending" /\ UNCHANGED <<closing, sreader, resp, got, gaveUp, kind>>
      /\ Goto(o, IF kind[o] = "client" THEN "await" ELSE "over")
      /\ Finish(o, "ended") \/ UNCHANGED <<cause, cstreams, pending>>
  BY ZenonT(30) DEF EndSent
<1>3. Alone(o)
  BY ZenonT(30), <1>1, <1>2 DEF Goto, Finish, FinishAll, Shape, Alone, Closes, Same, Entries
<1>4. /\ cpc'[o] \in {"await", "over"}
      /\ \/ /\ o \notin cstreams' /\ o \notin pending'
            /\ cause'[o] = (IF Done(o) THEN cause[o] ELSE "ended")
         \/ UNCHANGED <<cause, cstreams, pending>>
  BY ZenonT(30), <1>1, <1>2 DEF Goto, Finish, FinishAll, Shape
<1>5. kind[o] \in Stream
  BY ZenonT(30), <1>1, <1>2 DEF Begun, Paced, Stream
<1>6. StreamOK(o)' /\ PendingOK(o)'
  BY ZenonT(30), <1>1, <1>2, <1>4, <1>5 DEF CallOK, StreamOK, PendingOK, Done, Early,
     Stream, Unary
<1>7. ResponseOK(o)'
  BY ZenonT(30), <1>1, <1>2, <1>4 DEF CallOK, ResponseOK, Written, Early, Done
<1>8. QED
  BY ZenonT(30), <1>3, <1>6, <1>7, AloneOK DEF CallOK

\* The application cancels, or its context ends.
LEMMA GiveUpOK ==
  ASSUME Ready, NEW o \in Ops, CancelHandle(o) \/ StreamGivesUp(o)
  PROVE  \A p \in Ops : CallOK(p)'
<1>1. Shape /\ CallOK(o) /\ Begun(o)
  BY ZenonT(30) DEF Ready
<1>2. /\ o \in cstreams /\ cpc[o] # "send" /\ gaveUp' = gaveUp \cup {o}
      /\ UNCHANGED <<closing, sreader, cpc, resp, got, kind>>
      /\ \/ pending' = pending \ {o} /\ cause' = cause /\ cstreams' = cstreams
         \/ \E why \in {"cancel", "deadline"} : Finish(o, why)
  BY ZenonT(30) DEF CancelHandle, StreamGivesUp
<1>3. Alone(o)
  BY ZenonT(30), <1>1, <1>2 DEF Finish, FinishAll, Shape, Alone, Closes, Same, Entries
<1>4. /\ o \notin pending' /\ o \in gaveUp'
      /\ \/ cause'[o] = cause[o] /\ o \in cstreams'
         \/ cause'[o] \in {"cancel", "deadline"} /\ o \notin cstreams'
  BY ZenonT(30), <1>1, <1>2 DEF Finish, FinishAll, CallOK, StreamOK, Done
<1>5. kind[o] \in Stream /\ cpc[o] \notin Early
  BY ZenonT(30), <1>1, <1>2 DEF Begun
<1>6. StreamOK(o)' /\ PendingOK(o)'
  BY ZenonT(30), <1>1, <1>2, <1>4, <1>5 DEF CallOK, StreamOK, PendingOK, Done, Stream, Unary
<1>7. ResponseOK(o)'
  BY ZenonT(30), <1>1, <1>2, <1>4, <1>5 DEF CallOK, ResponseOK, Written, Early
<1>8. QED
  BY ZenonT(30), <1>3, <1>6, <1>7, AloneOK DEF CallOK

\* The last frame of a stream or of a call.
LEMMA WriteOutOK ==
  ASSUME Ready, closing \in [Conns -> ClosePcs], NEW o \in Ops, WriteOut(o)
  PROVE  \A p \in Ops : CallOK(p)'
<1>1. /\ UNCHANGED <<sreader, cpc, kind, cause, resp, got, cstreams, pending, gaveUp>>
      /\ closing' = closing \/ BeginClose(ConnOf[o])
  BY ZenonT(30) DEF WriteOut
<1>2. ConnOf[o] \in Conns
  BY ZenonT(30), LinkAssumption
<1>3. Closes
  BY ZenonT(30), <1>1, <1>2, ClosesOnce DEF Closes
<1>4. \A p \in Ops : Same(p)
  BY ZenonT(30), <1>1 DEF Same, Entries
<1>5. QED
  BY ZenonT(30), <1>1, <1>3, <1>4, AllSameOK

\* What a response or an error, and the end of a direction, do to their operation.
LEMMA AnswerRead ==
  ASSUME NEW k \in Conns, ReadFrame(k), NEW f, f = Head(toServer[k]), f.op \in Ops
  PROVE  /\ f.type \in {"response", "error"} =>
              /\ complete(f.op, f.type) /\ cause' = cause /\ cstreams' = cstreams
              /\ f.type = "error" \/ (f.op \in cstreams /\ kind[f.op] = "client") =>
                   sreader' = [sreader EXCEPT ![k] = f]
         /\ f.type \in {"cancel", "end"} =>
              /\ \/ cstreams' = cstreams /\ pending' = pending /\ cause' = cause
                 \/ f.op \in cstreams /\ \E why \in {"cancel", "ended"} : Finish(f.op, why)
              /\ resp' = resp /\ sreader' = sreader
  BY ZenonT(30) DEF ReadFrame

\* The reader takes a frame.
LEMMA ReadOK ==
  ASSUME Ready, sreader \in [Conns -> AnswerSet \cup {Nil}],
         NEW k \in Conns, ReadFrame(k), AnswerOK(k, Head(toServer[k]))
  PROVE  \A p \in Ops : CallOK(p)'
<1>0. PICK f : f = Head(toServer[k])
  OBVIOUS
<1>1. /\ f \in AnswerSet /\ f.op \in Ops /\ ConnOf[f.op] = k /\ Written(f.op)
      /\ f.type \in {"response", "error", "cancel", "end"} /\ f # Nil
  BY ZenonT(30), <1>0, NilIsNoFrame DEF AnswerOK, AnswerSet, AnswerTypes, FrameSet,
     FrameTypes
<1>2. PICK o \in Ops : o = f.op
  BY ZenonT(30), <1>1
<1>3. /\ sreader[k] = Nil /\ UNCHANGED <<closing, cpc, got, gaveUp, kind>>
      /\ sreader' = sreader \/ sreader' = [sreader EXCEPT ![k] = f]
  BY ZenonT(30), <1>0 DEF ReadFrame
<1>4. \/ /\ f.type \in {"response", "error"}
         /\ complete(o, f.type) /\ cause' = cause /\ cstreams' = cstreams
         /\ o \in cstreams /\ kind[o] = "client" => sreader' = [sreader EXCEPT ![k] = f]
      \/ /\ \/ cstreams' = cstreams /\ pending' = pending /\ cause' = cause
            \/ o \in cstreams /\ \E why \in {"cancel", "ended"} : Finish(o, why)
         /\ resp' = resp /\ sreader' = sreader
  BY ZenonT(30), <1>0, <1>1, <1>2, AnswerRead
<1>5. Shape /\ CallOK(o) /\ Begun(o)
  BY ZenonT(30) DEF Ready
<1>6. \A p \in Ops \ {o} : Same(p)
  BY ZenonT(30), <1>3, <1>4, <1>5 DEF complete, Finish, FinishAll, Shape, Same, Entries
<1>7. ASSUME NEW p \in Ops, p # o PROVE CallOK(p)'
  <2>1. PICK c \in Conns : c = ConnOf[p]
    BY ZenonT(30), LinkAssumption
  <2>2. sreader[c] # Nil => sreader'[c] = sreader[c]
    BY ZenonT(30), <1>3
  <2>3. CallOK(p) /\ Same(p) /\ closing'[c] = closing[c]
    BY ZenonT(30), <1>3, <1>6, <1>7 DEF Ready
  <2>4. QED
    BY ZenonT(30), <2>1, <2>2, <2>3, SameOK
<1>8. CallOK(o)'
  <2>0. cpc[o] \notin Early /\ cpc[o] # "add"
    BY ZenonT(30), <1>1, <1>2 DEF Written, Early
  <2>1. CASE /\ f.type \in {"response", "error"}
             /\ complete(o, f.type) /\ cause' = cause /\ cstreams' = cstreams
             /\ o \in cstreams /\ kind[o] = "client" => sreader' = [sreader EXCEPT ![k] = f]
    <3>1. /\ o \notin pending'
          /\ o \in pending => resp'[o] = f.type
          /\ o \notin pending => resp'[o] = resp[o]
      BY ZenonT(30), <1>5, <2>1 DEF complete, Shape
    <3>2. kind[o] = "client" /\ o \in cstreams => sreader'[k] = f
      BY ZenonT(30), <2>1
    <3>3. StreamOK(o)' /\ PendingOK(o)'
      BY ZenonT(30), <1>3, <1>5, <2>1, <3>1 DEF CallOK, StreamOK, PendingOK, Done
    <3>4. ResponseOK(o)'
      <4>1. cause[o] = "response" => o \notin pending
        BY ZenonT(30), <1>5 DEF CallOK, PendingOK, Done
      <4>2. o \in cstreams \ gaveUp /\ kind[o] = "client" => o \in pending
        BY ZenonT(30), <1>1, <1>2, <1>3, <1>5 DEF CallOK, ResponseOK
      <4>3. QED
        BY ZenonT(30), <1>1, <1>2, <1>3, <1>5, <2>0, <2>1, <3>1, <3>2, <4>1, <4>2
           DEF CallOK, ResponseOK, Written
    <3>5. QED
      BY ZenonT(30), <3>3, <3>4 DEF CallOK
  <2>2. CASE /\ \/ cstreams' = cstreams /\ pending' = pending /\ cause' = cause
                \/ o \in cstreams /\ \E why \in {"cancel", "ended"} : Finish(o, why)
             /\ resp' = resp /\ sreader' = sreader
    <3>1. \/ UNCHANGED <<cstreams, pending, cause>>
          \/ /\ o \notin cstreams' /\ o \notin pending' /\ kind[o] \in Stream
             /\ cause'[o] \in {"cancel", "ended"}
      BY ZenonT(30), <1>5, <2>2 DEF Finish, FinishAll, Done, Begun, CallOK, StreamOK
    <3>2. StreamOK(o)' /\ PendingOK(o)'
      BY ZenonT(30), <1>3, <1>5, <2>0, <2>2, <3>1 DEF CallOK, StreamOK, PendingOK, Done,
         Stream, Unary
    <3>3. ResponseOK(o)'
      BY ZenonT(30), <1>3, <1>5, <2>0, <2>2, <3>1 DEF CallOK, ResponseOK, Written
    <3>4. QED
      BY ZenonT(30), <3>2, <3>3 DEF CallOK
  <2>3. QED
    BY ZenonT(30), <1>4, <2>1, <2>2
<1>9. QED
  BY ZenonT(30), <1>7, <1>8

\* The reader ends the stream of the frame it has completed.
LEMMA RestOK ==
  ASSUME Ready, sreader \in [Conns -> AnswerSet \cup {Nil}],
         NEW k \in Conns, ReaderOK(k), ReadRest(k)
  PROVE  \A p \in Ops : CallOK(p)'
<1>0. PICK f : f = sreader[k]
  OBVIOUS
<1>1. /\ f \in AnswerSet /\ f.op \in Ops /\ ConnOf[f.op] = k /\ Written(f.op)
      /\ f.type \in {"response", "error"} /\ f.op \notin pending
      /\ f.type = "response" => kind[f.op] = "client"
  BY ZenonT(30), <1>0 DEF ReadRest, ReaderOK, AnswerOK, AnswerSet
<1>2. PICK o \in Ops : o = f.op
  BY ZenonT(30), <1>1
<1>3. /\ UNCHANGED <<closing, cpc, got, gaveUp, kind, resp>>
      /\ sreader' = [sreader EXCEPT ![k] = Nil]
      /\ \/ o \in cstreams /\ Finish(o, f.type)
         \/ o \notin cstreams /\ UNCHANGED <<cause, cstreams, pending>>
  BY ZenonT(30), <1>0, <1>2 DEF ReadRest
<1>4. Shape /\ CallOK(o) /\ Begun(o)
  BY ZenonT(30) DEF Ready
<1>5. \A p \in Ops \ {o} : Same(p)
  BY ZenonT(30), <1>3, <1>4 DEF Finish, FinishAll, Shape, Same, Entries
<1>6. ASSUME NEW p \in Ops, p # o PROVE CallOK(p)'
  <2>1. PICK c \in Conns : c = ConnOf[p]
    BY ZenonT(30), LinkAssumption
  <2>2. sreader[c] # Nil /\ sreader[c].op = p => sreader'[c] = sreader[c]
    BY ZenonT(30), <1>0, <1>2, <1>3, <1>6
  <2>3. CallOK(p) /\ Same(p) /\ closing'[c] = closing[c]
    BY ZenonT(30), <1>3, <1>5, <1>6 DEF Ready
  <2>4. QED
    BY ZenonT(30), <2>1, <2>2, <2>3, SameOK
<1>7. CallOK(o)'
  <2>0. cpc[o] \notin Early /\ cpc[o] # "add" /\ ConnOf[o] = k
    BY ZenonT(30), <1>1, <1>2 DEF Written, Early
  <2>1. /\ o \notin cstreams' /\ (o \in pending' => o \in pending)
        /\ \/ o \notin cstreams /\ cause'[o] = cause[o] /\ pending' = pending
           \/ o \in cstreams /\ cause'[o] = f.type /\ kind[o] \in Stream
    BY ZenonT(30), <1>3, <1>4 DEF Finish, FinishAll, Done, Begun, CallOK, StreamOK
  <2>2. StreamOK(o)' /\ PendingOK(o)'
    BY ZenonT(30), <1>1, <1>2, <1>3, <1>4, <2>0, <2>1
       DEF CallOK, StreamOK, PendingOK, Done, Stream, Unary
  <2>3. ResponseOK(o)'
    <3>1. /\ o \in cstreams /\ f.type = "response" /\ o \notin gaveUp => resp[o] = "response"
          /\ o \in cstreams => got[o] = "none"
      BY ZenonT(30), <1>0, <1>1, <1>2, <1>4, <2>0 DEF CallOK, ResponseOK, StreamOK
    <3>2. QED
      BY ZenonT(30), <1>1, <1>2, <1>3, <1>4, <2>0, <2>1, <3>1 DEF CallOK, ResponseOK,
         Written
  <2>4. QED
    BY ZenonT(30), <2>2, <2>3 DEF CallOK
<1>8. QED
  BY ZenonT(30), <1>6, <1>7

\* failStreams.
LEMMA CloseStreamsOK ==
  ASSUME Ready, closing \in [Conns -> ClosePcs], NEW k \in Conns, CloseStreams(k)
  PROVE  \A p \in Ops : CallOK(p)'
<1>1. /\ UNCHANGED <<sreader, cpc, resp, got, gaveUp, kind>> /\ closing[k] = "streams"
      /\ closing' = [closing EXCEPT ![k] = "pending"]
      /\ FinishAll(On(k, cstreams), "error")
  BY ZenonT(30) DEF CloseStreams
<1>2. SUFFICES ASSUME NEW p \in Ops PROVE CallOK(p)'
  OBVIOUS
<1>3. CallOK(p) /\ Begun(p)
  BY ZenonT(30) DEF Ready
<1>4. PICK c \in Conns : c = ConnOf[p]
  BY ZenonT(30), LinkAssumption
<1>5. CASE c # k
  <2>1. Same(p) /\ closing'[c] = closing[c]
    BY ZenonT(30), <1>1, <1>4, <1>5 DEF FinishAll, On, Same, Entries
  <2>2. QED
    BY ZenonT(30), <1>1, <1>3, <1>4, <2>1, SameOK
<1>6. CASE c = k
  <2>1. /\ closing[c] = "streams" /\ closing'[c] = "pending" /\ p \notin cstreams'
        /\ \/ p \notin cstreams /\ cause'[p] = cause[p] /\ (p \in pending' <=> p \in pending)
           \/ p \in cstreams /\ cause'[p] = "error" /\ p \notin pending'
    BY ZenonT(30), <1>1, <1>3, <1>4, <1>6 DEF FinishAll, On, Done, CallOK, StreamOK
  <2>2. StreamOK(p)' /\ PendingOK(p)'
    BY ZenonT(30), <1>1, <1>3, <1>4, <2>1 DEF CallOK, StreamOK, PendingOK, Begun, Done,
       Early, Stream, Unary
  <2>3. ResponseOK(p)'
    BY ZenonT(30), <1>1, <1>3, <1>4, <2>1 DEF CallOK, ResponseOK, Begun, Written, Early
  <2>4. QED
    BY ZenonT(30), <2>2, <2>3 DEF CallOK
<1>7. QED
  BY ZenonT(30), <1>5, <1>6

\* failPending.
LEMMA ClosePendingOK ==
  ASSUME Ready, closing \in [Conns -> ClosePcs], NEW k \in Conns, ClosePending(k)
  PROVE  \A p \in Ops : CallOK(p)'
<1>1. /\ UNCHANGED <<sreader, cpc, cause, cstreams, got, gaveUp, kind>>
      /\ closing[k] = "pending" /\ closing' = [closing EXCEPT ![k] = "done"]
      /\ resp' = [o \in Ops |-> IF o \in On(k, pending) THEN "error" ELSE resp[o]]
      /\ pending' = pending \ On(k, pending)
  BY ZenonT(30) DEF ClosePending
<1>2. SUFFICES ASSUME NEW p \in Ops PROVE CallOK(p)'
  OBVIOUS
<1>3. CallOK(p)
  BY ZenonT(30) DEF Ready
<1>4. PICK c \in Conns : c = ConnOf[p]
  BY ZenonT(30), LinkAssumption
<1>5. CASE c # k
  <2>1. Same(p) /\ closing'[c] = closing[c]
    BY ZenonT(30), <1>1, <1>4, <1>5 DEF On, Same, Entries
  <2>2. QED
    BY ZenonT(30), <1>1, <1>3, <1>4, <2>1, SameOK
<1>6. CASE c = k
  <2>1. /\ closing[c] = "pending" /\ closing'[c] = "done" /\ p \notin pending'
        /\ \/ p \in pending /\ resp'[p] = "error"
           \/ p \notin pending /\ resp'[p] = resp[p]
    BY ZenonT(30), <1>1, <1>4, <1>6 DEF On
  <2>2. StreamOK(p)' /\ PendingOK(p)'
    BY ZenonT(30), <1>1, <1>3, <1>4, <2>1 DEF CallOK, StreamOK, PendingOK, Done
  <2>3. cause[p] = "response" => p \notin pending
    BY ZenonT(30), <1>3 DEF CallOK, PendingOK, Done
  <2>4. ResponseOK(p)'
    BY ZenonT(30), <1>1, <1>3, <1>4, <2>1, <2>3 DEF CallOK, StreamOK, ResponseOK, Written
  <2>5. QED
    BY ZenonT(30), <2>2, <2>4 DEF CallOK
<1>7. QED
  BY ZenonT(30), <1>5, <1>6

\* Every step of the callers and of the Conn.
LEMMA CallsOK ==
  ASSUME CallerTypes, CallerBegun, CallsInv, CallerStep,
         \A k \in Conns : toServer[k] # <<>> => AnswerOK(k, Head(toServer[k]))
  PROVE  \A o \in Ops : StreamOK(o)' /\ PendingOK(o)' /\ ResponseOK(o)'
<1>1. Ready
  BY ZenonT(30), ReadyHolds
<1>2. closing \in [Conns -> ClosePcs] /\ kind \in [Ops -> Kinds]
  BY ZenonT(30) DEF CallerTypes
<1>3. sreader \in [Conns -> AnswerSet \cup {Nil}] /\ \A k \in Conns : ReaderOK(k)
  BY ZenonT(30) DEF CallsInv, CallTypes
<1>4. ASSUME NEW k \in Conns, ReadFrame(k) PROVE AnswerOK(k, Head(toServer[k]))
  BY ZenonT(30), <1>4 DEF ReadFrame
<1>5. \A p \in Ops : CallOK(p)'
  BY ZenonT(30), <1>1, <1>2, <1>3, <1>4, CallerCases, BeginOK, PendOK, AddOK, WriteOK,
     WaitOK, JoinOK, PublishOK, CloseOK, WriteEndOK, EndSentOK, GiveUpOK, WriteOutOK,
     ReadOK, RestOK, CloseStreamsOK, ClosePendingOK
<1>6. QED
  BY ZenonT(30), <1>5 DEF CallOK

\* Before a step, of the flights.
FlightReady ==
  /\ cpc \in [Ops -> CallPcs] /\ kind \in [Ops -> Kinds] /\ \A o \in Ops : Paced(o)
  /\ flight \in [Conns -> Ops \cup {Nil}] /\ leader \in [Ops -> Ops \cup {Nil}] /\ FlightOK

\* A step of one caller that is no step of a flight.
LEMMA FlightStays ==
  ASSUME FlightReady, NEW o \in Ops, UNCHANGED <<kind, flight, leader>>,
         \A p \in Ops \ {o} : cpc'[p] = cpc[p], cpc'[o] # "follow",
         \/ kind[o] # "single"
         \/ cpc[o] \in {"pend", "send", "wait"} /\ cpc'[o] \in {"send", "wait", "land"}
         \/ cpc[o] = "follow"
  PROVE  FlightOK'
<1>1. ASSUME NEW k \in Conns, flight'[k] # Nil
      PROVE  /\ ConnOf[flight'[k]] = k /\ kind'[flight'[k]] = "single"
             /\ cpc'[flight'[k]] \in {"pend", "send", "wait", "land"}
  <2>1. PICK l \in Ops : l = flight[k]
    BY ZenonT(30), <1>1 DEF FlightReady
  <2>2. /\ ConnOf[l] = k /\ kind[l] = "single" /\ cpc[l] \in {"pend", "send", "wait", "land"}
    BY ZenonT(30), <1>1, <2>1 DEF FlightReady, FlightOK
  <2>3. cpc'[l] \in {"pend", "send", "wait", "land"}
    BY ZenonT(30), <2>2
  <2>4. QED
    BY ZenonT(30), <2>1, <2>2, <2>3
<1>2. ASSUME NEW p \in Ops, cpc'[p] = "follow"
      PROVE  /\ leader'[p] # Nil /\ kind'[leader'[p]] = "single"
             /\ cpc'[leader'[p]] \in {"pend", "send", "wait", "land", "publish"}
  <2>1. cpc[p] = "follow"
    BY ZenonT(30), <1>2
  <2>2. /\ leader[p] # Nil /\ kind[leader[p]] = "single"
        /\ cpc[leader[p]] \in {"pend", "send", "wait", "land", "publish"}
    BY ZenonT(30), <2>1 DEF FlightReady, FlightOK
  <2>3. PICK l \in Ops : l = leader[p]
    BY ZenonT(30), <2>2 DEF FlightReady
  <2>4. cpc'[l] \in {"pend", "send", "wait", "land", "publish"}
    BY ZenonT(30), <2>2, <2>3
  <2>5. QED
    BY ZenonT(30), <2>2, <2>3, <2>4
<1>3. QED
  BY ZenonT(30), <1>1, <1>2 DEF FlightOK

\* A call joins a flight, or leads one.
LEMMA FlightBegins ==
  ASSUME FlightReady, NEW o \in Ops, NEW k \in Kinds, Begin(o, k)
  PROVE  FlightOK'
<1>1. PICK c \in Conns : c = ConnOf[o]
  BY ZenonT(30), LinkAssumption
<1>2. /\ cpc[o] = "idle" /\ kind' = [kind EXCEPT ![o] = k]
      /\ \/ \E pc \in {"pend", "add", "send"} : Goto(o, pc) /\ UNCHANGED <<flight, leader>>
         \/ /\ k = "single" /\ Goto(o, "pend") /\ flight' = [flight EXCEPT ![c] = o]
            /\ leader' = leader
         \/ /\ flight[c] # Nil /\ Goto(o, "follow") /\ flight' = flight
            /\ leader' = [leader EXCEPT ![o] = flight[c]]
  BY ZenonT(30), <1>1 DEF Begin
<1>3. \A p \in Ops \ {o} : cpc'[p] = cpc[p] /\ kind'[p] = kind[p]
  BY ZenonT(30), <1>2 DEF Goto, FlightReady
<1>4. ASSUME NEW j \in Conns, flight[j] # Nil
      PROVE  /\ flight[j] \in Ops \ {o} /\ ConnOf[flight[j]] = j /\ kind[flight[j]] = "single"
             /\ cpc[flight[j]] \in {"pend", "send", "wait", "land"}
  BY <1>2, <1>4 DEF FlightReady, FlightOK
<1>5. ASSUME NEW j \in Conns, flight'[j] # Nil
      PROVE  /\ ConnOf[flight'[j]] = j /\ kind'[flight'[j]] = "single"
             /\ cpc'[flight'[j]] \in {"pend", "send", "wait", "land"}
  <2>1. CASE flight'[j] = flight[j]
    <3>1. PICK l \in Ops \ {o} : /\ l = flight[j] /\ ConnOf[l] = j /\ kind[l] = "single"
                                 /\ cpc[l] \in {"pend", "send", "wait", "land"}
      BY ZenonT(30), <1>4, <1>5, <2>1
    <3>2. kind'[l] = "single" /\ cpc'[l] \in {"pend", "send", "wait", "land"}
      BY ZenonT(30), <1>3, <3>1
    <3>3. QED
      BY ZenonT(30), <2>1, <3>1, <3>2
  <2>2. CASE flight'[j] # flight[j]
    <3>1. k = "single" /\ Goto(o, "pend") /\ j = c /\ flight'[j] = o
      BY ZenonT(30), <1>2, <2>2 DEF FlightReady
    <3>2. cpc'[o] = "pend" /\ kind'[o] = "single"
      BY ZenonT(30), <1>2, <3>1 DEF Goto, FlightReady
    <3>3. QED
      BY ZenonT(30), <1>1, <3>1, <3>2
  <2>3. QED
    BY ZenonT(30), <2>1, <2>2
<1>6. ASSUME NEW p \in Ops, cpc'[p] = "follow"
      PROVE  /\ leader'[p] # Nil /\ kind'[leader'[p]] = "single"
             /\ cpc'[leader'[p]] \in {"pend", "send", "wait", "land", "publish"}
  <2>1. CASE p = o
    <3>1. flight[c] # Nil /\ leader'[o] = flight[c]
      BY ZenonT(30), <1>2, <1>6, <2>1 DEF Goto, FlightReady
    <3>2. PICK l \in Ops \ {o} : /\ l = flight[c] /\ kind[l] = "single"
                                 /\ cpc[l] \in {"pend", "send", "wait", "land"}
      BY ZenonT(30), <1>4, <3>1
    <3>3. leader'[p] = l /\ l # Nil
      BY ZenonT(30), <2>1, <3>1, <3>2
    <3>4. kind'[l] = "single" /\ cpc'[l] \in {"pend", "send", "wait", "land", "publish"}
      BY ZenonT(30), <1>3, <3>2
    <3>5. QED
      BY ZenonT(30), <3>3, <3>4
  <2>2. CASE p # o
    <3>1. leader'[p] = leader[p] /\ cpc[p] = "follow"
      BY ZenonT(30), <1>2, <1>3, <1>6, <2>2 DEF FlightReady
    <3>2. /\ leader[p] # Nil /\ kind[leader[p]] = "single"
          /\ cpc[leader[p]] \in {"pend", "send", "wait", "land", "publish"}
      BY ZenonT(30), <3>1 DEF FlightReady, FlightOK
    <3>3. PICK l \in Ops : l = leader[p]
      BY ZenonT(30), <3>2 DEF FlightReady
    <3>4. kind'[l] = "single" /\ cpc'[l] \in {"pend", "send", "wait", "land", "publish"}
      BY ZenonT(30), <1>2, <1>3, <3>2, <3>3
    <3>5. QED
      BY ZenonT(30), <3>1, <3>2, <3>3, <3>4
  <2>3. QED
    BY ZenonT(30), <2>1, <2>2
<1>7. QED
  BY ZenonT(30), <1>5, <1>6 DEF FlightOK

\* The leader of a flight lands, and then publishes.
LEMMA FlightEnds ==
  ASSUME FlightReady, NEW o \in Ops, Land(o) \/ Publish(o)
  PROVE  FlightOK'
<1>1. PICK c \in Conns : c = ConnOf[o]
  BY ZenonT(30), LinkAssumption
<1>2. CASE Land(o)
  <2>1. /\ cpc[o] = "land" /\ cpc'[o] = "publish" /\ UNCHANGED <<kind, leader>>
        /\ \A p \in Ops \ {o} : cpc'[p] = cpc[p]
        /\ flight' = [flight EXCEPT ![c] = Nil]
    BY ZenonT(30), <1>1, <1>2 DEF Land, Goto, FlightReady
  <2>2. ASSUME NEW j \in Conns, flight'[j] # Nil
        PROVE  /\ ConnOf[flight'[j]] = j /\ kind'[flight'[j]] = "single"
               /\ cpc'[flight'[j]] \in {"pend", "send", "wait", "land"}
    <3>1. j # c /\ flight'[j] = flight[j]
      BY ZenonT(30), <2>1, <2>2 DEF FlightReady
    <3>2. PICK l \in Ops : l = flight[j]
      BY ZenonT(30), <2>2, <3>1 DEF FlightReady
    <3>3. ConnOf[l] = j /\ kind[l] = "single" /\ cpc[l] \in {"pend", "send", "wait", "land"}
      BY ZenonT(30), <2>2, <3>1, <3>2 DEF FlightReady, FlightOK
    <3>4. l # o
      BY ZenonT(30), <1>1, <3>1, <3>3
    <3>5. QED
      BY ZenonT(30), <2>1, <3>1, <3>2, <3>3, <3>4
  <2>3. ASSUME NEW p \in Ops, cpc'[p] = "follow"
        PROVE  /\ leader'[p] # Nil /\ kind'[leader'[p]] = "single"
               /\ cpc'[leader'[p]] \in {"pend", "send", "wait", "land", "publish"}
    <3>1. cpc[p] = "follow"
      BY ZenonT(30), <2>1, <2>3
    <3>2. /\ leader[p] # Nil /\ kind[leader[p]] = "single"
          /\ cpc[leader[p]] \in {"pend", "send", "wait", "land", "publish"}
      BY ZenonT(30), <3>1 DEF FlightReady, FlightOK
    <3>3. PICK l \in Ops : l = leader[p]
      BY ZenonT(30), <3>2 DEF FlightReady
    <3>4. cpc'[l] \in {"pend", "send", "wait", "land", "publish"}
      BY ZenonT(30), <2>1, <3>2, <3>3
    <3>5. QED
      BY ZenonT(30), <2>1, <3>2, <3>3, <3>4
  <2>4. QED
    BY ZenonT(30), <2>2, <2>3 DEF FlightOK
<1>3. CASE Publish(o)
  <2>1. /\ cpc[o] = "publish" /\ UNCHANGED <<kind, leader, flight>>
        /\ \A p \in Ops :
             /\ cpc'[p] = cpc[p] \/ cpc'[p] = "over"
             /\ cpc'[p] # cpc[p] => p = o \/ cpc[p] = "follow"
             /\ cpc[p] = "follow" /\ cpc'[p] = "follow" => leader[p] # o
    BY ZenonT(30), <1>3 DEF Publish, FlightReady
  <2>2. ASSUME NEW j \in Conns, flight'[j] # Nil
        PROVE  /\ ConnOf[flight'[j]] = j /\ kind'[flight'[j]] = "single"
               /\ cpc'[flight'[j]] \in {"pend", "send", "wait", "land"}
    <3>2. PICK l \in Ops : l = flight[j]
      BY ZenonT(30), <2>1, <2>2 DEF FlightReady
    <3>3. ConnOf[l] = j /\ kind[l] = "single" /\ cpc[l] \in {"pend", "send", "wait", "land"}
      BY ZenonT(30), <2>1, <2>2, <3>2 DEF FlightReady, FlightOK
    <3>4. cpc'[l] = cpc[l]
      BY ZenonT(30), <2>1, <3>3
    <3>5. QED
      BY ZenonT(30), <2>1, <3>2, <3>3, <3>4
  <2>3. ASSUME NEW p \in Ops, cpc'[p] = "follow"
        PROVE  /\ leader'[p] # Nil /\ kind'[leader'[p]] = "single"
               /\ cpc'[leader'[p]] \in {"pend", "send", "wait", "land", "publish"}
    <3>1. cpc[p] = "follow" /\ leader[p] # o
      BY ZenonT(30), <2>1, <2>3
    <3>2. /\ leader[p] # Nil /\ kind[leader[p]] = "single"
          /\ cpc[leader[p]] \in {"pend", "send", "wait", "land", "publish"}
      BY ZenonT(30), <3>1 DEF FlightReady, FlightOK
    <3>3. PICK l \in Ops : l = leader[p]
      BY ZenonT(30), <3>2 DEF FlightReady
    <3>4. cpc'[l] = cpc[l]
      BY ZenonT(30), <2>1, <3>1, <3>2, <3>3
    <3>5. QED
      BY ZenonT(30), <2>1, <3>2, <3>3, <3>4
  <2>4. QED
    BY ZenonT(30), <2>2, <2>3 DEF FlightOK
<1>4. QED
  BY ZenonT(30), <1>2, <1>3

\* One case per kind of action.
LEMMA FlightStep ==
  ASSUME CallerTypes, CallerBegun, CallsInv, CallerStep
  PROVE  FlightOK'
<1>0. FlightReady
  BY ZenonT(30) DEF CallerTypes, CallerBegun, CallsInv, CallTypes, FlightReady
<1>1. /\ cpc \in [Ops -> CallPcs] /\ kind \in [Ops -> Kinds]
      /\ \A o \in Ops : Paced(o)
  BY ZenonT(30), <1>0 DEF FlightReady
<1>2. ASSUME NEW o \in Ops, addPending(o) \/ addStream(o) PROVE FlightOK'
  <2>1. /\ UNCHANGED <<kind, flight, leader>> /\ cpc[o] \in {"pend", "add"}
        /\ Return(o, "error") \/ Goto(o, "send") \/ (kind[o] = "client" /\ Goto(o, "add"))
    BY ZenonT(30), <1>2 DEF addPending, addStream
  <2>2. QED
    BY ZenonT(30), <1>0, <1>1, <2>1, FlightStays DEF Return, Goto, Paced, Stream
<1>3. ASSUME NEW o \in Ops, Receive(o) \/ invokeAsyncHandler(o) \/ SeesClosed(o)
                            \/ CallGivesUp(o) \/ FollowerGivesUp(o)
      PROVE  FlightOK'
  <2>1. /\ UNCHANGED <<kind, flight, leader>>
        /\ \/ cpc[o] = "wait" /\ \E what \in {resp[o], "error"} : Return(o, what)
           \/ cpc[o] = "follow" /\ Goto(o, "over")
    BY ZenonT(30), <1>3 DEF Receive, invokeAsyncHandler, SeesClosed, CallGivesUp,
       FollowerGivesUp
  <2>2. QED
    BY ZenonT(30), <1>0, <1>1, <2>1, FlightStays DEF Return, Goto
<1>4. ASSUME NEW o \in Ops, NEW next \in {"wait", "open", "over"}, WritesFirst(o, next)
      PROVE  FlightOK'
  <2>1. /\ UNCHANGED <<kind, flight, leader>> /\ cpc[o] = "send"
        /\ Return(o, "error") \/ Goto(o, next)
    BY ZenonT(30), <1>4 DEF WritesFirst, WriteFirst
  <2>2. kind[o] = "single" => next = "wait"
    BY ZenonT(30), <1>4 DEF WritesFirst, Stream
  <2>3. QED
    BY ZenonT(30), <1>0, <1>1, <2>1, <2>2, FlightStays DEF Return, Goto
<1>5. ASSUME NEW o \in Ops,
             CloseStart(o) \/ WriteEnd(o) \/ EndSent(o) \/ Await(o) \/ Recheck(o)
      PROVE  FlightOK'
  <2>1. /\ UNCHANGED <<kind, flight, leader>>
        /\ cpc[o] \in {"open", "closeSend", "ending", "await", "recheck"}
        /\ \/ \E what \in {resp[o], "error"} : Return(o, what)
           \/ \E pc \in {"closeSend", "recheck", "ending", "await", "over"} : Goto(o, pc)
    BY ZenonT(30), <1>5 DEF CloseStart, WriteEnd, EndSent, Await, Recheck
  <2>2. kind[o] # "single"
    BY ZenonT(30), <1>1, <2>1 DEF Paced, Stream
  <2>3. QED
    BY ZenonT(30), <1>0, <1>1, <2>1, <2>2, FlightStays DEF Return, Goto
<1>6. CASE UNCHANGED <<kind, cpc, flight, leader>>
  BY ZenonT(30), <1>0, <1>6 DEF FlightReady, FlightOK
<1>7. ASSUME NEW o \in Ops, CancelHandle(o) \/ StreamGivesUp(o) \/ WriteOut(o) PROVE FlightOK'
  BY ZenonT(30), <1>6, <1>7 DEF CancelHandle, StreamGivesUp, WriteOut
<1>8. ASSUME NEW k \in Conns,
             ReadFrame(k) \/ ReadRest(k) \/ CloseStreams(k) \/ ClosePending(k)
      PROVE  FlightOK'
  BY ZenonT(30), <1>6, <1>8 DEF ReadFrame, ReadRest, CloseStreams, ClosePending
<1>9. QED
  BY ZenonT(30), <1>0, <1>1, <1>2, <1>3, <1>4, <1>5, <1>7, <1>8, FlightBegins, FlightEnds,
     CallerCases

\* A frame that the reader still holds.
LEMMA ReaderSame ==
  ASSUME NEW k \in Conns, ReaderOK(k), sreader'[k] = sreader[k], Kept,
         pending' \subseteq pending \cup {o \in Ops : cpc[o] = "pend"}
  PROVE  ReaderOK(k)'
<1>1. SUFFICES ASSUME sreader[k] # Nil PROVE ReaderOK(k)'
  BY ZenonT(30) DEF ReaderOK
<1> DEFINE f == sreader[k]
           o == f.op
<1>2. f \in AnswerSet /\ o \in Ops /\ ConnOf[o] = k /\ Written(o) /\ o \notin pending
  BY ZenonT(30), <1>1 DEF ReaderOK, AnswerOK, AnswerSet
<1>3. Written(o)' /\ kind'[o] = kind[o] /\ o \notin pending'
  <2>1. cpc[o] # "idle" /\ cpc[o] # "pend"
    BY ZenonT(30), <1>2 DEF Written, Early
  <2>2. QED
    BY ZenonT(30), <1>2, <2>1 DEF Kept, Written
<1>4. QED
  BY ZenonT(30), <1>1, <1>2, <1>3 DEF ReaderOK, AnswerOK

\* Only the reader changes what it holds.
LEMMA ReaderKept ==
  ASSUME CallerTypes, CallsInv, CallerStep, Kept,
         \A k \in Conns : toServer[k] # <<>> => AnswerOK(k, Head(toServer[k]))
  PROVE  \A k \in Conns : ReaderOK(k)'
<1> DEFINE Quiet == /\ sreader' = sreader
                    /\ pending' \subseteq pending \cup {o \in Ops : cpc[o] = "pend"}
<1>0. \A k \in Conns : ReaderOK(k)
  BY ZenonT(30) DEF CallsInv
<1>1. CASE Quiet
  BY ZenonT(30), <1>0, <1>1, ReaderSame
<1>2. CASE sreader' = sreader /\ pending' \subseteq pending
  BY ZenonT(30), <1>0, <1>2, ReaderSame
<1>3. ASSUME NEW o \in Ops, \E k \in Kinds : Begin(o, k) PROVE Quiet
  BY ZenonT(30), <1>3 DEF Begin
<1>4. ASSUME NEW o \in Ops, addPending(o) PROVE Quiet
  BY ZenonT(30), <1>4 DEF addPending
<1>5. ASSUME NEW o \in Ops, addStream(o) \/ Receive(o) \/ invokeAsyncHandler(o) \/ SeesClosed(o)
                            \/ CallGivesUp(o) \/ FollowerGivesUp(o) \/ Land(o) \/ Publish(o)
      PROVE  Quiet
  BY ZenonT(30), <1>5 DEF addStream, Receive, invokeAsyncHandler, SeesClosed, CallGivesUp,
     FollowerGivesUp, Land, Publish
<1>6. ASSUME NEW o \in Ops, \E next \in {"wait", "open", "over"} : WritesFirst(o, next)
      PROVE  Quiet
  BY ZenonT(30), <1>6 DEF WritesFirst, WriteFirst, Finish, FinishAll
<1>7. ASSUME NEW o \in Ops, CloseStart(o) \/ WriteEnd(o) \/ EndSent(o) \/ Await(o) \/ Recheck(o)
      PROVE  Quiet
  BY ZenonT(30), <1>7 DEF CloseStart, WriteEnd, EndSent, Await, Recheck, Finish, FinishAll
<1>8. ASSUME NEW o \in Ops, CancelHandle(o) \/ StreamGivesUp(o) \/ WriteOut(o) PROVE Quiet
  BY ZenonT(30), <1>8 DEF CancelHandle, StreamGivesUp, WriteOut, Finish, FinishAll
<1>9. ASSUME NEW k \in Conns, CloseStreams(k) \/ ClosePending(k) PROVE Quiet
  BY ZenonT(30), <1>9 DEF CloseStreams, ClosePending, FinishAll
<1>10. ASSUME NEW k \in Conns, ReadRest(k) PROVE \A j \in Conns : ReaderOK(j)'
  <2>1. sreader' = [sreader EXCEPT ![k] = Nil] /\ pending' \subseteq pending
    BY ZenonT(30), <1>10 DEF ReadRest, Finish, FinishAll
  <2>2. sreader \in [Conns -> AnswerSet \cup {Nil}]
    BY ZenonT(30) DEF CallsInv, CallTypes
  <2>3. ReaderOK(k)'
    BY ZenonT(30), <2>1, <2>2 DEF ReaderOK
  <2>4. ASSUME NEW j \in Conns, j # k PROVE ReaderOK(j)'
    BY ZenonT(30), <1>0, <2>1, <2>2, <2>4, ReaderSame
  <2>5. QED
    BY ZenonT(30), <2>3, <2>4
<1>11. ASSUME NEW k \in Conns, ReadFrame(k) PROVE \A j \in Conns : ReaderOK(j)'
  <2>1. /\ sreader' = sreader \/ sreader' = [sreader EXCEPT ![k] = Head(toServer[k])]
        /\ sreader[k] = Nil /\ toServer[k] # <<>>
        /\ kind' = kind /\ cpc' = cpc
    BY ZenonT(30), <1>11 DEF ReadFrame
  <2>2. pending' \subseteq pending
    BY ZenonT(30), <1>11 DEF ReadFrame, complete, Finish, FinishAll
  <2>3. sreader \in [Conns -> AnswerSet \cup {Nil}]
    BY ZenonT(30) DEF CallsInv, CallTypes
  <2>4. ASSUME NEW j \in Conns, j # k PROVE ReaderOK(j)'
    BY ZenonT(30), <1>0, <2>1, <2>2, <2>3, <2>4, ReaderSame
  <2>5. CASE sreader' = sreader
    BY ZenonT(30), <1>2, <2>2, <2>5
  <2>6. CASE sreader' # sreader
    <3>1. PICK f : f = Head(toServer[k])
      OBVIOUS
    <3>2. AnswerOK(k, f) /\ f \in AnswerSet
      BY ZenonT(30), <2>1, <3>1 DEF AnswerOK
    <3>3. /\ f.type \in {"response", "error"} /\ f.op \notin pending'
          /\ f.type = "response" => kind[f.op] = "client"
      BY ZenonT(30), <1>11, <2>6, <3>1 DEF ReadFrame, complete
    <3>4. sreader'[k] = f
      BY ZenonT(30), <2>1, <2>3, <2>6, <3>1
    <3>5. AnswerOK(k, f)'
      BY ZenonT(30), <2>1, <3>2 DEF AnswerOK, Written
    <3>6. ReaderOK(k)'
      BY ZenonT(30), <2>1, <3>3, <3>4, <3>5 DEF ReaderOK
    <3>7. QED
      BY ZenonT(30), <2>4, <3>6
  <2>7. QED
    BY ZenonT(30), <2>5, <2>6
<1> HIDE DEF Quiet
<1>12. kind \in [Ops -> Kinds]
  BY ZenonT(30) DEF CallerTypes
<1>13. QED
  BY ZenonT(30), <1>1, <1>3, <1>4, <1>5, <1>6, <1>7, <1>8, <1>9, <1>10, <1>11, <1>12,
     CallerCases

\* One case per action.
LEMMA TypesStep ==
  ASSUME CallerTypes, CallsInv, CallerStep,
         \A k \in Conns : toServer[k] # <<>> => AnswerOK(k, Head(toServer[k]))
  PROVE  CallTypes'
<1> USE LinkAssumption DEF CallTypes, Causes
<1>0. CallTypes
  BY ZenonT(30) DEF CallsInv
<1>1. ASSUME NEW o \in Ops, NEW k \in Kinds, Begin(o, k) PROVE CallTypes'
  BY <1>0, <1>1 DEF Begin
<1>2. ASSUME NEW o \in Ops, addPending(o) \/ addStream(o) PROVE CallTypes'
  BY ZenonT(30), <1>0, <1>2 DEF addPending, addStream, Return
<1>3. ASSUME NEW o \in Ops, NEW next \in {"wait", "open", "over"}, WritesFirst(o, next)
      PROVE  CallTypes'
  <2>1. /\ UNCHANGED <<resp, gaveUp, flight, leader, sreader>>
        /\ \/ UNCHANGED <<got, cause, pending>>
           \/ Return(o, "error") /\ Finish(o, "error")
    BY ZenonT(30), <1>3 DEF WritesFirst, WriteFirst
  <2>2. QED
    BY <1>0, <2>1 DEF Return, Finish, FinishAll
<1>4. ASSUME NEW o \in Ops, Receive(o) \/ invokeAsyncHandler(o) \/ SeesClosed(o)
                            \/ CallGivesUp(o) \/ FollowerGivesUp(o)
      PROVE  CallTypes'
  BY <1>0, <1>4 DEF Receive, invokeAsyncHandler, SeesClosed, CallGivesUp, FollowerGivesUp,
     Return
<1>5. ASSUME NEW o \in Ops, Land(o) \/ Publish(o) PROVE CallTypes'
  BY ZenonT(30), <1>0, <1>5 DEF Land, Publish
<1>6. ASSUME NEW o \in Ops, CloseStart(o) PROVE CallTypes'
  BY <1>0, <1>6 DEF CloseStart, Return, Finish, FinishAll
<1>7. ASSUME NEW o \in Ops, WriteEnd(o) PROVE CallTypes'
  <2>1. /\ UNCHANGED <<resp, got, flight, leader, sreader>>
        /\ gaveUp' = gaveUp \/ gaveUp' = gaveUp \cup {o}
        /\ UNCHANGED <<cause, pending>> \/ Finish(o, "error")
    BY ZenonT(30), <1>7 DEF WriteEnd
  <2>2. QED
    BY ZenonT(30), <1>0, <2>1 DEF Finish, FinishAll
<1>8. ASSUME NEW o \in Ops, EndSent(o) \/ Await(o) \/ Recheck(o) PROVE CallTypes'
  BY <1>0, <1>8 DEF EndSent, Await, Recheck, Return, Finish, FinishAll
<1>9. ASSUME NEW o \in Ops, CancelHandle(o) \/ StreamGivesUp(o) PROVE CallTypes'
  BY ZenonT(30), <1>0, <1>9 DEF CancelHandle, StreamGivesUp, Finish, FinishAll
<1>10. ASSUME NEW o \in Ops, WriteOut(o) PROVE CallTypes'
  <2>1. UNCHANGED <<pending, gaveUp, cause, resp, got, flight, leader, sreader>>
    BY ZenonT(30), <1>10 DEF WriteOut
  <2>2. QED
    BY ZenonT(30), <1>0, <2>1
<1>11. ASSUME NEW k \in Conns, ReadFrame(k) PROVE CallTypes'
  <2>1. PICK f \in AnswerSet : f = Head(toServer[k])
    BY ZenonT(30), <1>11 DEF ReadFrame, AnswerOK
  <2>2. UNCHANGED <<gaveUp, got, flight, leader>>
    BY ZenonT(30), <1>11 DEF ReadFrame
  <2>3. CASE f.type \in {"response", "error"}
    <3>1. complete(f.op, f.type) /\ cause' = cause
      BY ZenonT(30), <1>11, <2>1, <2>3, AnswerRead DEF AnswerSet
    <3>2. sreader' = sreader \/ sreader' = [sreader EXCEPT ![k] = f]
      BY ZenonT(30), <1>11, <2>1, <2>3 DEF ReadFrame
    <3>3. QED
      BY <1>0, <2>2, <2>3, <3>1, <3>2 DEF complete, AnswerSet
  <2>4. CASE f.type \in {"cancel", "end"}
    <3>1. sreader' = sreader /\ resp' = resp
      BY ZenonT(30), <1>11, <2>1, <2>4, AnswerRead DEF AnswerSet
    <3>2. UNCHANGED <<cause, pending>> \/ Finish(f.op, "cancel") \/ Finish(f.op, "ended")
      BY ZenonT(30), <1>11, <2>1, <2>4 DEF ReadFrame
    <3>3. QED
      BY ZenonT(30), <1>0, <2>2, <3>1, <3>2 DEF Finish, FinishAll
  <2>5. QED
    BY ZenonT(30), <2>3, <2>4 DEF AnswerSet, AnswerTypes
<1>12. ASSUME NEW k \in Conns, ReadRest(k) PROVE CallTypes'
  <2>1. sreader[k] # Nil /\ sreader[k].type \in {"response", "error"}
    BY ZenonT(30), <1>12 DEF ReadRest, CallsInv, ReaderOK
  <2>2. QED
    BY <1>0, <1>12, <2>1 DEF ReadRest, Finish, FinishAll
<1>13. ASSUME NEW k \in Conns, CloseStreams(k) \/ ClosePending(k) PROVE CallTypes'
  BY ZenonT(30), <1>0, <1>13 DEF CloseStreams, ClosePending, FinishAll
<1> HIDE DEF CallTypes
<1>14. kind \in [Ops -> Kinds]
  BY ZenonT(30) DEF CallerTypes
<1>15. QED
  BY ZenonT(30), <1>1, <1>2, <1>3, <1>4, <1>5, <1>6, <1>7, <1>8, <1>9, <1>10, <1>11,
     <1>12, <1>13,
     <1>14, CallerCases

\* The steps of the callers and of the Conn keep what its tables hold.
LEMMA CallsKept ==
  ASSUME CallerTypes, CallerBegun, CallsInv, CallerStep, Kept,
         \A k \in Conns : toServer[k] # <<>> => AnswerOK(k, Head(toServer[k]))
  PROVE  CallsInv'
  BY ZenonT(30), CallsOK, FlightStep, ReaderKept, TypesStep DEF CallsInv

\* A connection that is accepted, or one whose read fails, changes closing only.
LEMMA CallsFrame ==
  ASSUME CallsInv,
         UNCHANGED <<sreader, cpc, cstreams, pending, cause, resp, got, gaveUp, flight,
                     leader, kind>>,
         \A k \in Conns : closing'[k] # closing[k] =>
           \/ closing[k] = "open" /\ closing'[k] = "streams"
           \/ closing[k] = "free"
  PROVE  CallsInv'
<1>1. CallTypes' /\ FlightOK' /\ \A k \in Conns : ReaderOK(k)'
  BY ZenonT(30) DEF CallsInv, CallTypes, FlightOK, ReaderOK, AnswerOK, Written
<1>2. ASSUME NEW o \in Ops PROVE StreamOK(o)' /\ PendingOK(o)' /\ ResponseOK(o)'
  <2>1. StreamOK(o) /\ PendingOK(o) /\ ResponseOK(o) /\ ConnOf[o] \in Conns
    BY ZenonT(30), LinkAssumption DEF CallsInv
  <2>2. /\ closing[ConnOf[o]] \in {"open", "streams"} =>
             closing'[ConnOf[o]] \in {"open", "streams"}
        /\ closing[ConnOf[o]] \in {"open", "streams", "pending"} =>
             closing'[ConnOf[o]] \in {"open", "streams", "pending"}
        /\ closing[ConnOf[o]] = "done" => closing'[ConnOf[o]] = "done"
    BY ZenonT(30), <2>1
  <2>3. StreamOK(o)'
    BY ZenonT(30), <2>1, <2>2 DEF StreamOK, Done
  <2>4. PendingOK(o)'
    BY ZenonT(30), <2>1, <2>2 DEF PendingOK, Done
  <2>5. ResponseOK(o)'
    BY ZenonT(30), <2>1, <2>2 DEF ResponseOK, Written
  <2>6. QED
    BY ZenonT(30), <2>3, <2>4, <2>5
<1>3. QED
  BY ZenonT(30), <1>1, <1>2 DEF CallsInv
=============================================================================
