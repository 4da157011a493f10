------------------------------- MODULE Client -------------------------------
(***************************************************************************)
(* The connection of a Client and the unary calls over it (client.go):     *)
(* Connect, the reconnect loop, the reader of each connection, goroutines  *)
(* in CallContext, and Close.  A step is a critical section of connMu or   *)
(* pendingMu, a channel operation, or a call that blocks (dial, read,      *)
(* write).  connectionLost takes pendingMu while it holds connMu: it is    *)
(* two steps, and losing says who holds connMu between them.               *)
(*                                                                         *)
(* Every member of Calls is one call with its own request ID               *)
(* (nextRequestID); the other side answers requests in any order, at most  *)
(* once, or never.  Identities of connections are reused once nothing      *)
(* refers to them.                                                         *)
(***************************************************************************)
EXTENDS Naturals, FiniteSets

CONSTANTS
  Conns,        \* physical connections (net.Conn values)
  Connectors,   \* goroutines that call Connect
  Loop,         \* the reconnect loop's goroutine
  Calls,        \* unary calls, one request ID each
  Async,        \* those made with AsyncCallContext
  MaxPending,   \* backpressure.MaxPendingCalls, 0 for no limit
  Nil

ASSUME ClientAssumption ==
  /\ Loop \notin Connectors /\ Nil \notin Conns \cup Connectors \cup {Loop}
  /\ Async \subseteq Calls /\ Nil \notin Calls
  /\ MaxPending \in Nat

VARIABLES
  closePc,             \* closeWithError: "open", "closed", "unlinked", "done"
  conn,                \* Client.conn
  readyClosed,         \* the channel Client.ready is closed
  onReady, woken,      \* calls that select on it, or on one closed since
  reconnectCh,         \* a token is in the channel
  losing,              \* the connection whose connectionLost holds connMu
  signalling,          \* connections whose connectionLost is to signal
  gate,                \* who is in connectGate
  cancelled,           \* the connect attempt in progress was cancelled
  cpc,                 \* connect attempts, per goroutine
  readPc, readId,      \* per connection: its read loop, the response it read
  pc, at,              \* per call: its step and the connection it writes to
  pending,             \* Client.pending
  sent,                \* requests with the other side, or their responses
  slot                 \* per call: what deliverPending gave it

linkVars == <<closePc, conn, readyClosed, onReady, woken, losing>>
loopVars == <<reconnectCh, signalling, gate, cancelled, cpc>>
readVars == <<readPc, readId>>
callVars == <<pc, at, pending, sent, slot>>
vars     == <<linkVars, loopVars, readVars, callVars>>

Threads == Connectors \cup {Loop}
closed  == closePc # "open"

\* Mutant of connMu: connectionLost lets go of connMu before failPending.
NoMutex == TRUE
connMu  == losing = Nil        \* connMu can be taken

Init ==
  /\ closePc = "open" /\ conn = Nil /\ readyClosed = FALSE
  /\ onReady = {} /\ woken = {}
  /\ reconnectCh = FALSE /\ losing = Nil /\ signalling = {}
  /\ gate = Nil /\ cancelled = FALSE
  /\ cpc = [t \in Threads |-> IF t = Loop THEN "off" ELSE "idle"]
  /\ readPc = [k \in Conns |-> "off"] /\ readId = [k \in Conns |-> Nil]
  /\ pc = [i \in Calls |-> "idle"] /\ at = [i \in Calls |-> Nil]
  /\ pending = {} /\ sent = {}
  /\ slot = [i \in Calls |-> "empty"]
-----------------------------------------------------------------------------
(***************************************************************************)
(* Connect, connectUntilReady and the reconnect loop.                      *)
(***************************************************************************)

\* Mutant of CloseReady: the channel is replaced by a closed one.
ReplaceReady == readyClosed' = TRUE /\ onReady' = {} /\ UNCHANGED woken

\* close(ready) wakes who waits on it.
CloseReady == readyClosed' = TRUE /\ onReady' = {} /\ woken' = woken \cup onReady

\* startReconnectLoop, once.
StartLoop(c) == IF c[Loop] = "off" THEN [c EXCEPT ![Loop] = "idle"] ELSE c

\* Connect: with a connection at hand it only starts the loop.
Connect(t) ==
  /\ t \in Connectors /\ cpc[t] = "idle" /\ connMu
  /\ IF conn # Nil
     THEN cpc' = StartLoop(cpc)
     ELSE cpc' = [cpc EXCEPT ![t] = "gate"]
  /\ UNCHANGED <<linkVars, reconnectCh, signalling, gate, cancelled, readVars,
                 callVars>>

\* Mutant of LoopWake: the loop does not select on closed.
LoopWakeDeaf ==
  /\ cpc[Loop] = "idle" /\ reconnectCh
  /\ reconnectCh' = FALSE /\ cpc' = [cpc EXCEPT ![Loop] = "gate"]
  /\ UNCHANGED <<linkVars, signalling, gate, cancelled, readVars, callVars>>

\* reconnectLoop: a token, or Close.
LoopWake ==
  /\ cpc[Loop] = "idle"
  /\ \/ reconnectCh /\ reconnectCh' = FALSE /\ cpc' = [cpc EXCEPT ![Loop] = "gate"]
     \/ closed /\ cpc' = [cpc EXCEPT ![Loop] = "ended"] /\ UNCHANGED reconnectCh
  /\ UNCHANGED <<linkVars, signalling, gate, cancelled, readVars, callVars>>

\* Mutant of EnterGate: no connectGate.
EnterAnyway(t) ==
  /\ cpc[t] = "gate"
  /\ gate' = t
  /\ cpc' = [cpc EXCEPT ![t] = "check"]
  /\ UNCHANGED <<linkVars, reconnectCh, signalling, cancelled, readVars, callVars>>

\* connectOnce enters connectGate.
EnterGate(t) ==
  /\ cpc[t] = "gate" /\ gate = Nil
  /\ gate' = t
  /\ cpc' = [cpc EXCEPT ![t] = "check"]
  /\ UNCHANGED <<linkVars, reconnectCh, signalling, cancelled, readVars, callVars>>

\* connectOnce gives up before it is in, or as soon as it is: the context of
\* a Connect, or Close.
GateRefused(t) ==
  /\ cpc[t] = "gate" /\ (closed \/ t # Loop)
  /\ cpc' = [cpc EXCEPT ![t] = "failed"]
  /\ UNCHANGED <<linkVars, reconnectCh, signalling, gate, cancelled, readVars,
                 callVars>>

\* connectOnce under connMu: closed, connected already, or dial.
ConnectCheck(t) ==
  /\ cpc[t] = "check" /\ connMu
  /\ cpc' = [cpc EXCEPT ![t] = IF closed THEN "refused"
                               ELSE IF conn # Nil THEN "found" ELSE "dial"]
  /\ cancelled' = FALSE
  /\ UNCHANGED <<linkVars, reconnectCh, signalling, gate, readVars, callVars>>

\* Dial and handshake; a cancelled attempt does not succeed.
DialEnds(t) ==
  /\ cpc[t] = "dial"
  /\ \/ ~cancelled /\ cpc' = [cpc EXCEPT ![t] = "set"]
     \/ cpc' = [cpc EXCEPT ![t] = "leaveFailed"]
  /\ UNCHANGED <<linkVars, reconnectCh, signalling, gate, cancelled, readVars,
                 callVars>>

\* A connection identity nothing refers to.
Free(k) ==
  /\ conn # k /\ losing # k /\ k \notin signalling /\ readPc[k] = "off"
  /\ \A i \in Calls : at[i] # k

\* setConn, and the start of the connection's read loop.
SetConn(t) ==
  /\ cpc[t] = "set" /\ connMu
  /\ IF closed
     THEN /\ cpc' = [cpc EXCEPT ![t] = "leaveFailed"]
          /\ UNCHANGED <<conn, readyClosed, onReady, woken, readPc>>
     ELSE \E k \in Conns :
            /\ Free(k)
            /\ conn' = k
            /\ CloseReady
            /\ readPc' = [readPc EXCEPT ![k] = "read"]
            /\ cpc' = [cpc EXCEPT ![t] = "leave"]
  /\ UNCHANGED <<closePc, losing, reconnectCh, signalling, gate, cancelled,
                 readId, callVars>>

\* connectOnce returns: after a dial it takes connMu to reset connectCancel,
\* then the gate opens.  A Connect that succeeded starts the loop.
ConnectLeave(t) ==
  /\ cpc[t] \in {"refused", "found", "leave", "leaveFailed"}
  /\ cpc[t] \in {"leave", "leaveFailed"} => connMu
  /\ gate' = Nil
  /\ cpc' = IF cpc[t] \in {"refused", "leaveFailed"}
            THEN [cpc EXCEPT ![t] = "failed"]
            ELSE StartLoop([cpc EXCEPT ![t] = "idle"])
  /\ UNCHANGED <<linkVars, reconnectCh, signalling, cancelled, readVars, callVars>>

\* After a failed attempt: again after a delay, unless the client is closed.
\* A Connect also ends with its context or a permanent error.
ConnectRetry(t) ==
  /\ cpc[t] = "failed"
  /\ \/ ~closed /\ cpc' = [cpc EXCEPT ![t] = "gate"]
     \/ t # Loop /\ cpc' = [cpc EXCEPT ![t] = "idle"]
     \/ t = Loop /\ closed /\ cpc' = [cpc EXCEPT ![t] = "ended"]
  /\ UNCHANGED <<linkVars, reconnectCh, signalling, gate, cancelled, readVars,
                 callVars>>
-----------------------------------------------------------------------------
(***************************************************************************)
(* Loss of a connection, and Close.                                        *)
(***************************************************************************)

\* What dies with a connection.
Without(k, frames) == {f \in frames : f[1] # k}

\* connectionLost, from taking connMu to failPending: the channel ready is
\* replaced, and the connection is closed.
Lose(k) ==
  /\ conn' = Nil
  /\ readyClosed' = FALSE /\ onReady' = {}
  /\ losing' = k
  /\ sent' = Without(k, sent)
  /\ UNCHANGED <<closePc, woken>>

\* Mutant of failPending: the table is left alone.
FailNone == UNCHANGED <<pending, slot>>

\* Mutant of failPending: entries are not removed.
FailAndKeep ==
  /\ UNCHANGED pending
  /\ slot' = [i \in Calls |-> IF i \in pending THEN "failed" ELSE slot[i]]

\* failPending: every entry is removed and delivered an error.
failPending ==
  /\ pending' = {}
  /\ slot' = [i \in Calls |-> IF i \in pending THEN "failed" ELSE slot[i]]

\* The rest of connectionLost's critical section.
LoseFailPending ==
  /\ losing # Nil
  /\ failPending
  /\ losing' = Nil /\ signalling' = signalling \cup {losing}
  /\ UNCHANGED <<closePc, conn, readyClosed, onReady, woken, reconnectCh, gate,
                 cancelled, cpc, readVars, pc, at, sent>>

\* Mutant of signalReconnect: reconnectCh has no buffer.
SignalUnbuffered(k) ==
  /\ k \in signalling
  /\ signalling' = signalling \ {k}
  /\ reconnectCh' = (reconnectCh \/ cpc[Loop] = "idle")
  /\ UNCHANGED <<linkVars, gate, cancelled, cpc, readVars, callVars>>

\* signalReconnect never blocks: a token that is there already will do.
signalReconnect(k) ==
  /\ k \in signalling
  /\ signalling' = signalling \ {k}
  /\ reconnectCh' = TRUE
  /\ UNCHANGED <<linkVars, gate, cancelled, cpc, readVars, callVars>>

\* The ping loop of a connection finds it silent.
PingTimeout(k) ==
  /\ conn = k /\ connMu
  /\ Lose(k)
  /\ UNCHANGED <<loopVars, readVars, pc, at, pending, slot>>

\* closeWithError: close(closed).
CloseClosed ==
  /\ closePc = "open"
  /\ closePc' = "closed"
  /\ UNCHANGED <<conn, readyClosed, onReady, woken, losing, loopVars, readVars,
                 callVars>>

\* closeWithError under connMu: connectCancel, the connection, ready.
CloseUnlink ==
  /\ closePc = "closed" /\ connMu
  /\ closePc' = "unlinked"
  /\ cancelled' = TRUE
  /\ conn' = Nil
  /\ CloseReady
  /\ sent' = Without(conn, sent)
  /\ UNCHANGED <<losing, reconnectCh, signalling, gate, cpc, readVars, pc, at,
                 pending, slot>>

\* closeWithError fails what is pending.
CloseFailPending ==
  /\ closePc = "unlinked"
  /\ failPending
  /\ closePc' = "done"
  /\ UNCHANGED <<conn, readyClosed, onReady, woken, losing, loopVars, readVars,
                 pc, at, sent>>
-----------------------------------------------------------------------------
(***************************************************************************)
(* readLoop, and the other side.                                           *)
(***************************************************************************)

\* readLoop reads the response to a request, which comes when it comes.
ReadFrame(f) ==
  /\ f \in sent /\ readPc[f[1]] = "read"
  /\ sent' = sent \ {f}
  /\ readPc' = [readPc EXCEPT ![f[1]] = "check"]
  /\ readId' = [readId EXCEPT ![f[1]] = f[2]]
  /\ UNCHANGED <<linkVars, loopVars, pc, at, pending, slot>>

\* readLoop: the read fails; connectionLost, unless that has been done.
ReadFails(k) ==
  /\ readPc[k] = "read" /\ connMu
  /\ readPc' = [readPc EXCEPT ![k] = "off"]
  /\ \/ conn = k /\ Lose(k)
     \/ conn # k /\ UNCHANGED <<linkVars, sent>>
  /\ UNCHANGED <<loopVars, readId, pc, at, pending, slot>>

\* readLoop: a frame of a connection that is no longer current is dropped,
\* and the loop ends.
ReadCheck(k) ==
  /\ readPc[k] = "check" /\ connMu
  /\ readPc' = [readPc EXCEPT ![k] = IF conn = k THEN "complete" ELSE "off"]
  /\ readId' = [readId EXCEPT ![k] = IF conn = k THEN @ ELSE Nil]
  /\ UNCHANGED <<linkVars, loopVars, callVars>>

\* complete and deliverPending.
complete(k) ==
  /\ readPc[k] = "complete"
  /\ readPc' = [readPc EXCEPT ![k] = "read"]
  /\ readId' = [readId EXCEPT ![k] = Nil]
  /\ pending' = pending \ {readId[k]}
  /\ slot' = [i \in Calls |-> IF i = readId[k] /\ i \in pending
                              THEN "response" ELSE slot[i]]
  /\ UNCHANGED <<linkVars, loopVars, pc, at, sent>>
-----------------------------------------------------------------------------
(***************************************************************************)
(* CallContext and AsyncCallContext.                                       *)
(***************************************************************************)

Goto(i, step) == pc' = [pc EXCEPT ![i] = step] /\ UNCHANGED at

\* The call returns, and refers to no connection any more.
Return(i) == pc' = [pc EXCEPT ![i] = "done"] /\ at' = [at EXCEPT ![i] = Nil]

\* waitConn looks at conn and ready: it fails (closed, or the context has
\* ended), returns the connection or parks.  A call of a PeerEndpoint has the
\* first two outcomes: its connection is current, or it fails.
WaitConn(i) ==
  /\ pc[i] = "idle" /\ connMu
  /\ \/ Return(i) /\ UNCHANGED <<onReady, woken>>
     \/ /\ ~closed /\ conn # Nil
        /\ pc' = [pc EXCEPT ![i] = "add"] /\ at' = [at EXCEPT ![i] = conn]
        /\ UNCHANGED <<onReady, woken>>
     \/ /\ ~closed /\ conn = Nil
        /\ Goto(i, "parked")
        /\ IF readyClosed THEN woken' = woken \cup {i} /\ UNCHANGED onReady
           ELSE onReady' = onReady \cup {i} /\ UNCHANGED woken
  /\ UNCHANGED <<closePc, conn, readyClosed, losing, loopVars, readVars, pending,
                 sent, slot>>

\* waitConn: ready was closed, and it looks again.
WaitAgain(i) ==
  /\ pc[i] = "parked" /\ i \in woken
  /\ Goto(i, "idle") /\ woken' = woken \ {i}
  /\ UNCHANGED <<closePc, conn, readyClosed, onReady, losing, loopVars, readVars,
                 pending, sent, slot>>

\* waitConn: the context or the client ends.
WaitGivesUp(i) ==
  /\ pc[i] = "parked"
  /\ Return(i) /\ onReady' = onReady \ {i} /\ woken' = woken \ {i}
  /\ UNCHANGED <<closePc, conn, readyClosed, losing, loopVars, readVars,
                 pending, sent, slot>>

\* addPending refuses a call: the client is closed or the limit is reached.
Refused == closed \/ (MaxPending > 0 /\ Cardinality(pending) >= MaxPending)

addPending(i) ==
  /\ pc[i] = "add"
  /\ \/ Refused /\ Return(i) /\ UNCHANGED pending
     \/ ~Refused /\ Goto(i, "write") /\ pending' = pending \cup {i}
  /\ UNCHANGED <<linkVars, loopVars, readVars, sent, slot>>

\* writeToConnection up to the write: closed, not current, or no slot in the
\* write limiter; the last is not held against the connection.
WriteCheck(i) ==
  /\ pc[i] = "write" /\ connMu
  /\ \/ ~closed /\ conn = at[i] /\ Goto(i, "writing") /\ UNCHANGED pending
     \/ /\ closed \/ conn # at[i]
        /\ Goto(i, "failed") /\ pending' = pending \ {i}
     \/ Return(i) /\ pending' = pending \ {i}
  /\ UNCHANGED <<linkVars, loopVars, readVars, sent, slot>>

\* The frame is written.  A local write succeeds as long as this side has not
\* closed the connection.
WriteOk(i) ==
  /\ pc[i] = "writing" /\ conn = at[i]
  /\ Goto(i, "wait") /\ sent' = sent \cup {<<at[i], i>>}
  /\ UNCHANGED <<linkVars, loopVars, readVars, pending, slot>>

\* The write fails: removePending.
WriteFails(i) ==
  /\ pc[i] = "writing"
  /\ Goto(i, "failed") /\ pending' = pending \ {i}
  /\ UNCHANGED <<linkVars, loopVars, readVars, sent, slot>>

\* handleWriteError: connectionLost, unless that has been done.
handleWriteError(i) ==
  /\ pc[i] = "failed" /\ connMu
  /\ Return(i)
  /\ \/ conn = at[i] /\ Lose(conn)
     \/ conn # at[i] /\ UNCHANGED <<linkVars, sent>>
  /\ UNCHANGED <<loopVars, readVars, pending, slot>>

\* callFrameContext receives from responseCh; of an asynchronous call, its
\* handler runs.
Receive(i) ==
  /\ pc[i] = "wait" /\ slot[i] # "empty"
  /\ Return(i) /\ slot' = [slot EXCEPT ![i] = "empty"]
  /\ UNCHANGED <<linkVars, loopVars, readVars, pending, sent>>

\* callFrameContext sees the client closed.
SeesClosed(i) ==
  /\ pc[i] = "wait" /\ i \notin Async /\ closed
  /\ Return(i) /\ pending' = pending \ {i}
  /\ UNCHANGED <<linkVars, loopVars, readVars, sent, slot>>

\* callFrameContext gives up with its context: removePending.
GiveUp(i) ==
  /\ pc[i] = "wait" /\ i \notin Async
  /\ Goto(i, "cancel") /\ pending' = pending \ {i}
  /\ UNCHANGED <<linkVars, loopVars, readVars, sent, slot>>

\* A cancel frame goes to the connection of the moment, if there is one; it
\* is written (or dropped by the limiter) or it fails.
SendCancel(i) ==
  /\ pc[i] = "cancel" /\ connMu
  /\ \/ Return(i)
     \/ /\ conn # Nil
        /\ pc' = [pc EXCEPT ![i] = "failed"] /\ at' = [at EXCEPT ![i] = conn]
  /\ UNCHANGED <<linkVars, loopVars, readVars, pending, sent, slot>>

-----------------------------------------------------------------------------
ConnectStep(t) ==
  \/ EnterGate(t) \/ ConnectCheck(t) \/ DialEnds(t) \/ SetConn(t)
  \/ ConnectLeave(t) \/ ConnectRetry(t)

CallStep(i) ==
  \/ WaitConn(i) \/ WaitAgain(i) \/ addPending(i) \/ WriteCheck(i)
  \/ WriteOk(i) \/ WriteFails(i) \/ handleWriteError(i) \/ Receive(i)
  \/ SeesClosed(i) \/ SendCancel(i)

CloseStep == CloseClosed \/ CloseUnlink \/ CloseFailPending

Next ==
  \/ \E t \in Threads : Connect(t) \/ GateRefused(t) \/ ConnectStep(t)
  \/ LoopWake
  \/ \E k \in Conns : signalReconnect(k) \/ PingTimeout(k) \/ ReadFails(k)
                       \/ ReadCheck(k) \/ complete(k)
  \/ LoseFailPending
  \/ CloseStep
  \/ \E f \in Conns \X Calls : ReadFrame(f)
  \/ \E i \in Calls : CallStep(i) \/ WaitGivesUp(i) \/ GiveUp(i)

Spec == Init /\ [][Next]_vars

(***************************************************************************)
(* Goroutines that can run do run.  connMu does not starve one that waits  *)
(* for it (sync.Mutex hands over to a waiter of 1 ms) and connectGate, a   *)
(* Go channel, serves its senders in turn: strong fairness.  Connect,      *)
(* Close, contexts, the network and the other side owe nothing; a reader   *)
(* of a closed connection does return.                                     *)
(***************************************************************************)
Fairness ==
  /\ \A t \in Connectors : SF_vars(ConnectStep(t))
  /\ SF_vars(ConnectStep(Loop) \/ LoopWake \/ (closed /\ GateRefused(Loop)))
  /\ WF_vars(LoseFailPending \/ \E k \in Conns : signalReconnect(k))
  /\ SF_vars(CloseUnlink \/ CloseFailPending)
  /\ \A k \in Conns : SF_vars(ReadCheck(k) \/ complete(k) \/ (conn # k /\ ReadFails(k)))
  /\ \A i \in Calls : SF_vars(CallStep(i) \/ (closed /\ WaitGivesUp(i)))

\* The server can be reached: of the loop's dials not all fail.
Reachable == SF_vars(DialEnds(Loop) /\ cpc'[Loop] = "set")

FairSpec == Spec /\ Fairness /\ Reachable
-----------------------------------------------------------------------------
(***************************************************************************)
(* Properties.                                                             *)
(***************************************************************************)

ConnectPcs == {"idle", "gate", "check", "dial", "set", "refused", "found",
               "leave", "leaveFailed", "failed", "off", "ended"}
CallPcs == {"idle", "parked", "add", "write", "writing", "wait", "failed",
            "cancel", "done"}

\* Type correctness of the client's state and of the goroutines around it.
TypeOK ==
  /\ closePc \in {"open", "closed", "unlinked", "done"}
  /\ conn \in Conns \cup {Nil} /\ losing \in Conns \cup {Nil}
  /\ readyClosed \in BOOLEAN /\ reconnectCh \in BOOLEAN /\ cancelled \in BOOLEAN
  /\ onReady \subseteq Calls /\ woken \subseteq Calls /\ pending \subseteq Calls
  /\ signalling \subseteq Conns
  /\ gate \in Threads \cup {Nil}
  /\ cpc \in [Threads -> ConnectPcs]
  /\ readPc \in [Conns -> {"off", "read", "check", "complete"}]
  /\ readId \in [Conns -> Calls \cup {Nil}]
  /\ pc \in [Calls -> CallPcs] /\ at \in [Calls -> Conns \cup {Nil}]
  /\ sent \subseteq Conns \X Calls
  /\ slot \in [Calls -> {"empty", "response", "failed"}]

\* setConn closes the channel ready and replaces no connection: when an
\* attempt is about to call it, there is none and ready is open, whoever else
\* connects, loses the connection or closes the client (a second close of the
\* channel would panic; a replaced connection would never be closed).
SetConnSafe ==
  \A t \in Threads : cpc[t] = "set" /\ ~closed => conn = Nil /\ ~readyClosed

\* No call sleeps in waitConn on a channel that connectionLost has replaced:
\* it waits for the present one, which is open, or its own is closed.
NoStaleWaiter ==
  \A i \in Calls : pc[i] = "parked" => i \in woken \/ (i \in onReady /\ ~readyClosed)

\* Delivery never blocks: responseCh holds one response, and while a call is
\* in the pending map nothing has been put there.  (connectionLost delivers
\* with connMu held: a second delivery would stop the whole client.)
DeliveryNeverBlocks == \A i \in pending : slot[i] = "empty"

\* The loss of a connection fails no call of its successor, although
\* failPending fails every pending call.
LossIsLocal ==
  \A i \in Calls : slot[i] = "failed" /\ pc[i] \in {"write", "writing", "wait"}
                     => conn # at[i]

\* No call is forgotten: one that has been sent and has had no answer is in
\* the pending map, and its connection is current or on its way through
\* connectionLost, or closeWithError has yet to fail what is pending.
NoForgottenCall ==
  \A i \in Calls :
    pc[i] = "wait" /\ slot[i] = "empty" =>
      /\ i \in pending
      /\ at[i] \in {conn, losing} \/ closePc \in {"closed", "unlinked"}

\* No loss of the connection goes unnoticed: while the loop runs and there is
\* no connection, a token waits for the loop, or is about to be sent, or the
\* loop is at an attempt.
NoLostReconnect ==
  cpc[Loop] # "off" /\ conn = Nil /\ ~closed =>
    \/ reconnectCh \/ losing # Nil \/ signalling # {}
    \/ cpc[Loop] \in {"gate", "check", "dial", "set", "refused", "leaveFailed", "failed"}

\* "The dialing `Client` keeps reconnecting until `Close` is called"
\* (docs/streaming.md:340): a lost connection is followed by another.
KeepsReconnecting == (cpc[Loop] # "off" /\ conn = Nil) ~> (conn # Nil \/ closed)

\* A call in flight when its connection is lost returns, and the handler of
\* an asynchronous one runs (docs/calls.md:202-207).
LossEndsCalls ==
  \A i \in Calls : (pc[i] = "wait" /\ conn # at[i]) ~> (pc[i] = "done")

\* Close ends everything: no connection, no reconnect loop, no pending call.
CloseEndsAll ==
  closed ~> (/\ conn = Nil /\ pending = {}
             /\ cpc[Loop] \in {"off", "ended"}
             /\ \A i \in Calls : pc[i] = "done")
=============================================================================
