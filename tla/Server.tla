------------------------------- MODULE Server -------------------------------
(***************************************************************************)
(* The accepting side (server.go): ServeListener, serveConn with its       *)
(* lifecycle callbacks, the handlers of inbound requests and streams,      *)
(* NotifyAll (broadcast.go), Conn.closeWithError and Shutdown.  The calls  *)
(* that go back over an accepted Conn are in Caller.                       *)
(*                                                                         *)
(* A step is a critical section of one mutex, a channel operation or a     *)
(* call that blocks.  closeWithError runs once per Conn (closeOnce) and    *)
(* takes three mutexes in turn; who else calls it waits for its end.       *)
(* Shutdown closes connections with Server.connMu held.                    *)
(*                                                                         *)
(* A handler slot is one request ID of its connection at a time, and is    *)
(* used again once nothing refers to it.  Every connection is used once.   *)
(***************************************************************************)
EXTENDS Integers, FiniteSets

CONSTANTS
  Listeners, Conns,
  Handlers,     \* slots for inbound requests, notifications and streams
  ConnOf,       \* the connection of a handler
  Kinds,        \* the kinds of inbound work, of AllKinds
  Mixes,        \* sets of connections that one behaviour may accept
  Limited,      \* Backpressure sets limits, which other streams and writes may use up
  Nil

AllKinds == {"unary", "notify", "serverStream", "clientStream", "bidiStream"}

ASSUME ServerAssumption ==
  /\ ConnOf \in [Handlers -> Conns]
  /\ Kinds \subseteq AllKinds
  /\ Mixes \subseteq SUBSET Conns
  /\ Limited \in BOOLEAN
  /\ Nil \notin Conns \cup Handlers
  /\ IsFiniteSet(Listeners) /\ IsFiniteSet(Conns) /\ IsFiniteSet(Handlers)

VARIABLES
  shuttingDown, shutPc, shutAt,  \* Shutdown: its step, the Conn it closes
  wg,                            \* the counter of Server.wg
  lpc, lopen, listeners,         \* ServeListener, sockets, Server.listeners
  spc,                           \* serveConn, per connection
  readAt,                        \* the stream its reader is starting
  life,                          \* the lifecycle goroutine
  conns, ready,                  \* Server.conns, Conn.ready
  closing,                       \* closeWithError, per connection
  bcast,                         \* what NotifyAll has yet to notify
  hpc, kind,                     \* handlers
  requests, streams,             \* the tables of all connections
  cancelled,                     \* handlers whose context has ended
  settled                        \* requests answered, or given up by the other side

shutVars == <<shuttingDown, shutPc, shutAt>>
lnVars   == <<lpc, lopen, listeners>>
connVars == <<spc, readAt, life, conns, ready, bcast>>
reqVars  == <<hpc, kind, requests, streams, cancelled, settled>>
vars     == <<shutVars, wg, lnVars, connVars, closing, reqVars>>

Of(c, S)   == {x \in S : ConnOf[x] = c}
closed(c)  == closing[c] # "open"
connMu     == shutPc # "closing"        \* Server.connMu can be taken

Init ==
  /\ shuttingDown = FALSE /\ shutPc = "idle" /\ shutAt = Nil /\ wg = 0
  /\ lpc = [l \in Listeners |-> "idle"] /\ lopen = [l \in Listeners |-> FALSE]
  /\ listeners = {}
  /\ spc = [c \in Conns |-> "free"] /\ readAt = [c \in Conns |-> Nil]
  /\ life = [c \in Conns |-> "none"]
  /\ conns = {} /\ ready = {} /\ bcast = {}
  /\ closing = [c \in Conns |-> "open"]
  /\ hpc = [h \in Handlers |-> "idle"] /\ kind = [h \in Handlers |-> "unary"]
  /\ requests = {} /\ streams = {} /\ cancelled = {} /\ settled = {}
-----------------------------------------------------------------------------
(***************************************************************************)
(* ServeListener.                                                          *)
(***************************************************************************)

\* Mutant of SetListener: the listener of a server that shuts down is served.
SetListenerLate(l) ==
  /\ lpc[l] \in {"idle", "done"}
  /\ lpc' = [lpc EXCEPT ![l] = "accept"]
  /\ lopen' = [lopen EXCEPT ![l] = TRUE]
  /\ listeners' = listeners \cup {l}
  /\ wg' = wg + 1
  /\ UNCHANGED <<shutVars, connVars, closing, reqVars>>

\* setListener, for a listener its caller has just opened.  A refused one is
\* closed.
SetListener(l) ==
  /\ lpc[l] \in {"idle", "done"}
  /\ IF shuttingDown
     THEN /\ lpc' = [lpc EXCEPT ![l] = "done"]
          /\ UNCHANGED <<lopen, listeners, wg>>
     ELSE /\ lpc' = [lpc EXCEPT ![l] = "accept"]
          /\ lopen' = [lopen EXCEPT ![l] = TRUE]
          /\ listeners' = listeners \cup {l}
          /\ wg' = wg + 1
  /\ UNCHANGED <<shutVars, connVars, closing, reqVars>>

\* Mutant of Accept: wg.Add is left to the goroutine.
AcceptUncounted(l, c) ==
  /\ lpc[l] = "accept" /\ lopen[l] /\ spc[c] = "free"
  /\ \E mix \in Mixes : {c} \cup {d \in Conns : spc[d] # "free"} \subseteq mix
  /\ spc' = [spc EXCEPT ![c] = "new"]
  /\ UNCHANGED <<wg, shutVars, lnVars, readAt, life, conns, ready, bcast, closing, reqVars>>

\* Accept, and the start of serveConn.
Accept(l, c) ==
  /\ lpc[l] = "accept" /\ lopen[l] /\ spc[c] = "free"
  /\ \E mix \in Mixes : {c} \cup {d \in Conns : spc[d] # "free"} \subseteq mix
  /\ spc' = [spc EXCEPT ![c] = "new"]
  /\ wg' = wg + 1
  /\ UNCHANGED <<shutVars, lnVars, readAt, life, conns, ready, bcast, closing,
                 reqVars>>

\* Accept fails, as it does on a closed listener: wg.Done.
AcceptFails(l) ==
  /\ lpc[l] = "accept"
  /\ lpc' = [lpc EXCEPT ![l] = "clear"]
  /\ wg' = wg - 1
  /\ UNCHANGED <<shutVars, lopen, listeners, connVars, closing, reqVars>>

\* clearListener and ln.Close.
ClearListener(l) ==
  /\ lpc[l] = "clear"
  /\ lpc' = [lpc EXCEPT ![l] = "done"]
  /\ lopen' = [lopen EXCEPT ![l] = FALSE]
  /\ listeners' = listeners \ {l}
  /\ UNCHANGED <<shutVars, wg, connVars, closing, reqVars>>
-----------------------------------------------------------------------------
(***************************************************************************)
(* Conn.closeWithError.                                                    *)
(***************************************************************************)

\* closeOnce: the first caller closes the channel closed and the socket.
BeginClose(c) ==
  closing' = IF closed(c) THEN closing ELSE [closing EXCEPT ![c] = "streams"]

\* failStreams: every stream of the connection is ended, and its context.
CloseStreams(c) ==
  /\ closing[c] = "streams"
  /\ closing' = [closing EXCEPT ![c] = "requests"]
  /\ cancelled' = cancelled \cup Of(c, streams)
  /\ streams' = streams \ Of(c, streams)
  /\ UNCHANGED <<shutVars, wg, lnVars, connVars, hpc, kind, requests, settled>>

\* Mutant of CloseRequests: the table is replaced, and no context cancelled.
CloseRequestsQuietly(c) ==
  /\ closing[c] = "requests"
  /\ closing' = [closing EXCEPT ![c] = "pending"]
  /\ requests' = requests \ Of(c, requests)
  /\ UNCHANGED <<shutVars, wg, lnVars, connVars, hpc, kind, streams, cancelled, settled>>

\* The contexts of all requests are cancelled, and the table is replaced.
CloseRequests(c) ==
  /\ closing[c] = "requests"
  /\ closing' = [closing EXCEPT ![c] = "pending"]
  /\ cancelled' = cancelled \cup Of(c, requests)
  /\ requests' = requests \ Of(c, requests)
  /\ UNCHANGED <<shutVars, wg, lnVars, connVars, hpc, kind, streams, settled>>

\* failPending; the calls that wait are in Caller.
ClosePending(c) ==
  /\ closing[c] = "pending"
  /\ closing' = [closing EXCEPT ![c] = "done"]
  /\ UNCHANGED <<shutVars, wg, lnVars, connVars, reqVars>>

\* The application calls Conn.Close.
AppClose(c) ==
  /\ c \in ready /\ ~closed(c)
  /\ BeginClose(c)
  /\ UNCHANGED <<shutVars, wg, lnVars, connVars, reqVars>>
-----------------------------------------------------------------------------
(***************************************************************************)
(* serveConn, and the goroutine of the lifecycle callbacks.                *)
(***************************************************************************)

ServeGoto(c, step) == spc' = [spc EXCEPT ![c] = step]

\* addConn refuses a connection once Shutdown has begun.
addConn(c) ==
  /\ spc[c] = "new" /\ connMu
  /\ \/ /\ shuttingDown
        /\ ServeGoto(c, "refused") /\ BeginClose(c) /\ UNCHANGED conns
     \/ /\ ~shuttingDown
        /\ ServeGoto(c, "handshake") /\ conns' = conns \cup {c} /\ UNCHANGED closing
  /\ UNCHANGED <<shutVars, wg, lnVars, readAt, life, ready, bcast, reqVars>>

\* serverHandshake ends; on a closed socket it fails.
Handshake(c) ==
  /\ spc[c] = "handshake"
  /\ \/ ~closed(c) /\ ServeGoto(c, "shaken") /\ UNCHANGED closing
     \/ ServeGoto(c, "failed") /\ BeginClose(c)
  /\ UNCHANGED <<shutVars, wg, lnVars, readAt, life, conns, ready, bcast, reqVars>>

\* The connection is ready, and OnConnect is called.
Serve(c) ==
  /\ spc[c] = "shaken"
  /\ ServeGoto(c, "read")
  /\ ready' = ready \cup {c}
  /\ life' = [life EXCEPT ![c] = "onConnect"]
  /\ UNCHANGED <<shutVars, wg, lnVars, readAt, conns, bcast, closing, reqVars>>

\* A read fails, or the answer to a ping or to a request nobody handles.
ReadFails(c) ==
  /\ spc[c] = "read"
  /\ ServeGoto(c, "failing") /\ BeginClose(c)
  /\ UNCHANGED <<shutVars, wg, lnVars, readAt, life, conns, ready, bcast, reqVars>>

\* closeWithError has returned: close(connectionDone).
ReadEnds(c) ==
  /\ spc[c] = "failing" /\ closing[c] = "done"
  /\ ServeGoto(c, "unwind")
  /\ UNCHANGED <<shutVars, wg, lnVars, readAt, life, conns, ready, bcast, closing,
                 reqVars>>

\* Mutant of Lifecycle: OnDisconnect does not wait for the read loop.
LifecycleEager(c) ==
  /\ \/ life[c] = "onConnect" /\ life' = [life EXCEPT ![c] = "onDisconnect"]
     \/ life[c] = "onDisconnect" /\ life' = [life EXCEPT ![c] = "done"]
  /\ UNCHANGED <<shutVars, wg, lnVars, spc, readAt, conns, ready, bcast, closing,
                 reqVars>>

\* OnConnect returns; connectionDone; OnDisconnect returns.
Lifecycle(c) ==
  /\ \/ life[c] = "onConnect" /\ life' = [life EXCEPT ![c] = "wait"]
     \/ /\ life[c] = "wait" /\ spc[c] = "unwind"
        /\ life' = [life EXCEPT ![c] = "onDisconnect"]
     \/ life[c] = "onDisconnect" /\ life' = [life EXCEPT ![c] = "done"]
  /\ UNCHANGED <<shutVars, wg, lnVars, spc, readAt, conns, ready, bcast, closing,
                 reqVars>>

\* serveConn may return: its Conn is closed and the callbacks are over.
Unwound(c) ==
  \/ spc[c] \in {"refused", "failed"} /\ closing[c] = "done"
  \/ spc[c] = "unwind" /\ life[c] = "done"

\* removeConn, for one that was added, and wg.Done.
removeConn(c) ==
  /\ Unwound(c) /\ (connMu \/ spc[c] = "refused")
  /\ ServeGoto(c, "gone")
  /\ conns' = conns \ {c}
  /\ wg' = wg - 1
  /\ UNCHANGED <<shutVars, lnVars, readAt, life, ready, bcast, closing, reqVars>>
-----------------------------------------------------------------------------
(***************************************************************************)
(* Inbound work: startRequest, startNotify, startStream, and the handlers. *)
(***************************************************************************)

HandlerGoto(h, step) == hpc' = [hpc EXCEPT ![h] = step]

\* Mutant of trackRequest: closed is not looked at under requestMu.
TrackAlways(h, step) ==
  /\ requests' = requests \cup {h} /\ HandlerGoto(h, step) /\ wg' = wg + 1

\* trackRequest, and the start of the handler's goroutine; a Conn that has
\* been closed takes no request.
trackRequest(h, step) ==
  IF closed(ConnOf[h])
  THEN UNCHANGED <<requests, hpc, wg>>
  ELSE requests' = requests \cup {h} /\ HandlerGoto(h, step) /\ wg' = wg + 1

\* The reader gets a request of kind k for a registered function.
Reads(h, k) == hpc[h] = "idle" /\ spc[ConnOf[h]] = "read" /\ k \in Kinds
SetKind(h, k) == kind' = IF closed(ConnOf[h]) THEN kind ELSE [kind EXCEPT ![h] = k]

\* startRequest.
startRequest(h) ==
  /\ Reads(h, "unary") /\ SetKind(h, "unary")
  /\ trackRequest(h, "run")
  /\ UNCHANGED <<shutVars, lnVars, connVars, closing, streams, cancelled, settled>>

\* startNotify.
startNotify(h) ==
  /\ Reads(h, "notify") /\ SetKind(h, "notify")
  /\ trackRequest(h, "run")
  /\ UNCHANGED <<shutVars, lnVars, connVars, closing, streams, cancelled, settled>>

\* addStream under streamMu.
addStream(h) == ~closed(ConnOf[h]) /\ streams' = streams \cup {h}

\* startStream up to addStream.  A stream that is refused, by a closed Conn
\* or by MaxActiveStreams, is answered with an error.
startStream(h, k) ==
  /\ Reads(h, k)
  /\ LET c == ConnOf[h]
     IN \/ /\ addStream(h) /\ SetKind(h, k)
           /\ ServeGoto(c, "track") /\ readAt' = [readAt EXCEPT ![c] = h]
        \/ /\ closed(c) \/ Limited
           /\ UNCHANGED <<streams, spc, readAt, kind>>
  /\ UNCHANGED <<shutVars, wg, lnVars, life, conns, ready, bcast, closing, hpc,
                 requests, cancelled, settled>>

startServerStream(h) == startStream(h, "serverStream")
startClientStream(h) == startStream(h, "clientStream")
startBidiStream(h)   == startStream(h, "bidiStream")

\* The rest of them: a stream that cannot be tracked is finished.  Handlers
\* that receive items first grant credit.
trackStream(c) ==
  LET h == readAt[c]
  IN /\ spc[c] = "track"
     /\ ServeGoto(c, "read") /\ readAt' = [readAt EXCEPT ![c] = Nil]
     /\ trackRequest(h, IF kind[h] = "serverStream" THEN "run" ELSE "grant")
     /\ IF closed(c)
        THEN /\ streams' = streams \ {h} /\ cancelled' = cancelled \ {h}
             /\ kind' = [kind EXCEPT ![h] = "unary"]
        ELSE UNCHANGED <<streams, cancelled, kind>>
     /\ UNCHANGED <<shutVars, lnVars, life, conns, ready, bcast, closing, settled>>

\* Conn.cancel, for a cancel frame: the stream ends and the context does.
ReadCancel(h) ==
  /\ spc[ConnOf[h]] = "read" /\ hpc[h] # "idle"
  /\ streams' = streams \ {h}
  /\ cancelled' = cancelled \cup {h}
  /\ settled' = settled \cup {h}
  /\ UNCHANGED <<shutVars, wg, lnVars, connVars, closing, hpc, kind, requests>>

\* The deadline of a request passes.  A stream's watchContext finishes it and
\* tells the other side.
Deadline(h) ==
  /\ hpc[h] \in {"grant", "run"} /\ h \notin cancelled
  /\ streams' = streams \ {h}
  /\ cancelled' = cancelled \cup {h}
  /\ settled' = IF h \in streams /\ ~closed(ConnOf[h]) THEN settled \cup {h} ELSE settled
  /\ UNCHANGED <<shutVars, wg, lnVars, connVars, closing, hpc, kind, requests>>

\* grantInitialCredit writes a window frame; a failed write closes the Conn.
Grant(h) ==
  /\ hpc[h] = "grant"
  /\ \/ ~closed(ConnOf[h]) /\ HandlerGoto(h, "run") /\ UNCHANGED closing
     \/ HandlerGoto(h, "failed") /\ BeginClose(ConnOf[h])
  /\ UNCHANGED <<shutVars, wg, lnVars, connVars, kind, requests, streams,
                 cancelled, settled>>

\* The handler returns a response or an error; a panic is an error.
HandlerReturns(h) ==
  /\ hpc[h] = "run"
  /\ \/ kind[h] \in {"unary", "clientStream"} /\ HandlerGoto(h, "respond")
     \/ kind[h] \in {"serverStream", "bidiStream"} /\ HandlerGoto(h, "end")
     \/ kind[h] # "notify" /\ HandlerGoto(h, "error")
     \/ kind[h] = "notify" /\ HandlerGoto(h, "finish")
  /\ UNCHANGED <<shutVars, wg, lnVars, connVars, closing, kind, requests, streams,
                 cancelled, settled>>

\* Mutant of Respond: a response the limiter refuses is dropped.
RespondOrDrop(h) ==
  /\ hpc[h] = "respond"
  /\ \/ closed(ConnOf[h]) /\ HandlerGoto(h, "failed")
     \/ ~closed(ConnOf[h]) /\ HandlerGoto(h, "writing")
     \/ ~closed(ConnOf[h]) /\ Limited /\ HandlerGoto(h, "finish")
  /\ UNCHANGED <<shutVars, wg, lnVars, connVars, closing, kind, requests, streams,
                 cancelled, settled>>

\* Conn.write of a response, up to the limiter; one that is refused is
\* answered with an error.
Respond(h) ==
  /\ hpc[h] = "respond"
  /\ \/ closed(ConnOf[h]) /\ HandlerGoto(h, "failed")
     \/ ~closed(ConnOf[h]) /\ HandlerGoto(h, "writing")
     \/ ~closed(ConnOf[h]) /\ Limited /\ HandlerGoto(h, "error")
  /\ UNCHANGED <<shutVars, wg, lnVars, connVars, closing, kind, requests, streams,
                 cancelled, settled>>

\* The rest of it: the frame is written, is too large, or the write fails.
WriteResponse(h) ==
  /\ hpc[h] = "writing"
  /\ \/ /\ ~closed(ConnOf[h])
        /\ HandlerGoto(h, "finish") /\ settled' = settled \cup {h}
        /\ UNCHANGED closing
     \/ HandlerGoto(h, "error") /\ UNCHANGED <<settled, closing>>
     \/ HandlerGoto(h, "failed") /\ BeginClose(ConnOf[h]) /\ UNCHANGED settled
  /\ UNCHANGED <<shutVars, wg, lnVars, connVars, kind, requests, streams,
                 cancelled>>

\* An error or end frame passes the limiter by; the end of a stream that is
\* over is not written.
WriteControl(h) ==
  /\ hpc[h] \in {"error", "end"}
  /\ \/ /\ hpc[h] = "end" /\ h \notin streams
        /\ HandlerGoto(h, "finish") /\ UNCHANGED <<settled, closing>>
     \/ /\ hpc[h] = "end" => h \in streams
        /\ ~closed(ConnOf[h])
        /\ HandlerGoto(h, "finish") /\ settled' = settled \cup {h}
        /\ UNCHANGED closing
     \/ /\ hpc[h] = "end" => h \in streams
        /\ HandlerGoto(h, "failed") /\ BeginClose(ConnOf[h]) /\ UNCHANGED settled
  /\ UNCHANGED <<shutVars, wg, lnVars, connVars, kind, requests, streams,
                 cancelled>>

\* The handler's deferred calls: the stream is finished and the context
\* cancelled, after closeWithError if a write failed.
HandlerFinish(h) ==
  /\ hpc[h] = "finish" \/ (hpc[h] = "failed" /\ closing[ConnOf[h]] = "done")
  /\ HandlerGoto(h, "untrack")
  /\ streams' = streams \ {h}
  /\ cancelled' = cancelled \cup {h}
  /\ UNCHANGED <<shutVars, wg, lnVars, connVars, closing, kind, requests, settled>>

\* The request leaves the table; wg.Done.  The slot is that of a new request.
HandlerEnd(h) ==
  /\ hpc[h] = "untrack"
  /\ HandlerGoto(h, "idle") /\ kind' = [kind EXCEPT ![h] = "unary"]
  /\ cancelled' = cancelled \ {h} /\ settled' = settled \ {h}
  /\ requests' = requests \ {h}
  /\ wg' = wg - 1
  /\ UNCHANGED <<shutVars, lnVars, connVars, closing, streams>>
-----------------------------------------------------------------------------
(***************************************************************************)
(* NotifyAll.                                                              *)
(***************************************************************************)

\* NotifyAll takes its snapshot with Connections.
NotifyAll ==
  /\ bcast = {} /\ connMu /\ conns \cap ready # {}
  /\ bcast' = conns \cap ready
  /\ UNCHANGED <<shutVars, wg, lnVars, spc, readAt, life, conns, ready, closing,
                 reqVars>>

\* It notifies the next: written, refused by the limiter, or failed.
NotifyOne(c) ==
  /\ c \in bcast
  /\ bcast' = bcast \ {c}
  /\ \/ ~closed(c) /\ UNCHANGED closing
     \/ BeginClose(c)
  /\ UNCHANGED <<shutVars, wg, lnVars, spc, readAt, life, conns, ready, reqVars>>
-----------------------------------------------------------------------------
(***************************************************************************)
(* Shutdown, which may be called again after its context has ended.        *)
(***************************************************************************)

Shutdown ==
  /\ shutPc \in {"idle", "gaveUp"}
  /\ shuttingDown' = TRUE /\ shutPc' = "listeners"
  /\ UNCHANGED <<shutAt, wg, lnVars, connVars, closing, reqVars>>

\* Under listenerMu: every listener is closed.
ShutdownListeners ==
  /\ shutPc = "listeners"
  /\ shutPc' = "conns"
  /\ lopen' = [l \in Listeners |-> lopen[l] /\ l \notin listeners]
  /\ UNCHANGED <<shuttingDown, shutAt, wg, lpc, listeners, connVars, closing, reqVars>>

\* Takes connMu.
ShutdownLock ==
  /\ shutPc = "conns"
  /\ shutPc' = "closing"
  /\ UNCHANGED <<shuttingDown, shutAt, wg, lnVars, connVars, closing, reqVars>>

\* Closes one connection after the other.
ShutdownClose(c) ==
  /\ shutPc = "closing" /\ shutAt = Nil
  /\ c \in conns /\ closing[c] # "done"
  /\ shutAt' = c /\ BeginClose(c)
  /\ UNCHANGED <<shuttingDown, shutPc, wg, lnVars, connVars, reqVars>>

ShutdownClosed ==
  /\ shutAt # Nil /\ closing[shutAt] = "done"
  /\ shutAt' = Nil
  /\ UNCHANGED <<shuttingDown, shutPc, wg, lnVars, connVars, closing, reqVars>>

\* Lets go of connMu.
ShutdownUnlock ==
  /\ shutPc = "closing" /\ shutAt = Nil
  /\ \A c \in conns : closing[c] = "done"
  /\ shutPc' = "wait"
  /\ UNCHANGED <<shuttingDown, shutAt, wg, lnVars, connVars, closing, reqVars>>

\* wg.Wait returns, or the context ends first.
ShutdownReturn ==
  /\ shutPc = "wait"
  /\ \/ wg = 0 /\ shutPc' = "returned"
     \/ shutPc' = "gaveUp"
  /\ UNCHANGED <<shuttingDown, shutAt, wg, lnVars, connVars, closing, reqVars>>
-----------------------------------------------------------------------------
ListenStep(l) == SetListener(l) \/ AcceptFails(l) \/ ClearListener(l)
                   \/ \E c \in Conns : Accept(l, c)

ServeStep(c) == addConn(c) \/ Handshake(c) \/ Serve(c) \/ ReadFails(c)
                  \/ ReadEnds(c) \/ trackStream(c) \/ removeConn(c)

CloseStep(c) == CloseStreams(c) \/ CloseRequests(c) \/ ClosePending(c)

HandlerStep(h) == Grant(h) \/ HandlerReturns(h) \/ Respond(h) \/ WriteResponse(h)
                    \/ WriteControl(h) \/ HandlerFinish(h) \/ HandlerEnd(h)

ShutdownStep == ShutdownListeners \/ ShutdownLock \/ ShutdownClosed
                  \/ ShutdownUnlock \/ ShutdownReturn
                  \/ \E c \in Conns : ShutdownClose(c)

Next ==
  \/ \E l \in Listeners : ListenStep(l)
  \/ \E c \in Conns : ServeStep(c) \/ Lifecycle(c) \/ CloseStep(c) \/ AppClose(c)
                        \/ NotifyOne(c)
  \/ \E h \in Handlers : \/ startRequest(h) \/ startNotify(h)
                         \/ startServerStream(h) \/ startClientStream(h)
                         \/ startBidiStream(h)
                         \/ ReadCancel(h) \/ Deadline(h) \/ HandlerStep(h)
  \/ NotifyAll \/ Shutdown \/ ShutdownStep

Spec == Init /\ [][Next]_vars

(***************************************************************************)
(* Goroutines that can run do run, and connMu does not starve one that     *)
(* waits for it (sync.Mutex hands over to a waiter of 1 ms): strong        *)
(* fairness for who needs it.  Reads, handshakes and Accept on closed      *)
(* sockets end; handlers return once their context has ended and callbacks *)
(* return, as docs/options.md:265-269 asks.  Nothing is asked of callers,  *)
(* of the other side or of Shutdown's context.                             *)
(***************************************************************************)
Fairness ==
  /\ \A l \in Listeners : WF_vars((~lopen[l] /\ AcceptFails(l)) \/ ClearListener(l))
  /\ \A c \in Conns :
       /\ SF_vars(addConn(c) \/ Serve(c) \/ ReadEnds(c) \/ trackStream(c) \/ removeConn(c)
                    \/ (closed(c) /\ (Handshake(c) \/ ReadFails(c))))
       /\ WF_vars(Lifecycle(c)) /\ WF_vars(CloseStep(c))
  /\ \A h \in Handlers :
       WF_vars((h \in cancelled /\ HandlerReturns(h)) \/ Grant(h) \/ Respond(h)
                 \/ WriteResponse(h) \/ WriteControl(h) \/ HandlerFinish(h)
                 \/ HandlerEnd(h))
  /\ WF_vars(ShutdownStep /\ shutPc' # "gaveUp")

FairSpec == Spec /\ Fairness
-----------------------------------------------------------------------------
(***************************************************************************)
(* Properties.                                                             *)
(***************************************************************************)

ListenPcs  == {"idle", "accept", "clear", "done"}
ServePcs   == {"free", "new", "refused", "handshake", "failed", "shaken", "read",
               "track", "failing", "unwind", "gone"}
HandlerPcs == {"idle", "grant", "run", "respond", "writing", "error", "end",
               "failed", "finish", "untrack"}

\* Type correctness of the server's state and of the goroutines around it.
TypeOK ==
  /\ shuttingDown \in BOOLEAN /\ shutAt \in Conns \cup {Nil}
  /\ shutPc \in {"idle", "listeners", "conns", "closing", "wait", "returned", "gaveUp"}
  /\ wg \in Int
  /\ lpc \in [Listeners -> ListenPcs] /\ lopen \in [Listeners -> BOOLEAN]
  /\ listeners \subseteq Listeners
  /\ spc \in [Conns -> ServePcs] /\ readAt \in [Conns -> Handlers \cup {Nil}]
  /\ life \in [Conns -> {"none", "onConnect", "wait", "onDisconnect", "done"}]
  /\ conns \subseteq Conns /\ ready \subseteq Conns /\ bcast \subseteq Conns
  /\ closing \in [Conns -> {"open", "streams", "requests", "pending", "done"}]
  /\ hpc \in [Handlers -> HandlerPcs] /\ kind \in [Handlers -> AllKinds]
  /\ requests \subseteq Handlers /\ streams \subseteq Handlers
  /\ cancelled \subseteq Handlers /\ settled \subseteq Handlers

\* Nothing slips past Shutdown: once it has closed what it found, no listener
\* is open and no connection is served that has not been closed, however
\* late setListener, Accept and addConn ran.
ShutdownSweeps ==
  shutPc \in {"wait", "returned", "gaveUp"} =>
    /\ \A l \in Listeners : ~lopen[l]
    /\ \A c \in Conns : spc[c] \in {"free", "new", "gone"} \/ closed(c)

\* When Shutdown returns nil it is over (docs/options.md:265-267): no
\* connection is served, every lifecycle callback and handler has returned,
\* and nothing starts again.
ShutdownComplete ==
  shutPc = "returned" =>
    /\ conns = {} /\ \A l \in Listeners : lpc[l] # "accept"
    /\ \A c \in Conns : spc[c] \in {"free", "gone"} /\ life[c] \in {"none", "done"}
    /\ \A h \in Handlers : hpc[h] = "idle"

\* A closed connection leaves nothing behind: no stream and no request is in
\* its tables, and whatever handler still runs has had its context cancelled,
\* although both tables fill up concurrently.
CloseLeavesNothing ==
  \A c \in Conns : closing[c] = "done" =>
    /\ Of(c, requests) = {} /\ Of(c, streams) = {}
    /\ \A h \in Of(c, Handlers) : hpc[h] # "idle" => h \in cancelled

\* OnDisconnect is called on a connection that is closed for good: its
\* handlers have been cancelled.  It is called before the connection is
\* forgotten, if OnConnect was.
DisconnectIsLast ==
  \A c \in Conns :
    /\ life[c] \in {"onDisconnect", "done"} => closing[c] = "done"
    /\ spc[c] = "gone" => life[c] \in {"none", "done"}

\* Every request, unless it is a notification, is answered, by an error if
\* the limiter or the frame limit refuses its response, as long as the
\* connection lives and the other side has not cancelled it.
RequestsAnswered ==
  \A h \in Handlers :
    hpc[h] = "untrack" => h \in settled \/ kind[h] = "notify" \/ closed(ConnOf[h])

\* Shutdown ends what it promises to wait for (docs/options.md:265-269), as
\* long as handlers and callbacks cooperate.
ShutdownDrains == shuttingDown ~> (wg = 0 /\ conns = {})
=============================================================================
