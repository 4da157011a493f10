# Verification of gorpc

gorpc is an RPC library for Go: unary calls, notifications and three shapes of
streams, multiplexed over one connection, with reconnecting clients and managed
peers. This directory holds TLA+ models of its concurrent core, the TLC runs
that check them on small instances and TLAPS proofs that hold for every
instance. Paths below are relative to the repository (`stream.go` is
`src/stream.go` in `PROJECT.json`).

## The system

| Part | Code | Modules | Status |
|---|---|---|---|
| Stream flow control | `stream_flow.go`, `stream.go` | `StreamFlow`, `StreamPipe`, `Sums` | modelled, proved |
| Stream tables and typed handles | `stream.go`, `client.go`, `server.go` | `Caller`, `Dispatch`, `StreamFlow` | partly |
| Client connection manager | `client.go` | `Client` | modelled, proved |
| Calls and pending table, dialing side | `client.go` | `Client` | modelled, proved |
| Calls and pending table, accepting side | `server.go` (`Conn`) | `Caller` | modelled, proved |
| Peer manager | `peer.go`, `server.go` (`serveConn`) | `Peer` | modelled, proved |
| Server accept, callbacks, Shutdown | `server.go` | `Server` | modelled, proved |
| Request dispatch and cancellation | `server.go`, `client.go` | `Server`, `Dispatch` | modelled, proved |
| Handshake, authentication, capabilities | `client.go`, `server.go`, `auth.go`, `protocol.go` | `Handshake` | modelled, proved |
| Singleflight | `singleflight.go` | `Caller` | modelled, proved |
| Broadcast | `broadcast.go` | `Server` | modelled |
| Backpressure limits, write limiter | `backpressure.go` | `Client`, `Caller`, `Server` | partly |
| Peer endpoints and status, backoff, framing, compression, codecs, contexts, errors, interceptors | the other files | | not modelled |

How they interact: a `Client` dials, performs the handshake and owns one
connection at a time. Its reader hands responses to the pending table and
stream frames to `Stream`s; losing the connection fails both and wakes the
reconnect loop. A `Server` accepts connections, each a `Conn` with tables of its
own. Both sides may call each other. A `PeerManager` sits above both: it decides
which of an outbound `Client` and an inbound `Conn` is the one link to a logical
peer.

The models follow these seams. `Peer` sees a `Client` only through `Connect`,
`Close` and readiness; a `Stream` sees its connection only as two FIFO
directions that may end; `Server` and `Client` each see the other side as an
environment that sends and answers what the protocol allows. `Session` composes
the two sides of a connection: handshake, callers of the accepting side, and
handlers of the dialing side, whose tables outlive connections.

## Modules

### StreamFlow: one item direction of a stream

State: the sender's and the receiver's `Stream` and `streamFlow` fields, the
frames in flight in each direction (`wire`, `windows`), and for each goroutine
in `Send` or `Recv` where it stands. A payload is its size; the credit scheme
sees nothing else. A step is one critical section of `Stream.mu` or one channel
operation, so `Recv` is seven steps (`RecvTake` ... `WriteWindow`) and the
gaps between them are where readers, other receivers and cancellation run.
`sendMu` is held while `sendPc # "idle"`. `FlowControl` says whether
`stream-credit-v1` was negotiated; `BidiHandler` allows the end of a
bidirectional handler, which runs `finish` without any frame (`silent`).

`StreamPipe` is what a stream promises: a bounded pipe, nothing written after
the end, EOF on a drained pipe only (unless the reader's context ended).
`StreamFlow` is shown to implement it (`ImplementsPipe`). `Sums` holds sums over
sequences and frames.

### Peer: one logical peer of one process

State: the fields of `Peer`, the `runDial` goroutines with their `Client`, the
`serveConn` goroutines, callers of `Dial`, and `PeerManager.Close`. A step is a
critical section of `Peer.mu`, or the calls made after it; `capCancel`,
`capClose` and `capConn` are the values carried from one to the other. Channels
are modelled by who waits on them: `onReady` and `onDial` for the present
channel, `woken` for one closed since; a waiter in none of them waits on a
channel that was replaced. `ClientFlips` (external) lets a dial's client lose
and regain its connection.

### Client: connection manager and unary calls

State: `conn`, `ready`, `reconnectCh`, `connectGate`, the pending table, the
step of `closeWithError`, of each `Connect` caller, of the reconnect loop, of
each connection's reader and of each call. `connectionLost` holds `connMu` over
`failPending`: `losing` is the connection for which it is held, and every step
that takes `connMu` waits for it. Synchronous calls wait for their response,
their context or `closed`; asynchronous ones (`Async`) only have their entry in
the pending table. A connection-bound call of a `PeerEndpoint` has two of
`waitConn`'s outcomes. The ping loop is an action that may find a connection
silent at any time. Requests are answered in any order, once or never.

### Server: the accepting side

State: the listeners of `ServeListener`, the `serveConn` goroutine of each
connection with its reader and its lifecycle goroutine (`OnConnect`, `ready`,
`OnDisconnect`), the handlers of inbound requests, notifications and streams,
the tables `requests` and `streams`, the wait group, `NotifyAll`, and where
`Shutdown` and each `closeWithError` stand. `closeWithError` runs once per
connection and takes three mutexes in turn, so the reader and the handlers run
between its sweeps; `Shutdown` closes connections with `connMu` held, which
`addConn` and `removeConn` wait for. A response that the write limiter or the
frame limit refuses becomes an error frame, as in `startRequest`.

### Session: the two sides of a connection

`Handshake` is `clientHandshake` and `clientAuth` against `serverHandshake` and
`readAuth`. A configuration holds what the two compare: wire format (version and
codec), compressor, secret and whether the release knows stream credit. A
signature is the tuple that it covers.

`Link` declares what the two ends share: the frames on their way per connection,
and the operations, each with its connection and its request ID. Request IDs
start again with every `Conn`, so operations of two connections may share one.

`Caller` is the accepting side as a caller: `addPending`, `addStream`, the first
write, the wait for a result, singleflight, `CloseAndRecv`, `Cancel`,
`watchContext`, `closeWithError` and the reader. `Dispatch` is the dialing side
as a server of requests: its reader checks that its connection is current
and handles the frame in a later step; handlers reply, fail, are cancelled, and
clean up; `connectionLost` and `closeWithError` sweep the tables `streams` and
`requests`, which are keyed by request ID. `Session` joins them: a connection is
dialed, agreed on, used, lost and replaced.

A stream has here two directions that end, a context and a place in the
tables. Its items and its credit are in `StreamFlow`; `FlowAgrees` is what that
module assumes, namely that one value of `FlowControl` holds at both ends.

## Runs

| Run | Question | Bounds |
|---|---|---|
| `stream_safety` | Is credit conserved, never overrun or stranded; is no wakeup lost; does the stream implement the pipe? | window 3 items, 4 bytes, items of 1, 3, 5 bytes, 2 receivers, 4 sends |
| `stream_legacy` | Without credit: is the queue bounded and EOF honest? | window 2/3, 2 receivers, 4 sends |
| `stream_live` | Does every `Send` return and every item arrive? | window 3/3, items 1, 3, 4, 3 sends |
| `stream_wake` | `docs/streaming.md:403` (violated) | window 2/2, 3 sends |
| `peer_safety` | Arbitration, shared dial, no leaks, ready channel; does `PeerManager.Close` stop everything? | 1 caller, 2 inbound, 2 dials |
| `peer_dial` | `docs/peers.md:61` (violated) | 1 caller, 1 inbound, 2 dials |
| `peer_wait` | Comment on `WaitReady` (violated) | 1 caller, 1 inbound, 2 dials |
| `client_safety` | No lost waiter, call or signal; no double close, no blocked delivery | 2 connections, 1 `Connect` caller, 1 synchronous and 1 asynchronous call, at most 1 pending |
| `client_live` | Does it keep reconnecting; do calls end; does `Close` end everything? | 1 connection, 1 `Connect` caller, 1 asynchronous call |
| `server` | Does nothing slip past `Shutdown`, and is all over when it returns; are tables empty after a close, callbacks in order, requests answered; does `Shutdown` drain? | 1 listener; 1 connection with a handler slot, or 2 idle connections |
| `session` | Do both sides agree on what was negotiated; does cleanup stay within its connection and a loss reach every handler; is no handler orphaned, no early response lost, no caller stranded? | the loads of `MCSession` |
| `session_stale` | `docs/protocol.md:18-21` (violated) | 2 connections with a stream each |

Why the bounds suffice. Streams: the sizes include one larger than the byte
window and one that leaves a remainder, a window of 3 makes "half the window"
differ from one item and from all, and two receivers interleave inside `Recv`.
Peers: two connections and two dials give a loser and a winner in every pairing,
and identities are reused, so behaviours are not bounded in length. One caller
dials and releases again and again; what several callers share is a counter of
leases, and the proofs hold for any number.
Client: connection identities are reused as well; two are enough for an old and
a new one to overlap, and a waiting old reader, an old write and a new
connection occur together. `client_live` has one: a new connection then waits
until the reader and the calls of the old one let go of it.
Server: a connection is used once, a handler slot again and again. `Mixes` splits
the behaviours: one connection with a handler of any kind, or two connections
without, which is what the locks of `Shutdown`, `addConn` and `removeConn` and
the snapshot of `NotifyAll` need.
`Limited` lets limits and limiters refuse at any time.
Session: a load names the connections, the operations and their kinds, what may
go wrong, and the configurations. `MCLoads` holds all 576 pairs of
configurations without operations; one stream of each kind under each pair of
faults; one and two calls of every unary kind; two streams with room for one;
and two connections to releases with and without credit, where the second
operation reuses the request ID of the first. An operation and a connection are
used once. `Drained` makes the second connection wait until the accepting side is
done with the first; at the dialing side, where tables are shared, the old
reader and the old handlers overlap with the new ones.
`MaxSends` is the only bound on the length of a stream's behaviour.

Deadlock is checked for streams and for the client. Elsewhere the system may
really stop: once the manager is closed and all callers have returned, once
`Shutdown` has returned, once the operations of a load are over. The same holds
of `stream_wake`.

### Fairness

Goroutines that can run do run (weak fairness). In `Client`, steps that need
`connMu` or the connect gate have strong fairness, and in `Server` those that
need `connMu`, because `sync.Mutex` hands over to a starving waiter and a Go
channel serves its senders in turn. Nothing is assumed of contexts, of
applications that call `Send`, `Close` or `Dial`, or of the network, with
three exceptions that are hypotheses of the property: the application calls
`Recv` again and again (`docs/streaming.md` asks for it); for
`KeepsReconnecting` not all dials of the loop fail (`Reachable`); and for
`ShutdownDrains` handlers return once their context has ended and callbacks
return (`docs/options.md:265-269` asks for it). Handshakes end, since
`HandshakeTimeout` bounds them. `Session` states no fairness and no liveness:
`NoStrandedCaller`, `LossReaches` and `NoOrphan` say instead that whoever waits
has someone who will end the wait.

### Disagreements with the documentation

Four runs are expected to fail, each on a sentence of the repository.

* `stream_wake`: a bidirectional handler that returns leaves the other side's
  parked `Send` asleep, since no frame tells it.
* `peer_dial`: an inbound link that cancels a dial and is lost before the dial's
  goroutine ends leaves a leased peer that nobody dials.
* `peer_wait`: an inbound link that is dropped before it is ready replaces the
  ready channel without closing it, and strands a waiter.
* `session_stale`: the reader of a connection checks once that it is current and
  then looks up a request ID in tables that outlive it. If the connection is
  found silent and replaced in between, a cancel frame of the old one
  ends the stream of the new one with the same ID.

## Proofs

Proved with TLAPS for every value of the constants, from the named assumptions
of the modules only: positive limits, distinct identities, finite sets where
something is counted (`StreamAssumption`, `PeerAssumption`, `ClientAssumption`,
`ServerAssumption`, `HandshakeAssumption`, `LinkAssumption`, and `NilIsNoFrame`: no
frame is the mark for the absence of one).

Streams (`StreamTheorems`, resting on `StreamFlowProofs`, which also has the
algebra of sums over sequences).
`Inductive` shows `Spec => []IInv`; the other theorems
are its consequences, and `Refinement` shows `Spec => ImplementsPipe`.
Why the strengthening is needed: that an arriving item fits the queue
(`NoFlowFault`) follows only if the credit spent on it is accounted for
everywhere it may be (`CreditInv`), which needs what each goroutine in `Recv`
holds (`HeldInv`), that `bufferedBytes` is the queue and the items just taken
(`BufferInv`), and that the sender's limits are the receiver's (`WindowInv`).
EOF needs that the end frame is last (`EndInv`) and that items are neither lost
nor invented (`CountInv`). The bound of the pipe counts items dropped after an
end, hence `PipeInv`.

Peers (`PeerProofs`). `PeerInductive` shows `Spec => []IInv` for any number of
callers, connections and dials. `CapInv` says that what a goroutine carries past
an unlock it carries to its next step only; without it a client about to be
closed could be forgotten. `LinkInv` and `ServeInv` tie the active link to
`closed` and to the connection served. `EstablishedWins` is an action property
proved from the same invariant.

Client (`ClientProofs`). `ClientInductive` covers any number of connections,
`Connect` callers and calls, and all six properties of `client_safety` follow.
That `setConn` closes `ready` once needs that the connect gate lets in one
attempt, whose check of `conn` stays valid until it ends (`GateInv`), and that
`ready` is closed exactly while there is a connection (`ReadyInv`). That a
delivery never blocks needs that a call is in the pending table exactly until
its one result (`CallInv`). `LoopInv` extends `NoLostReconnect` to a loop that
`Connect` is about to start: a loss in that window has left a token.

Server (`ServerProofs`). `ServerInductive` covers any finite sets of listeners,
connections and handlers. The heart is `CountInv`: `wg` is the number of
listeners in `Accept`, connections served and handlers running, so that zero
means that all have ended; with `SweepInv` (what Shutdown has passed stays
closed, what comes late is refused) this gives `ShutdownComplete`. `TableInv`
says that a table that `closeWithError` has swept does not fill again, and that
a handler outside `requests` has a cancelled context. `AnswerInv` ties the step
of a handler to whether its request is settled.

Session (`SessionProofs`, resting on `CallerProofs` for the handshake and the
accepting side and on `DispatchProofs` for the dialing side). `SessionInductive`
shows `Spec => []SInv` for any configurations, connections, operations and
loads, and all eight properties of `session` follow. The two sides are proved
apart: `Onward` and `Leaves` are what a step of the accepting side promises the
dialing side, `Calm` and `Advance` what a step of the dialing side promises.

* What is negotiated. `HandshakeInv` lists, for each step of the server, where
  the client can be and which frame is on its way: agreement is then read off
  the state in which both are done. `DialInv` follows credit from the handshake
  to the Conn (`sflow`), `CreditInv` from there to the client's connection
  (`connFlowControl`) and to the stream (`hflow`). A start that is configured
  while its connection is being replaced may get the wrong answer; it is
  harmless because such a stream is never tracked, and that needs that a
  connection does not come back and that a request frame never starts a stream
  (`HandlerBegun`, `FrameOK`).
* Callers (`ResponsesKept`, `NobodyStranded`). `CallsInv` says what the tables
  of a Conn owe: a call without a result is in `pending`, a stream whose context
  has not ended in `streams`, and neither outlives its sweep by
  `closeWithError`; a flight is led by a call that has yet to land. A client
  stream is kept in `pending` until its response is delivered, and the reader
  delivers it before it ends the context: without the state between these two
  steps (`ReaderOK`) `ResponseKept` is not inductive.
* The dialing side's tables (`CleanupsAreLocal`, `LossesReach`). `TablesInv`
  says of an operation that its handler is found under its ID or has been told
  to end. A later operation may take the ID, and an entry may be overwritten,
  but only once its handler's context has ended: while a loss or `Close` is
  under way nothing is tracked, and before the next connection the sweep is
  over (`ConnInv`). A stream of a lost connection is in the table only while its
  reader is between `addStream` and `trackRequest` or the sweep has yet to come.
* Handlers of callers that are gone (`NoOrphans`). `Accounted` follows a caller
  that leaves: it was answered, and then its handler has returned; or it has a
  cancel or error frame to write, or that frame is on the wire or held by the
  reader. That the frame finds its handler needs the order of frames
  (`OrderInv`): nothing of an operation is ahead of its first frame, and once
  its handler has started no first frame is left. The same order gives the
  action property `HandlersRunOnce`: no step starts a handler twice.
* Responses (`ResponsesGenuine`). A response is followed back to a handler
  (`GenuineInv`): what a call returns was in its channel, or in that of the
  call whose flight it shared; what is in a channel was on the wire of its
  connection; and what is on the wire a handler has returned and written. With
  `HandlersRunOnce`, a call that succeeds was handled, and handled once. No run
  states it: TLC checked it, and `GenuineInv`, on the instance of `session`.

All five invariants were checked by TLC on the instances above before they were
proved.

Only model-checked: every liveness property, since fairness is out of the proof
system's reach: `SendReturns`, `ItemsReceived`, `CloseStopsEverything`,
`KeepsReconnecting`, `LossEndsCalls`, `CloseEndsAll` and `ShutdownDrains`. Every
invariant and action property of a passing run is proved.

## Not modelled

Byte layout, codecs, compressors and the MAC of authentication; floating-point
jitter and the arithmetic of backoff; option defaults; durations (timeouts are
steps that may happen at any time); panics of handlers and their recovery;
addresses of a dial (`Peer` has a dial configuration or none); the number of
slots of the write limiter (a full one is an outcome of a write). Contexts,
errors and interceptors change no state of the library.

Streams and notifications that the dialing side starts are modelled at their
handler's end (`Server`), not as a composed pair; `Client` has its unary calls.
The tables of a `Conn` belong to one connection, so what makes `Session` hard,
tables that outlive connections, does not arise in that direction.

Two processes that dial each other are not composed: `Peer` is one of them, with
the tie-break by name as a constant. That both keep the same socket is not
shown.

What `Client` leaves out of `connectionLost` and `closeWithError`, namely
`failStreams` and `cancelRequests`, is in `Dispatch`. What they do to the items
of a stream is `SenderContext`, `ReceiverContext` and the finish actions of
`StreamFlow`.
