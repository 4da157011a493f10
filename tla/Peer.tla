-------------------------------- MODULE Peer --------------------------------
(***************************************************************************)
(* One logical peer of a PeerManager (peer.go): the goroutines that call   *)
(* PeerManager.Dial and PeerClient.Close, the outbound dial they share,    *)
(* the inbound connections that Server.serveConn hands to the manager, and *)
(* PeerManager.Close.  A step is a critical section of Peer.mu or the      *)
(* calls made after it; the values a goroutine carries from one to the     *)
(* other (dialCancel, the client to close) are in capCancel and capClose.  *)
(*                                                                         *)
(* The Client of a dial, and the network, are seen through their results:  *)
(* Connect returns, the connection is lost and replaced.  Identities of    *)
(* dials and connections are reused once nothing refers to them.           *)
(***************************************************************************)
EXTENDS Naturals

CONSTANTS
  Callers,         \* goroutines that call PeerManager.Dial
  Conns,           \* accepted connections
  Dials,           \* runDial goroutines, each with the Client it creates
  PreferOutbound,  \* preferOutbound(manager.localName, peer.name)
  Nil, Manager

ASSUME PeerAssumption ==
  /\ PreferOutbound \in BOOLEAN
  /\ Conns \cap Dials = {} /\ Callers \cap Conns = {}
  /\ Nil \notin Conns \cup Dials
  /\ Manager \notin Callers \cup Conns

VARIABLES
  mgrPc,               \* PeerManager: "open", then the steps of Close
  closed, leases, lastDialErr,
  active,              \* Nil, the dial of an outbound link, an inbound Conn
  linkReady,           \* active.ready
  readyClosed,         \* the channel Peer.ready is closed
  dialDone,            \* the dial in progress, Nil when ~dialing
  dialPc, ctxDone,     \* runDial goroutines; the dials whose ctx is cancelled
  client,              \* the Client of each dial
  connPc,              \* serveConn goroutines
  pc,                  \* callers of Dial
  waitClient,          \* the client whose WaitReady a caller is in
  onReady, onDial,     \* callers that select on the present ready, dialDone
  woken,               \* callers that select on a channel closed since
  capCancel, capClose, capConn

waitVars == <<onReady, onDial, woken>>
capVars  == <<capCancel, capClose, capConn>>
peerVars == <<closed, leases, lastDialErr, active, linkReady, readyClosed,
              dialDone>>
dialVars == <<dialPc, ctxDone, client>>
vars     == <<mgrPc, peerVars, dialVars, connPc, pc, waitClient, waitVars,
              capVars>>

Threads == Callers \cup Conns \cup {Manager}
dialing == dialDone # Nil

\* The context of a dial: its own cancel, or the manager's.
CtxDone(d) == d \in ctxDone \/ mgrPc \in {"cancelled", "closing", "done"}

Init ==
  /\ mgrPc = "open"
  /\ closed = FALSE /\ leases = 0 /\ lastDialErr = FALSE
  /\ active = Nil /\ linkReady = FALSE /\ readyClosed = FALSE
  /\ dialDone = Nil
  /\ dialPc = [d \in Dials |-> "idle"] /\ ctxDone = {}
  /\ client = [d \in Dials |-> "closed"]
  /\ connPc = [c \in Conns |-> "idle"]
  /\ pc = [u \in Callers |-> "idle"]
  /\ waitClient = [u \in Callers |-> Nil]
  /\ onReady = {} /\ onDial = {} /\ woken = {}
  /\ capCancel = [t \in Threads |-> Nil]
  /\ capClose = [t \in Threads |-> Nil]
  /\ capConn = Nil
-----------------------------------------------------------------------------
(***************************************************************************)
(* The channel Peer.ready, and what follows an unlock.                     *)
(***************************************************************************)

\* p.ready = make(chan struct{}): who waits on the old one keeps it.  Mutant:
\* the old channel stays.
KeepReady == UNCHANGED <<readyClosed, onReady>>
NewReady == readyClosed' = FALSE /\ onReady' = {}

\* Mutants of AfterUnlock: one of the two calls is forgotten.
CancelOnly(t) ==
  /\ ctxDone' = ctxDone \cup ({capCancel[t]} \ {Nil})
  /\ capCancel' = [capCancel EXCEPT ![t] = Nil]
  /\ capClose' = [capClose EXCEPT ![t] = Nil]
  /\ UNCHANGED client
CloseOnly(t) ==
  /\ client' = [d \in Dials |-> IF d = capClose[t] THEN "closed" ELSE client[d]]
  /\ capCancel' = [capCancel EXCEPT ![t] = Nil]
  /\ capClose' = [capClose EXCEPT ![t] = Nil]
  /\ UNCHANGED ctxDone

\* The calls a goroutine makes after it has unlocked Peer.mu: the dial's
\* cancel, and Close of the client it displaced.
AfterUnlock(t) ==
  /\ ctxDone' = ctxDone \cup ({capCancel[t]} \ {Nil})
  /\ client' = [d \in Dials |-> IF d = capClose[t] THEN "closed" ELSE client[d]]
  /\ capCancel' = [capCancel EXCEPT ![t] = Nil]
  /\ capClose' = [capClose EXCEPT ![t] = Nil]

\* A dial identity nothing refers to.
Free(d) ==
  /\ dialPc[d] = "idle" /\ client[d] = "closed"
  /\ d # active
  /\ \A t \in Threads : capCancel[t] # d /\ capClose[t] # d
  /\ \A u \in Callers : waitClient[u] # d

\* ensureDial's early return.  Mutant: it does not look for a dial under way.
DialEach     == closed \/ leases = 0 \/ active # Nil
NoDialWanted  == closed \/ leases = 0 \/ active # Nil \/ dialing

\* ensureDial.
EnsureDial ==
  IF NoDialWanted
  THEN UNCHANGED <<dialDone, lastDialErr, dialVars>>
  ELSE \E d \in Dials :
         /\ Free(d)
         /\ dialDone' = d /\ lastDialErr' = FALSE
         /\ dialPc' = [dialPc EXCEPT ![d] = "connect"]
         /\ ctxDone' = ctxDone \ {d}
         /\ client' = [client EXCEPT ![d] = "new"]
-----------------------------------------------------------------------------
(***************************************************************************)
(* PeerManager.Dial and PeerClient.Close.                                  *)
(***************************************************************************)

\* PeerManager.peer finds the manager open.
DialBegin(u) ==
  /\ pc[u] = "idle" /\ mgrPc = "open"
  /\ pc' = [pc EXCEPT ![u] = "acquire"]
  /\ UNCHANGED <<mgrPc, peerVars, dialVars, connPc, waitClient, waitVars,
                 capVars>>

\* acquire, up to its unlock.
Acquire(u) ==
  /\ pc[u] = "acquire"
  /\ IF closed
     THEN pc' = [pc EXCEPT ![u] = "idle"] /\ UNCHANGED <<leases, lastDialErr>>
     ELSE /\ pc' = [pc EXCEPT ![u] = "ensure"]
          /\ leases' = leases + 1 /\ lastDialErr' = FALSE
  /\ UNCHANGED <<mgrPc, closed, active, linkReady, readyClosed, dialDone,
                 dialVars, connPc, waitClient, waitVars, capVars>>

\* acquire ends with ensureDial.
AcquireDial(u) ==
  /\ pc[u] = "ensure"
  /\ EnsureDial
  /\ pc' = [pc EXCEPT ![u] = "wait"]
  /\ UNCHANGED <<mgrPc, closed, leases, active, linkReady, readyClosed, connPc,
                 waitClient, waitVars, capVars>>

\* WaitReady asks the client of an outbound link.
ViaClient == active \in Dials

\* WaitReady, one turn of its loop: what it sees under Peer.mu decides whether
\* it returns, waits for the client, or selects on ready and dialDone.
WaitReady(u) ==
  /\ pc[u] = "wait"
  /\ \/ /\ closed \/ (~closed /\ ~linkReady /\ ~dialing /\ lastDialErr)
        /\ pc' = [pc EXCEPT ![u] = "release"]
        /\ UNCHANGED <<waitClient, waitVars>>
     \/ /\ ~closed /\ linkReady /\ ~ViaClient
        /\ pc' = [pc EXCEPT ![u] = "leased"]
        /\ UNCHANGED <<waitClient, waitVars>>
     \/ /\ ~closed /\ linkReady /\ ViaClient
        /\ pc' = [pc EXCEPT ![u] = "client"]
        /\ waitClient' = [waitClient EXCEPT ![u] = active]
        /\ UNCHANGED waitVars
     \/ /\ ~closed /\ ~linkReady /\ (dialing \/ ~lastDialErr)
        /\ pc' = [pc EXCEPT ![u] = "parked"]
        /\ onReady' = IF readyClosed THEN onReady ELSE onReady \cup {u}
        /\ woken' = IF readyClosed THEN woken \cup {u} ELSE woken
        /\ onDial' = IF dialing THEN onDial \cup {u} ELSE onDial
        /\ UNCHANGED waitClient
  /\ UNCHANGED <<mgrPc, peerVars, dialVars, connPc, capVars>>

\* Leave the select: no channel knows the caller any more.
Unpark(u) ==
  onReady' = onReady \ {u} /\ onDial' = onDial \ {u} /\ woken' = woken \ {u}

\* The select in WaitReady: a closed channel, or the context of the call or of
\* the manager.
WaitWake(u) ==
  /\ pc[u] = "parked" /\ u \in woken
  /\ pc' = [pc EXCEPT ![u] = "wait"]
  /\ Unpark(u)
  /\ UNCHANGED <<mgrPc, peerVars, dialVars, connPc, waitClient, capVars>>

WaitCancelled(u) ==
  /\ pc[u] = "parked"
  /\ pc' = [pc EXCEPT ![u] = "release"]
  /\ Unpark(u)
  /\ UNCHANGED <<mgrPc, peerVars, dialVars, connPc, waitClient, capVars>>

\* client.WaitReady returns: the client has a connection, or it was closed or
\* ctx ended, and then another link may be worth a look.
WaitClient(u) ==
  /\ pc[u] = "client"
  /\ LET k == waitClient[u]
     IN  \/ client[k] = "ready" /\ pc' = [pc EXCEPT ![u] = "leased"]
         \/ active # k /\ pc' = [pc EXCEPT ![u] = "wait"]
         \/ active = k /\ pc' = [pc EXCEPT ![u] = "release"]
  /\ waitClient' = [waitClient EXCEPT ![u] = Nil]
  /\ UNCHANGED <<mgrPc, peerVars, dialVars, connPc, waitVars, capVars>>

\* PeerClient.Close.
CloseLease(u) ==
  /\ pc[u] = "leased"
  /\ pc' = [pc EXCEPT ![u] = "release"]
  /\ UNCHANGED <<mgrPc, peerVars, dialVars, connPc, waitClient, waitVars,
                 capVars>>

\* release, up to its unlock: the last lease takes the dial and an outbound
\* link with it.
Release(u) ==
  /\ pc[u] = "release"
  /\ pc' = [pc EXCEPT ![u] = "released"]
  /\ leases' = IF leases > 0 THEN leases - 1 ELSE leases
  /\ LET last == leases' = 0
         drop == last /\ active \in Dials
     IN  /\ capCancel' = [capCancel EXCEPT ![u] = IF last THEN dialDone ELSE Nil]
         /\ capClose' = [capClose EXCEPT ![u] = IF drop THEN active ELSE Nil]
         /\ IF drop
            THEN active' = Nil /\ linkReady' = FALSE /\ NewReady
            ELSE UNCHANGED <<active, linkReady, readyClosed, onReady>>
  /\ UNCHANGED <<mgrPc, closed, lastDialErr, dialDone, dialVars, connPc,
                 waitClient, onDial, woken, capConn>>

\* release's cancel and Close.
ReleaseEnd(u) ==
  /\ pc[u] = "released"
  /\ AfterUnlock(u)
  /\ pc' = [pc EXCEPT ![u] = "idle"]
  /\ UNCHANGED <<mgrPc, peerVars, dialPc, connPc, waitClient, waitVars, capConn>>
-----------------------------------------------------------------------------
(***************************************************************************)
(* runDial, and the Client it leaves behind.                               *)
(***************************************************************************)

\* RegisterHandlers and Connect return.  Connect retries what is not permanent
\* (authentication, protocol, ErrPeerConnected), so any other error is ctx's.
DialReturns(d) ==
  /\ dialPc[d] = "connect"
  /\ \/ /\ dialPc' = [dialPc EXCEPT ![d] = "connected"]
        /\ client' = [client EXCEPT ![d] = "ready"]
     \/ /\ dialPc' = [dialPc EXCEPT ![d] = "refused"]   \* ErrPeerConnected
        /\ UNCHANGED client
     \/ /\ dialPc' = [dialPc EXCEPT ![d] = "failed"]
        /\ UNCHANGED client
     \/ /\ CtxDone(d)
        /\ dialPc' = [dialPc EXCEPT ![d] = "canceled"]
        /\ UNCHANGED client
  /\ UNCHANGED <<mgrPc, peerVars, ctxDone, connPc, pc, waitClient, waitVars,
                 capVars>>

\* runDial may install its client as the active link.  Mutants: one condition
\* is missing.
InstallsOver(d)   == dialPc[d] = "connected" /\ ~closed /\ leases > 0
InstallsFree(d)   == dialPc[d] = "connected" /\ ~closed /\ active = Nil
InstallsClosed(d) == dialPc[d] = "connected" /\ leases > 0 /\ active = Nil
Installs(d) ==
  dialPc[d] = "connected" /\ ~closed /\ leases > 0 /\ active = Nil

\* runDial under Peer.mu: the dial is over; its client becomes the active link
\* or is dropped.
DialEnd(d) ==
  /\ dialPc[d] \in {"connected", "refused", "failed", "canceled"}
  /\ LET mine == dialDone = d
         win  == mine /\ Installs(d)
     IN  /\ dialDone' = IF mine THEN Nil ELSE dialDone
         /\ active' = IF win THEN d ELSE active
         /\ linkReady' = (linkReady \/ win)
         /\ readyClosed' = (readyClosed \/ win)
         /\ lastDialErr' = IF win THEN FALSE
                           ELSE lastDialErr \/ (mine /\ dialPc[d] = "failed")
         /\ woken' = woken \cup (IF mine THEN onDial ELSE {})
                           \cup (IF win THEN onReady ELSE {})
         /\ onDial' = IF mine THEN {} ELSE onDial
         /\ onReady' = IF win THEN {} ELSE onReady
         /\ dialPc' = [dialPc EXCEPT ![d] = IF win THEN "idle" ELSE "drop"]
  /\ UNCHANGED <<mgrPc, closed, leases, ctxDone, client, connPc, pc, waitClient,
                 capVars>>

\* runDial closes a client it does not keep.
DialDrop(d) ==
  /\ dialPc[d] = "drop"
  /\ dialPc' = [dialPc EXCEPT ![d] = "idle"]
  /\ client' = [client EXCEPT ![d] = "closed"]
  /\ UNCHANGED <<mgrPc, peerVars, ctxDone, connPc, pc, waitClient, waitVars,
                 capVars>>

\* A connected client loses its connection; its reconnect loop gets another.
ClientFlips(d) ==
  /\ \/ client[d] = "ready" /\ client' = [client EXCEPT ![d] = "lost"]
     \/ client[d] = "lost" /\ client' = [client EXCEPT ![d] = "ready"]
  /\ UNCHANGED <<mgrPc, peerVars, dialPc, ctxDone, connPc, pc, waitClient,
                 waitVars, capVars>>
-----------------------------------------------------------------------------
(***************************************************************************)
(* serveConn with a PeerManager.                                           *)
(***************************************************************************)

\* The hello names this peer, and PeerManager.peer finds the manager open.
InboundHello(c) ==
  /\ connPc[c] = "idle" /\ mgrPc = "open"
  /\ connPc' = [connPc EXCEPT ![c] = "accept"]
  /\ UNCHANGED <<mgrPc, peerVars, dialVars, pc, waitClient, waitVars, capVars>>

\* An outbound link whose client has no connection gives way.  Mutant: every
\* outbound link does.
DisplacedAny == active \in Dials
Displaced == active \in Dials /\ client[active] # "ready"

\* acceptInbound, up to its unlock.
AcceptInbound(c) ==
  /\ connPc[c] = "accept"
  /\ LET taken    == active # Nil /\ ~Displaced
         refused  == dialing /\ PreferOutbound
         accepted == ~closed /\ ~taken /\ ~refused
     IN  /\ connPc' = [connPc EXCEPT ![c] = IF accepted THEN "accepted" ELSE "failed"]
         /\ IF ~closed /\ Displaced
            THEN NewReady
            ELSE UNCHANGED <<readyClosed, onReady>>
         /\ active' = IF accepted THEN c
                      ELSE IF ~closed /\ Displaced THEN Nil ELSE active
         /\ linkReady' = (linkReady /\ ~accepted /\ (closed \/ ~Displaced))
         /\ lastDialErr' = (lastDialErr /\ ~accepted)
         /\ capCancel' = [capCancel EXCEPT ![c] = IF accepted THEN dialDone ELSE Nil]
         /\ capClose' = [capClose EXCEPT ![c] =
                           IF accepted /\ Displaced THEN active ELSE Nil]
  /\ UNCHANGED <<mgrPc, closed, leases, dialDone, dialVars, pc, waitClient,
                 onDial, woken, capConn>>

\* acceptInbound's cancel and Close.
AcceptEnd(c) ==
  /\ connPc[c] = "accepted"
  /\ AfterUnlock(c)
  /\ connPc' = [connPc EXCEPT ![c] = "ack"]
  /\ UNCHANGED <<mgrPc, peerVars, dialPc, pc, waitClient, waitVars, capConn>>

\* serverHandshake writes its acknowledgement, or fails to.
HandshakeEnd(c) ==
  /\ connPc[c] = "ack"
  /\ \E next \in {"connected", "failed"} : connPc' = [connPc EXCEPT ![c] = next]
  /\ UNCHANGED <<mgrPc, peerVars, dialVars, pc, waitClient, waitVars, capVars>>

\* connected: the link is ready, unless the manager or the peer is closed.
Connected(c) ==
  /\ connPc[c] = "connected"
  /\ \/ /\ ~closed /\ active = c
        /\ connPc' = [connPc EXCEPT ![c] = "serving"]
        /\ linkReady' = TRUE /\ readyClosed' = TRUE
        /\ woken' = woken \cup onReady /\ onReady' = {}
     \/ /\ mgrPc # "open" \/ closed \/ active # c
        /\ connPc' = [connPc EXCEPT ![c] = "failed"]
        /\ UNCHANGED <<linkReady, readyClosed, woken, onReady>>
  /\ UNCHANGED <<mgrPc, closed, leases, lastDialErr, active, dialDone, dialVars,
                 pc, waitClient, onDial, capVars>>

\* The read loop of an established connection ends; OnDisconnect has run.
ReadFails(c) ==
  /\ connPc[c] = "serving"
  /\ connPc' = [connPc EXCEPT ![c] = "failed"]
  /\ UNCHANGED <<mgrPc, peerVars, dialVars, pc, waitClient, waitVars, capVars>>

\* disconnected, up to its unlock.  A closed manager finds no peer.
Disconnected(c) ==
  /\ connPc[c] = "failed"
  /\ \/ /\ active = c
        /\ active' = Nil /\ linkReady' = FALSE /\ NewReady
        /\ connPc' = [connPc EXCEPT ![c] = IF ~closed /\ leases > 0
                                           THEN "ensure" ELSE "idle"]
     \/ /\ active # c \/ mgrPc # "open"
        /\ connPc' = [connPc EXCEPT ![c] = "idle"]
        /\ UNCHANGED <<active, linkReady, readyClosed, onReady>>
  /\ UNCHANGED <<mgrPc, closed, leases, lastDialErr, dialDone, dialVars, pc,
                 waitClient, onDial, woken, capVars>>

\* disconnected ends with ensureDial.
DisconnectedDial(c) ==
  /\ connPc[c] = "ensure"
  /\ EnsureDial
  /\ connPc' = [connPc EXCEPT ![c] = "idle"]
  /\ UNCHANGED <<mgrPc, closed, leases, active, linkReady, readyClosed, pc,
                 waitClient, waitVars, capVars>>
-----------------------------------------------------------------------------
(***************************************************************************)
(* PeerManager.Close.                                                      *)
(***************************************************************************)

\* closed = true, then cancel() of the manager's context.
ManagerClose ==
  /\ \/ mgrPc = "open" /\ mgrPc' = "closed"
     \/ mgrPc = "closed" /\ mgrPc' = "cancelled"
  /\ UNCHANGED <<peerVars, dialVars, connPc, pc, waitClient, waitVars, capVars>>

\* Peer.close, up to its unlock.
PeerClose ==
  /\ mgrPc = "cancelled" /\ mgrPc' = "closing"
  /\ closed' = TRUE
  /\ capCancel' = [capCancel EXCEPT ![Manager] = dialDone]
  /\ capClose' = [capClose EXCEPT ![Manager] = IF active \in Dials THEN active ELSE Nil]
  /\ capConn' = IF active \in Conns THEN active ELSE Nil
  /\ active' = Nil /\ linkReady' = FALSE
  /\ UNCHANGED <<leases, lastDialErr, readyClosed, dialDone, dialVars, connPc,
                 pc, waitClient, waitVars>>

\* Peer.close's cancel, client.Close and conn.Close: the connection's reader
\* fails.
PeerCloseEnd ==
  /\ mgrPc = "closing" /\ mgrPc' = "done"
  /\ AfterUnlock(Manager)
  /\ capConn' = Nil
  /\ connPc' = [c \in Conns |-> IF c = capConn /\ connPc[c] = "serving"
                                THEN "failed" ELSE connPc[c]]
  /\ UNCHANGED <<peerVars, dialPc, pc, waitClient, waitVars>>
-----------------------------------------------------------------------------
Caller(u) ==
  \/ DialBegin(u) \/ Acquire(u) \/ AcquireDial(u)
  \/ WaitReady(u) \/ WaitWake(u) \/ WaitCancelled(u) \/ WaitClient(u)
  \/ CloseLease(u) \/ Release(u) \/ ReleaseEnd(u)

Dialer(d) == DialReturns(d) \/ DialEnd(d) \/ DialDrop(d) \/ ClientFlips(d)

Inbound(c) ==
  \/ InboundHello(c) \/ AcceptInbound(c) \/ AcceptEnd(c) \/ HandshakeEnd(c)
  \/ Connected(c) \/ ReadFails(c) \/ Disconnected(c) \/ DisconnectedDial(c)

Next ==
  \/ \E u \in Callers : Caller(u)
  \/ \E d \in Dials : Dialer(d)
  \/ \E c \in Conns : Inbound(c)
  \/ ManagerClose \/ PeerClose \/ PeerCloseEnd

Spec == Init /\ [][Next]_vars

MgrCancelled == mgrPc \in {"cancelled", "closing", "done"}

\* A Client's WaitReady returns once the client has a connection or is closed.
ClientSettled(u) == pc[u] = "client" /\ client[waitClient[u]] \in {"ready", "closed"}

(***************************************************************************)
(* Fairness.  Goroutines that can run do run; Connect returns once its     *)
(* context is cancelled, and a handshake ends (HandshakeTimeout).  Nothing *)
(* is assumed of the network, of the callers' contexts, of applications    *)
(* that hold a lease, or of peers that dial.                               *)
(***************************************************************************)
Fairness ==
  /\ \A u \in Callers :
        /\ WF_vars(Acquire(u)) /\ WF_vars(AcquireDial(u))
        /\ WF_vars(WaitReady(u)) /\ WF_vars(WaitWake(u))
        /\ WF_vars(MgrCancelled /\ WaitCancelled(u))
        /\ WF_vars(ClientSettled(u) /\ WaitClient(u))
        /\ WF_vars(Release(u)) /\ WF_vars(ReleaseEnd(u))
  /\ \A d \in Dials :
        /\ WF_vars(CtxDone(d) /\ DialReturns(d))
        /\ WF_vars(DialEnd(d)) /\ WF_vars(DialDrop(d))
  /\ \A c \in Conns :
        /\ WF_vars(AcceptInbound(c)) /\ WF_vars(AcceptEnd(c))
        /\ WF_vars(HandshakeEnd(c)) /\ WF_vars(Connected(c))
        /\ WF_vars(Disconnected(c)) /\ WF_vars(DisconnectedDial(c))
  /\ WF_vars(mgrPc = "closed" /\ ManagerClose)
  /\ WF_vars(PeerClose) /\ WF_vars(PeerCloseEnd)

FairSpec == Spec /\ Fairness
-----------------------------------------------------------------------------
(***************************************************************************)
(* Properties.                                                             *)
(***************************************************************************)

\* Type correctness.
TypeOK ==
  /\ mgrPc \in {"open", "closed", "cancelled", "closing", "done"}
  /\ closed \in BOOLEAN /\ leases \in Nat /\ lastDialErr \in BOOLEAN
  /\ active \in Dials \cup Conns \cup {Nil}
  /\ linkReady \in BOOLEAN /\ readyClosed \in BOOLEAN
  /\ dialDone \in Dials \cup {Nil}
  /\ dialPc \in [Dials -> {"idle", "connect", "connected", "refused", "failed",
                           "canceled", "drop"}]
  /\ ctxDone \subseteq Dials
  /\ client \in [Dials -> {"new", "ready", "lost", "closed"}]
  /\ connPc \in [Conns -> {"idle", "accept", "accepted", "ack", "connected",
                           "serving", "failed", "ensure"}]
  /\ pc \in [Callers -> {"idle", "acquire", "ensure", "wait", "parked", "client",
                         "leased", "release", "released"}]
  /\ waitClient \in [Callers -> Dials \cup {Nil}]
  /\ onReady \subseteq Callers /\ onDial \subseteq Callers /\ woken \subseteq Callers
  /\ capCancel \in [Threads -> Dials \cup {Nil}]
  /\ capClose \in [Threads -> Dials \cup {Nil}]
  /\ capConn \in Conns \cup {Nil}

\* The channel ready is closed exactly while the active link is ready: runDial
\* and connected never close it twice (which would panic), and WaitReady never
\* spins on a closed channel.
ReadyMatches ==
  ~closed => /\ readyClosed <=> linkReady
             /\ linkReady => active # Nil

\* Callers share one dial: runDial goroutines that have not come to their
\* critical section are the one dialDone stands for.
OneDial ==
  \A d \in Dials :
     dialPc[d] \in {"connect", "connected", "refused", "failed", "canceled"} <=>
       dialDone = d

\* No client is left behind with its reconnect loop: it is the active link's,
\* its dial still runs, or a goroutine is about to close it.
NoLeakedClient ==
  \A d \in Dials :
     client[d] # "closed" => \/ dialPc[d] # "idle" \/ active = d
                             \/ \E t \in Threads : capClose[t] = d

\* A dial that an inbound link made redundant is cancelled, or about to be.
RedundantDialCancelled ==
  dialing /\ active # Nil =>
    CtxDone(dialDone) \/ \E t \in Threads : capCancel[t] = dialDone

\* An inbound connection is served only as the active link: never two at a
\* time, never one beside an outbound link (until Close has taken the peer).
ServedIsActive ==
  \A c \in Conns : connPc[c] = "serving" /\ ~closed => active = c /\ linkReady

\* An outbound link is held for a lease; release and runDial leave none behind.
OutboundHasLease == active \in Dials => leases > 0

\* An established connection wins: a ready link is replaced or dropped only by
\* its own loss, by the release of the last lease, or by Close.
EstablishedWins ==
  [][linkReady /\ active' # active =>
       \/ closed'
       \/ active \in Conns /\ connPc[active] = "failed"
       \/ active \in Dials /\ (client[active] # "ready" \/ leases' = 0)]_vars

\* PeerManager.Close "stops all pending dials and closes all managed
\* connections", whatever was under way.
CloseStopsEverything ==
  (mgrPc = "closed") ~>
    /\ mgrPc = "done"
    /\ \A d \in Dials : dialPc[d] = "idle" /\ client[d] = "closed"
    /\ \A c \in Conns : connPc[c] = "idle"

\* An established inbound link is lost while the peer has a lease.
WinnerLost ==
  leases > 0 /\ linkReady /\ \E c \in Conns : active = c /\ connPc[c] = "failed"

\* A dial is under way that can become the active link.
LiveDial == \E d \in Dials : dialPc[d] \in {"connect", "connected"} /\ ~CtxDone(d)

\* What docs/peers.md says: "When the winning connection is lost, a peer with
\* an outbound lease resumes dialing."
LossResumesDialing ==
  WinnerLost ~> \/ LiveDial \/ lastDialErr \/ leases = 0 \/ mgrPc # "open"
                \/ (active # Nil /\ ~WinnerLost)

LinkUp == linkReady /\ (active \in Dials => client[active] = "ready")

\* What the comment on WaitReady says: it "waits until the peer has one active
\* physical connection."
WaitReadyReturns ==
  \A u \in Callers :
     (pc[u] = "parked" /\ LinkUp) ~> (pc[u] # "parked" \/ ~LinkUp)
-----------------------------------------------------------------------------
(***************************************************************************)
(* The inductive invariant.                                                *)
(***************************************************************************)

\* What a goroutine carries past an unlock, it carries to the next step only.
CapInv ==
  /\ \A u \in Callers :
        capCancel[u] # Nil \/ capClose[u] # Nil => pc[u] = "released"
  /\ \A c \in Conns :
        capCancel[c] # Nil \/ capClose[c] # Nil => connPc[c] = "accepted"
  /\ capCancel[Manager] # Nil \/ capClose[Manager] # Nil => mgrPc = "closing"

\* Peer.close drops the link for good; no link is no ready link; while an
\* outbound link is active nobody dials.
LinkInv ==
  /\ closed <=> mgrPc \in {"closing", "done"}
  /\ closed => active = Nil
  /\ active = Nil => ~linkReady
  /\ active \in Dials => linkReady /\ ~dialing

\* From acceptInbound to the end of its read loop a connection is the link.
ServeInv ==
  \A c \in Conns :
     /\ connPc[c] \in {"accepted", "ack", "connected", "serving"} =>
          closed \/ active = c
     /\ connPc[c] = "serving" => closed \/ linkReady

\* The strengthening that every step preserves.
IInv ==
  /\ TypeOK /\ CapInv /\ LinkInv /\ ServeInv /\ ReadyMatches /\ OneDial
  /\ NoLeakedClient /\ RedundantDialCancelled /\ OutboundHasLease
=============================================================================
