----------------------------- MODULE PeerProofs -----------------------------
(***************************************************************************)
(* Proofs about Peer, for any number of callers, connections and dials:    *)
(* IInv is inductive, and with it the safety properties of the module.     *)
(***************************************************************************)
EXTENDS Peer, TLAPS

\* The steps that touch the callers' own state only.
CallerOnly(u) ==
  \/ DialBegin(u) \/ WaitReady(u) \/ WaitWake(u) \/ WaitCancelled(u)
  \/ WaitClient(u) \/ CloseLease(u)

\* The steps that touch the control of one inbound connection only.
InboundOnly(c) == InboundHello(c) \/ HandshakeEnd(c) \/ ReadFails(c)

\* What the steps of CallerOnly and InboundOnly leave alone.
LEMMA CallerFrame ==
  ASSUME NEW u \in Callers, CallerOnly(u)
  PROVE  /\ UNCHANGED <<mgrPc, peerVars, dialVars, connPc, capVars>>
         /\ pc[u] # "released"
         /\ \E next : pc' = [pc EXCEPT ![u] = next]
  BY DEF CallerOnly, DialBegin, WaitReady, WaitWake, WaitCancelled, WaitClient,
     CloseLease

LEMMA InboundFrame ==
  ASSUME NEW c \in Conns, InboundOnly(c)
  PROVE  /\ UNCHANGED <<mgrPc, peerVars, dialVars, pc, capVars>>
         /\ connPc[c] # "accepted"
         /\ \E next \in {"accept", "connected", "failed"} :
              /\ connPc' = [connPc EXCEPT ![c] = next]
              /\ next = "connected" => connPc[c] = "ack"
  BY DEF InboundOnly, InboundHello, HandshakeEnd, ReadFails

\* Every step is one of these.
LEMMA NextCases ==
  ASSUME [Next]_vars
  PROVE  \/ \E u \in Callers :
              CallerOnly(u) \/ Acquire(u) \/ AcquireDial(u) \/ Release(u) \/ ReleaseEnd(u)
         \/ \E d \in Dials : DialReturns(d) \/ DialEnd(d) \/ DialDrop(d) \/ ClientFlips(d)
         \/ \E c \in Conns :
              InboundOnly(c) \/ AcceptInbound(c) \/ AcceptEnd(c) \/ Connected(c)
                \/ Disconnected(c) \/ DisconnectedDial(c)
         \/ ManagerClose \/ PeerClose \/ PeerCloseEnd
         \/ UNCHANGED vars
  BY DEF Next, Caller, Dialer, Inbound, CallerOnly, InboundOnly

\* ensureDial starts a dial of a free identity, or does nothing.
LEMMA EnsureType ==
  ASSUME TypeOK, EnsureDial
  PROVE  /\ dialDone' \in Dials \cup {Nil} /\ lastDialErr' \in BOOLEAN
         /\ dialPc' \in [Dials -> {"idle", "connect", "connected", "refused", "failed",
                                   "canceled", "drop"}]
         /\ ctxDone' \subseteq Dials
         /\ client' \in [Dials -> {"new", "ready", "lost", "closed"}]
<1>1. CASE NoDialWanted
  BY <1>1 DEF EnsureDial, TypeOK, dialVars
<1>2. CASE ~NoDialWanted
  BY ZenonT(30), <1>2 DEF EnsureDial, TypeOK
<1>3. QED
  BY <1>1, <1>2

\* Every step keeps every variable in its type.
LEMMA TypeStep ==
  ASSUME IInv, [Next]_vars
  PROVE  TypeOK'
<1> USE PeerAssumption DEF TypeOK, waitVars, capVars, peerVars, dialVars, Threads
<1>0. TypeOK
  BY DEF IInv
<1>1. ASSUME NEW u \in Callers, CallerOnly(u)
      PROVE  TypeOK'
  BY <1>0, <1>1 DEF CallerOnly, DialBegin, WaitReady, ViaClient, WaitWake, Unpark,
     WaitCancelled, WaitClient, CloseLease
<1>2. ASSUME NEW u \in Callers, Acquire(u)
      PROVE  TypeOK'
  <2>1. leases' \in Nat /\ lastDialErr' \in BOOLEAN
    <3>1. CASE closed
      BY <1>0, <1>2, <3>1 DEF Acquire
    <3>2. CASE ~closed
      <4>1. leases' = leases + 1
        BY <1>2, <3>2 DEF Acquire
      <4>2. ~lastDialErr' /\ lastDialErr' \in BOOLEAN
        BY ZenonT(30), <1>2, <3>2 DEF Acquire
      <4>3. QED
        BY <1>0, <4>1, <4>2
    <3>3. QED
      BY <3>1, <3>2
  <2>2. pc' \in [Callers -> {"idle", "acquire", "ensure", "wait", "parked", "client",
                             "leased", "release", "released"}]
    BY <1>0, <1>2 DEF Acquire
  <2>3. QED
    BY <1>0, <1>2, <2>1, <2>2 DEF Acquire
<1>3. ASSUME NEW u \in Callers, AcquireDial(u)
      PROVE  TypeOK'
  BY <1>0, <1>3, EnsureType DEF AcquireDial
<1>4. ASSUME NEW u \in Callers, Release(u)
      PROVE  TypeOK'
  <2>1. leases' \in Nat
    BY <1>0, <1>4 DEF Release
  <2>2. /\ capCancel' \in [Threads -> Dials \cup {Nil}]
        /\ capClose' \in [Threads -> Dials \cup {Nil}]
    BY <1>0, <1>4 DEF Release
  <2>3. /\ active' \in Dials \cup Conns \cup {Nil} /\ onReady' \subseteq Callers
        /\ linkReady' \in BOOLEAN /\ readyClosed' \in BOOLEAN
    <3>1. CASE leases' = 0 /\ active \in Dials
      BY ZenonT(30), <1>0, <1>4, <3>1 DEF Release, NewReady
    <3>2. CASE ~(leases' = 0 /\ active \in Dials)
      BY <1>0, <1>4, <3>2 DEF Release, NewReady
    <3>3. QED
      BY <3>1, <3>2
  <2>4. QED
    BY <1>0, <1>4, <2>1, <2>2, <2>3 DEF Release
<1>5. ASSUME NEW u \in Callers, ReleaseEnd(u)
      PROVE  TypeOK'
  BY <1>0, <1>5 DEF ReleaseEnd, AfterUnlock
<1>6. ASSUME NEW d \in Dials, DialReturns(d) \/ DialDrop(d) \/ ClientFlips(d)
      PROVE  TypeOK'
  BY <1>0, <1>6 DEF DialReturns, DialDrop, ClientFlips
<1>7. ASSUME NEW d \in Dials, DialEnd(d)
      PROVE  TypeOK'
  BY ZenonT(30), <1>0, <1>7 DEF DialEnd, Installs
<1>8. ASSUME NEW c \in Conns, InboundOnly(c)
      PROVE  TypeOK'
  BY <1>0, <1>8 DEF InboundOnly, InboundHello, HandshakeEnd, ReadFails
<1>9. ASSUME NEW c \in Conns, AcceptInbound(c)
      PROVE  TypeOK'
  BY ZenonT(30), <1>0, <1>9 DEF AcceptInbound, Displaced, NewReady
<1>10. ASSUME NEW c \in Conns, AcceptEnd(c)
       PROVE  TypeOK'
  BY <1>0, <1>10 DEF AcceptEnd, AfterUnlock
<1>11. ASSUME NEW c \in Conns, Connected(c) \/ Disconnected(c)
       PROVE  TypeOK'
  BY ZenonT(30), <1>0, <1>11 DEF Connected, Disconnected, NewReady
<1>12. ASSUME NEW c \in Conns, DisconnectedDial(c)
       PROVE  TypeOK'
  BY <1>0, <1>12, EnsureType DEF DisconnectedDial
<1>13. CASE ManagerClose \/ PeerClose
  <2>1. CASE ManagerClose
    BY <1>0, <2>1 DEF ManagerClose
  <2>2. CASE PeerClose
    <3>1. /\ capCancel' \in [Threads -> Dials \cup {Nil}]
          /\ capClose' \in [Threads -> Dials \cup {Nil}]
          /\ capConn' \in Conns \cup {Nil}
      BY <1>0, <2>2 DEF PeerClose
    <3>2. QED
      BY ZenonT(30), <1>0, <2>2, <3>1 DEF PeerClose
  <2>3. QED
    BY <1>13, <2>1, <2>2
<1>14. CASE PeerCloseEnd
  BY <1>0, <1>14 DEF PeerCloseEnd, AfterUnlock
<1>15. CASE UNCHANGED vars
  BY SMTT(30), <1>0, <1>15 DEF vars
<1>16. QED
  BY ZenonT(30), <1>1, <1>2, <1>3, <1>4, <1>5, <1>6, <1>7, <1>8, <1>9, <1>10, <1>11, <1>12,
     <1>13, <1>14, <1>15, NextCases

\* No goroutine starts an operation with a call of the last one outstanding.
LEMMA CapStep ==
  ASSUME IInv, [Next]_vars
  PROVE  CapInv'
<1> USE PeerAssumption DEF TypeOK, CapInv, waitVars, capVars, peerVars, dialVars, Threads
<1>0. TypeOK /\ CapInv
  BY DEF IInv
<1>1. ASSUME NEW u \in Callers, CallerOnly(u)
      PROVE  CapInv'
  BY <1>0, <1>1, CallerFrame
<1>2. ASSUME NEW u \in Callers, Acquire(u)
      PROVE  CapInv'
  BY <1>0, <1>2 DEF Acquire
<1>3. ASSUME NEW u \in Callers, AcquireDial(u)
      PROVE  CapInv'
  BY <1>0, <1>3 DEF AcquireDial, EnsureDial, NoDialWanted, dialing, Free
<1>4. ASSUME NEW u \in Callers, Release(u)
      PROVE  CapInv'
  BY <1>0, <1>4 DEF Release, NewReady
<1>5. ASSUME NEW u \in Callers, ReleaseEnd(u)
      PROVE  CapInv'
  BY <1>0, <1>5 DEF ReleaseEnd, AfterUnlock
<1>6. ASSUME NEW d \in Dials, DialReturns(d)
      PROVE  CapInv'
  BY <1>0, <1>6 DEF DialReturns
<1>7. ASSUME NEW d \in Dials, DialEnd(d)
      PROVE  CapInv'
  BY <1>0, <1>7 DEF DialEnd, Installs
<1>8. ASSUME NEW d \in Dials, DialDrop(d)
      PROVE  CapInv'
  BY <1>0, <1>8 DEF DialDrop
<1>9. ASSUME NEW d \in Dials, ClientFlips(d)
      PROVE  CapInv'
  BY <1>0, <1>9 DEF ClientFlips
<1>10. ASSUME NEW c \in Conns, InboundOnly(c)
       PROVE  CapInv'
  BY <1>0, <1>10, InboundFrame
<1>11. ASSUME NEW c \in Conns, AcceptInbound(c)
       PROVE  CapInv'
  BY <1>0, <1>11 DEF AcceptInbound, Displaced, NewReady, dialing
<1>12. ASSUME NEW c \in Conns, AcceptEnd(c)
       PROVE  CapInv'
  BY <1>0, <1>12 DEF AcceptEnd, AfterUnlock
<1>13. ASSUME NEW c \in Conns, Connected(c)
       PROVE  CapInv'
  BY <1>0, <1>13 DEF Connected
<1>14. ASSUME NEW c \in Conns, Disconnected(c)
       PROVE  CapInv'
  BY <1>0, <1>14 DEF Disconnected, NewReady
<1>15. ASSUME NEW c \in Conns, DisconnectedDial(c)
       PROVE  CapInv'
  BY <1>0, <1>15 DEF DisconnectedDial, EnsureDial, NoDialWanted, dialing, Free
<1>16. CASE ManagerClose
  BY <1>0, <1>16 DEF ManagerClose
<1>17. CASE PeerClose
  BY <1>0, <1>17 DEF PeerClose
<1>18. CASE PeerCloseEnd
  BY <1>0, <1>18 DEF PeerCloseEnd, AfterUnlock
<1>19. CASE UNCHANGED vars
  BY SMTT(30), <1>0, <1>19 DEF vars
<1>20. QED
  BY <1>1, <1>2, <1>3, <1>4, <1>5, <1>6, <1>7, <1>8, <1>9,
     <1>10, <1>11, <1>12, <1>13, <1>14, <1>15, <1>16, <1>17, <1>18, <1>19, NextCases

\* The link, the dial and Close exclude each other as LinkInv says.
LEMMA LinkStep ==
  ASSUME IInv, [Next]_vars
  PROVE  LinkInv'
<1> USE PeerAssumption DEF TypeOK, LinkInv, CtxDone, dialing, waitVars, capVars, peerVars, dialVars, Threads
<1>0. TypeOK /\ LinkInv
  BY DEF IInv
<1>1. ASSUME NEW u \in Callers, CallerOnly(u)
      PROVE  LinkInv'
  BY <1>0, <1>1, CallerFrame
<1>2. ASSUME NEW u \in Callers, Acquire(u)
      PROVE  LinkInv'
  BY <1>0, <1>2 DEF Acquire
<1>3. ASSUME NEW u \in Callers, AcquireDial(u)
      PROVE  LinkInv'
  BY <1>0, <1>3 DEF AcquireDial, EnsureDial, NoDialWanted, dialing, Free
<1>4. ASSUME NEW u \in Callers, Release(u)
      PROVE  LinkInv'
  BY <1>0, <1>4 DEF Release, NewReady
<1>5. ASSUME NEW u \in Callers, ReleaseEnd(u)
      PROVE  LinkInv'
  BY <1>0, <1>5 DEF ReleaseEnd, AfterUnlock
<1>6. ASSUME NEW d \in Dials, DialReturns(d)
      PROVE  LinkInv'
  BY <1>0, <1>6 DEF DialReturns
<1>7. ASSUME NEW d \in Dials, DialEnd(d)
      PROVE  LinkInv'
  BY ZenonT(30), <1>0, <1>7 DEF DialEnd, Installs
<1>8. ASSUME NEW d \in Dials, DialDrop(d)
      PROVE  LinkInv'
  BY <1>0, <1>8 DEF DialDrop
<1>9. ASSUME NEW d \in Dials, ClientFlips(d)
      PROVE  LinkInv'
  BY <1>0, <1>9 DEF ClientFlips
<1>10. ASSUME NEW c \in Conns, InboundOnly(c)
       PROVE  LinkInv'
  BY <1>0, <1>10, InboundFrame
<1>11. ASSUME NEW c \in Conns, AcceptInbound(c)
       PROVE  LinkInv'
  BY <1>0, <1>11 DEF AcceptInbound, Displaced, NewReady, dialing
<1>12. ASSUME NEW c \in Conns, AcceptEnd(c)
       PROVE  LinkInv'
  BY <1>0, <1>12 DEF AcceptEnd, AfterUnlock
<1>13. ASSUME NEW c \in Conns, Connected(c)
       PROVE  LinkInv'
  BY <1>0, <1>13 DEF Connected
<1>14. ASSUME NEW c \in Conns, Disconnected(c)
       PROVE  LinkInv'
  BY <1>0, <1>14 DEF Disconnected, NewReady
<1>15. ASSUME NEW c \in Conns, DisconnectedDial(c)
       PROVE  LinkInv'
  BY <1>0, <1>15 DEF DisconnectedDial, EnsureDial, NoDialWanted, dialing, Free
<1>16. CASE ManagerClose
  BY <1>0, <1>16 DEF ManagerClose
<1>17. CASE PeerClose
  BY <1>0, <1>17 DEF PeerClose
<1>18. CASE PeerCloseEnd
  BY <1>0, <1>18 DEF PeerCloseEnd, AfterUnlock
<1>19. CASE UNCHANGED vars
  BY SMTT(30), <1>0, <1>19 DEF vars
<1>20. QED
  BY <1>1, <1>2, <1>3, <1>4, <1>5, <1>6, <1>7, <1>8, <1>9,
     <1>10, <1>11, <1>12, <1>13, <1>14, <1>15, <1>16, <1>17, <1>18, <1>19, NextCases

\* A connection that is served stays the active link.
LEMMA ServeStep ==
  ASSUME IInv, [Next]_vars
  PROVE  ServeInv'
<1> USE PeerAssumption DEF TypeOK, ServeInv, LinkInv, waitVars, capVars, peerVars, dialVars, Threads
<1>0. TypeOK /\ ServeInv /\ LinkInv
  BY DEF IInv
<1>1. ASSUME NEW u \in Callers, CallerOnly(u)
      PROVE  ServeInv'
  BY <1>0, <1>1, CallerFrame
<1>2. ASSUME NEW u \in Callers, Acquire(u)
      PROVE  ServeInv'
  BY <1>0, <1>2 DEF Acquire
<1>3. ASSUME NEW u \in Callers, AcquireDial(u)
      PROVE  ServeInv'
  BY <1>0, <1>3 DEF AcquireDial, EnsureDial, NoDialWanted, dialing, Free
<1>4. ASSUME NEW u \in Callers, Release(u)
      PROVE  ServeInv'
  BY <1>0, <1>4 DEF Release, NewReady
<1>5. ASSUME NEW u \in Callers, ReleaseEnd(u)
      PROVE  ServeInv'
  BY <1>0, <1>5 DEF ReleaseEnd, AfterUnlock
<1>6. ASSUME NEW d \in Dials, DialReturns(d)
      PROVE  ServeInv'
  BY <1>0, <1>6 DEF DialReturns
<1>7. ASSUME NEW d \in Dials, DialEnd(d)
      PROVE  ServeInv'
  BY <1>0, <1>7 DEF DialEnd, Installs
<1>8. ASSUME NEW d \in Dials, DialDrop(d)
      PROVE  ServeInv'
  BY <1>0, <1>8 DEF DialDrop
<1>9. ASSUME NEW d \in Dials, ClientFlips(d)
      PROVE  ServeInv'
  BY <1>0, <1>9 DEF ClientFlips
<1>10. ASSUME NEW c \in Conns, InboundOnly(c)
       PROVE  ServeInv'
  BY <1>0, <1>10, InboundFrame
<1>11. ASSUME NEW c \in Conns, AcceptInbound(c)
       PROVE  ServeInv'
  BY <1>0, <1>11 DEF AcceptInbound, Displaced, NewReady, dialing
<1>12. ASSUME NEW c \in Conns, AcceptEnd(c)
       PROVE  ServeInv'
  BY <1>0, <1>12 DEF AcceptEnd, AfterUnlock
<1>13. ASSUME NEW c \in Conns, Connected(c)
       PROVE  ServeInv'
  BY <1>0, <1>13 DEF Connected
<1>14. ASSUME NEW c \in Conns, Disconnected(c)
       PROVE  ServeInv'
  BY <1>0, <1>14 DEF Disconnected, NewReady
<1>15. ASSUME NEW c \in Conns, DisconnectedDial(c)
       PROVE  ServeInv'
  BY <1>0, <1>15 DEF DisconnectedDial, EnsureDial, NoDialWanted, dialing, Free
<1>16. CASE ManagerClose
  BY <1>0, <1>16 DEF ManagerClose
<1>17. CASE PeerClose
  BY <1>0, <1>17 DEF PeerClose
<1>18. CASE PeerCloseEnd
  BY <1>0, <1>18 DEF PeerCloseEnd, AfterUnlock
<1>19. CASE UNCHANGED vars
  BY <1>0, <1>19 DEF vars
<1>20. QED
  BY <1>1, <1>2, <1>3, <1>4, <1>5, <1>6, <1>7, <1>8, <1>9,
     <1>10, <1>11, <1>12, <1>13, <1>14, <1>15, <1>16, <1>17, <1>18, <1>19, NextCases

\* close(p.ready) always finds an open channel.
LEMMA ReadyStep ==
  ASSUME IInv, [Next]_vars
  PROVE  ReadyMatches'
<1> USE PeerAssumption DEF TypeOK, ReadyMatches, LinkInv, waitVars, capVars, peerVars, dialVars, Threads
<1>0. TypeOK /\ ReadyMatches /\ LinkInv
  BY DEF IInv
<1>1. ASSUME NEW u \in Callers, CallerOnly(u)
      PROVE  ReadyMatches'
  BY <1>0, <1>1, CallerFrame
<1>2. ASSUME NEW u \in Callers, Acquire(u)
      PROVE  ReadyMatches'
  BY <1>0, <1>2 DEF Acquire
<1>3. ASSUME NEW u \in Callers, AcquireDial(u)
      PROVE  ReadyMatches'
  BY <1>0, <1>3 DEF AcquireDial, EnsureDial, NoDialWanted, dialing, Free
<1>4. ASSUME NEW u \in Callers, Release(u)
      PROVE  ReadyMatches'
  BY <1>0, <1>4 DEF Release, NewReady
<1>5. ASSUME NEW u \in Callers, ReleaseEnd(u)
      PROVE  ReadyMatches'
  BY <1>0, <1>5 DEF ReleaseEnd, AfterUnlock
<1>6. ASSUME NEW d \in Dials, DialReturns(d)
      PROVE  ReadyMatches'
  BY <1>0, <1>6 DEF DialReturns
<1>7. ASSUME NEW d \in Dials, DialEnd(d)
      PROVE  ReadyMatches'
  BY <1>0, <1>7 DEF DialEnd, Installs
<1>8. ASSUME NEW d \in Dials, DialDrop(d)
      PROVE  ReadyMatches'
  BY <1>0, <1>8 DEF DialDrop
<1>9. ASSUME NEW d \in Dials, ClientFlips(d)
      PROVE  ReadyMatches'
  BY <1>0, <1>9 DEF ClientFlips
<1>10. ASSUME NEW c \in Conns, InboundOnly(c)
       PROVE  ReadyMatches'
  BY <1>0, <1>10, InboundFrame
<1>11. ASSUME NEW c \in Conns, AcceptInbound(c)
       PROVE  ReadyMatches'
  BY <1>0, <1>11 DEF AcceptInbound, Displaced, NewReady, dialing
<1>12. ASSUME NEW c \in Conns, AcceptEnd(c)
       PROVE  ReadyMatches'
  BY <1>0, <1>12 DEF AcceptEnd, AfterUnlock
<1>13. ASSUME NEW c \in Conns, Connected(c)
       PROVE  ReadyMatches'
  BY <1>0, <1>13 DEF Connected
<1>14. ASSUME NEW c \in Conns, Disconnected(c)
       PROVE  ReadyMatches'
  BY <1>0, <1>14 DEF Disconnected, NewReady
<1>15. ASSUME NEW c \in Conns, DisconnectedDial(c)
       PROVE  ReadyMatches'
  BY <1>0, <1>15 DEF DisconnectedDial, EnsureDial, NoDialWanted, dialing, Free
<1>16. CASE ManagerClose
  BY <1>0, <1>16 DEF ManagerClose
<1>17. CASE PeerClose
  BY <1>0, <1>17 DEF PeerClose
<1>18. CASE PeerCloseEnd
  BY <1>0, <1>18 DEF PeerCloseEnd, AfterUnlock
<1>19. CASE UNCHANGED vars
  BY SMTT(30), <1>0, <1>19 DEF vars
<1>20. QED
  BY <1>1, <1>2, <1>3, <1>4, <1>5, <1>6, <1>7, <1>8, <1>9,
     <1>10, <1>11, <1>12, <1>13, <1>14, <1>15, <1>16, <1>17, <1>18, <1>19, NextCases

\* A second dial starts only when the first has come to its critical section.
LEMMA DialStep ==
  ASSUME IInv, [Next]_vars
  PROVE  OneDial'
<1> USE PeerAssumption DEF TypeOK, OneDial, waitVars, capVars, peerVars, dialVars, Threads
<1>0. TypeOK /\ OneDial
  BY DEF IInv
<1>1. ASSUME NEW u \in Callers, CallerOnly(u)
      PROVE  OneDial'
  BY <1>0, <1>1, CallerFrame
<1>2. ASSUME NEW u \in Callers, Acquire(u)
      PROVE  OneDial'
  BY <1>0, <1>2 DEF Acquire
<1>3. ASSUME NEW u \in Callers, AcquireDial(u)
      PROVE  OneDial'
  BY <1>0, <1>3 DEF AcquireDial, EnsureDial, NoDialWanted, dialing, Free
<1>4. ASSUME NEW u \in Callers, Release(u)
      PROVE  OneDial'
  BY <1>0, <1>4 DEF Release, NewReady
<1>5. ASSUME NEW u \in Callers, ReleaseEnd(u)
      PROVE  OneDial'
  BY <1>0, <1>5 DEF ReleaseEnd, AfterUnlock
<1>6. ASSUME NEW d \in Dials, DialReturns(d)
      PROVE  OneDial'
  BY SMTT(30), <1>0, <1>6 DEF DialReturns
<1>7. ASSUME NEW d \in Dials, DialEnd(d)
      PROVE  OneDial'
  BY <1>0, <1>7 DEF DialEnd, Installs
<1>8. ASSUME NEW d \in Dials, DialDrop(d)
      PROVE  OneDial'
  BY <1>0, <1>8 DEF DialDrop
<1>9. ASSUME NEW d \in Dials, ClientFlips(d)
      PROVE  OneDial'
  BY <1>0, <1>9 DEF ClientFlips
<1>10. ASSUME NEW c \in Conns, InboundOnly(c)
       PROVE  OneDial'
  BY SMTT(30), <1>0, <1>10, InboundFrame
<1>11. ASSUME NEW c \in Conns, AcceptInbound(c)
       PROVE  OneDial'
  BY <1>0, <1>11 DEF AcceptInbound, Displaced, NewReady, dialing
<1>12. ASSUME NEW c \in Conns, AcceptEnd(c)
       PROVE  OneDial'
  BY <1>0, <1>12 DEF AcceptEnd, AfterUnlock
<1>13. ASSUME NEW c \in Conns, Connected(c)
       PROVE  OneDial'
  BY <1>0, <1>13 DEF Connected
<1>14. ASSUME NEW c \in Conns, Disconnected(c)
       PROVE  OneDial'
  BY <1>0, <1>14 DEF Disconnected, NewReady
<1>15. ASSUME NEW c \in Conns, DisconnectedDial(c)
       PROVE  OneDial'
  BY <1>0, <1>15 DEF DisconnectedDial, EnsureDial, NoDialWanted, dialing, Free
<1>16. CASE ManagerClose
  BY <1>0, <1>16 DEF ManagerClose
<1>17. CASE PeerClose
  BY <1>0, <1>17 DEF PeerClose
<1>18. CASE PeerCloseEnd
  BY <1>0, <1>18 DEF PeerCloseEnd, AfterUnlock
<1>19. CASE UNCHANGED vars
  BY SMTT(30), <1>0, <1>19 DEF vars
<1>20. QED
  BY ZenonT(30), <1>1, <1>2, <1>3, <1>4, <1>5, <1>6, <1>7, <1>8, <1>9,
     <1>10, <1>11, <1>12, <1>13, <1>14, <1>15, <1>16, <1>17, <1>18, <1>19, NextCases

\* Whoever takes a client off its place closes it.
LEMMA LeakStep ==
  ASSUME IInv, [Next]_vars
  PROVE  NoLeakedClient'
<1> USE PeerAssumption DEF TypeOK, NoLeakedClient, LinkInv, CapInv, waitVars, capVars, peerVars, dialVars, Threads
<1>0. TypeOK /\ NoLeakedClient /\ LinkInv /\ CapInv
  BY DEF IInv
<1>1. ASSUME NEW u \in Callers, CallerOnly(u)
      PROVE  NoLeakedClient'
  BY <1>0, <1>1, CallerFrame
<1>2. ASSUME NEW u \in Callers, Acquire(u)
      PROVE  NoLeakedClient'
  BY <1>0, <1>2 DEF Acquire
<1>3. ASSUME NEW u \in Callers, AcquireDial(u)
      PROVE  NoLeakedClient'
  BY SMTT(30), <1>0, <1>3 DEF AcquireDial, EnsureDial, NoDialWanted, dialing, Free
<1>4. ASSUME NEW u \in Callers, Release(u)
      PROVE  NoLeakedClient'
  BY <1>0, <1>4 DEF Release, NewReady
<1>5. ASSUME NEW u \in Callers, ReleaseEnd(u)
      PROVE  NoLeakedClient'
  BY <1>0, <1>5 DEF ReleaseEnd, AfterUnlock
<1>6. ASSUME NEW d \in Dials, DialReturns(d)
      PROVE  NoLeakedClient'
  BY SMTT(30), <1>0, <1>6 DEF DialReturns
<1>7. ASSUME NEW d \in Dials, DialEnd(d)
      PROVE  NoLeakedClient'
  BY <1>0, <1>7 DEF DialEnd, Installs
<1>8. ASSUME NEW d \in Dials, DialDrop(d)
      PROVE  NoLeakedClient'
  BY <1>0, <1>8 DEF DialDrop
<1>9. ASSUME NEW d \in Dials, ClientFlips(d)
      PROVE  NoLeakedClient'
  BY <1>0, <1>9 DEF ClientFlips
<1>10. ASSUME NEW c \in Conns, InboundOnly(c)
       PROVE  NoLeakedClient'
  BY SMTT(30), <1>0, <1>10, InboundFrame
<1>11. ASSUME NEW c \in Conns, AcceptInbound(c)
       PROVE  NoLeakedClient'
  BY SMTT(30), <1>0, <1>11 DEF AcceptInbound, Displaced, NewReady, dialing
<1>12. ASSUME NEW c \in Conns, AcceptEnd(c)
       PROVE  NoLeakedClient'
  BY <1>0, <1>12 DEF AcceptEnd, AfterUnlock
<1>13. ASSUME NEW c \in Conns, Connected(c)
       PROVE  NoLeakedClient'
  BY SMTT(30), <1>0, <1>13 DEF Connected
<1>14. ASSUME NEW c \in Conns, Disconnected(c)
       PROVE  NoLeakedClient'
  BY SMTT(30), <1>0, <1>14 DEF Disconnected, NewReady
<1>15. ASSUME NEW c \in Conns, DisconnectedDial(c)
       PROVE  NoLeakedClient'
  BY SMTT(30), <1>0, <1>15 DEF DisconnectedDial, EnsureDial, NoDialWanted, dialing, Free
<1>16. CASE ManagerClose
  BY SMTT(30), <1>0, <1>16 DEF ManagerClose
<1>17. CASE PeerClose
  BY <1>0, <1>17 DEF PeerClose
<1>18. CASE PeerCloseEnd
  BY SMTT(30), <1>0, <1>18 DEF PeerCloseEnd, AfterUnlock
<1>19. CASE UNCHANGED vars
  BY SMTT(30), <1>0, <1>19 DEF vars
<1>20. QED
  BY ZenonT(30), <1>1, <1>2, <1>3, <1>4, <1>5, <1>6, <1>7, <1>8, <1>9,
     <1>10, <1>11, <1>12, <1>13, <1>14, <1>15, <1>16, <1>17, <1>18, <1>19, NextCases

\* A dial and a link together mean that the dial's cancel is on its way.
LEMMA RedundantStep ==
  ASSUME IInv, [Next]_vars
  PROVE  RedundantDialCancelled'
<1> USE PeerAssumption DEF TypeOK, RedundantDialCancelled, LinkInv, CapInv, CtxDone, dialing, waitVars, capVars, peerVars, dialVars, Threads
<1>0. TypeOK /\ RedundantDialCancelled /\ LinkInv /\ CapInv
  BY DEF IInv
<1>1. ASSUME NEW u \in Callers, CallerOnly(u)
      PROVE  RedundantDialCancelled'
  BY SMTT(30), <1>0, <1>1, CallerFrame
<1>2. ASSUME NEW u \in Callers, Acquire(u)
      PROVE  RedundantDialCancelled'
  BY SMTT(30), <1>0, <1>2 DEF Acquire
<1>3. ASSUME NEW u \in Callers, AcquireDial(u)
      PROVE  RedundantDialCancelled'
  BY SMTT(30), <1>0, <1>3 DEF AcquireDial, EnsureDial, NoDialWanted, dialing, Free
<1>4. ASSUME NEW u \in Callers, Release(u)
      PROVE  RedundantDialCancelled'
  BY SMTT(30), <1>0, <1>4 DEF Release, NewReady
<1>5. ASSUME NEW u \in Callers, ReleaseEnd(u)
      PROVE  RedundantDialCancelled'
  BY SMTT(30), <1>0, <1>5 DEF ReleaseEnd, AfterUnlock
<1>6. ASSUME NEW d \in Dials, DialReturns(d)
      PROVE  RedundantDialCancelled'
  BY SMTT(30), <1>0, <1>6 DEF DialReturns
<1>7. ASSUME NEW d \in Dials, DialEnd(d)
      PROVE  RedundantDialCancelled'
  BY SMTT(30), <1>0, <1>7 DEF DialEnd, Installs
<1>8. ASSUME NEW d \in Dials, DialDrop(d)
      PROVE  RedundantDialCancelled'
  BY SMTT(30), <1>0, <1>8 DEF DialDrop
<1>9. ASSUME NEW d \in Dials, ClientFlips(d)
      PROVE  RedundantDialCancelled'
  BY SMTT(30), <1>0, <1>9 DEF ClientFlips
<1>10. ASSUME NEW c \in Conns, InboundOnly(c)
       PROVE  RedundantDialCancelled'
  BY SMTT(30), <1>0, <1>10, InboundFrame
<1>11. ASSUME NEW c \in Conns, AcceptInbound(c)
       PROVE  RedundantDialCancelled'
  BY SMTT(30), <1>0, <1>11 DEF AcceptInbound, Displaced, NewReady, dialing
<1>12. ASSUME NEW c \in Conns, AcceptEnd(c)
       PROVE  RedundantDialCancelled'
  BY SMTT(30), <1>0, <1>12 DEF AcceptEnd, AfterUnlock
<1>13. ASSUME NEW c \in Conns, Connected(c)
       PROVE  RedundantDialCancelled'
  BY SMTT(30), <1>0, <1>13 DEF Connected
<1>14. ASSUME NEW c \in Conns, Disconnected(c)
       PROVE  RedundantDialCancelled'
  BY SMTT(30), <1>0, <1>14 DEF Disconnected, NewReady
<1>15. ASSUME NEW c \in Conns, DisconnectedDial(c)
       PROVE  RedundantDialCancelled'
  BY SMTT(30), <1>0, <1>15 DEF DisconnectedDial, EnsureDial, NoDialWanted, dialing, Free
<1>16. CASE ManagerClose
  BY SMTT(30), <1>0, <1>16 DEF ManagerClose
<1>17. CASE PeerClose
  BY SMTT(30), <1>0, <1>17 DEF PeerClose
<1>18. CASE PeerCloseEnd
  BY SMTT(30), <1>0, <1>18 DEF PeerCloseEnd, AfterUnlock
<1>19. CASE UNCHANGED vars
  BY <1>0, <1>19 DEF vars
<1>20. QED
  BY ZenonT(30), <1>1, <1>2, <1>3, <1>4, <1>5, <1>6, <1>7, <1>8, <1>9,
     <1>10, <1>11, <1>12, <1>13, <1>14, <1>15, <1>16, <1>17, <1>18, <1>19, NextCases

\* The last release takes the outbound link; runDial installs none without a lease.
LEMMA LeaseStep ==
  ASSUME IInv, [Next]_vars
  PROVE  OutboundHasLease'
<1> USE PeerAssumption DEF TypeOK, OutboundHasLease, waitVars, capVars, peerVars, dialVars, Threads
<1>0. TypeOK /\ OutboundHasLease
  BY DEF IInv
<1>1. ASSUME NEW u \in Callers, CallerOnly(u)
      PROVE  OutboundHasLease'
  BY <1>0, <1>1, CallerFrame
<1>2. ASSUME NEW u \in Callers, Acquire(u)
      PROVE  OutboundHasLease'
  BY SMTT(30), <1>0, <1>2 DEF Acquire
<1>3. ASSUME NEW u \in Callers, AcquireDial(u)
      PROVE  OutboundHasLease'
  BY SMTT(30), <1>0, <1>3 DEF AcquireDial, EnsureDial, NoDialWanted, dialing, Free
<1>4. ASSUME NEW u \in Callers, Release(u)
      PROVE  OutboundHasLease'
  BY SMTT(30), <1>0, <1>4 DEF Release, NewReady
<1>5. ASSUME NEW u \in Callers, ReleaseEnd(u)
      PROVE  OutboundHasLease'
  BY SMTT(30), <1>0, <1>5 DEF ReleaseEnd, AfterUnlock
<1>6. ASSUME NEW d \in Dials, DialReturns(d)
      PROVE  OutboundHasLease'
  BY SMTT(30), <1>0, <1>6 DEF DialReturns
<1>7. ASSUME NEW d \in Dials, DialEnd(d)
      PROVE  OutboundHasLease'
  BY SMTT(30), <1>0, <1>7 DEF DialEnd, Installs
<1>8. ASSUME NEW d \in Dials, DialDrop(d)
      PROVE  OutboundHasLease'
  BY <1>0, <1>8 DEF DialDrop
<1>9. ASSUME NEW d \in Dials, ClientFlips(d)
      PROVE  OutboundHasLease'
  BY <1>0, <1>9 DEF ClientFlips
<1>10. ASSUME NEW c \in Conns, InboundOnly(c)
       PROVE  OutboundHasLease'
  BY SMTT(30), <1>0, <1>10, InboundFrame
<1>11. ASSUME NEW c \in Conns, AcceptInbound(c)
       PROVE  OutboundHasLease'
  BY SMTT(30), <1>0, <1>11 DEF AcceptInbound, Displaced, NewReady, dialing
<1>12. ASSUME NEW c \in Conns, AcceptEnd(c)
       PROVE  OutboundHasLease'
  BY SMTT(30), <1>0, <1>12 DEF AcceptEnd, AfterUnlock
<1>13. ASSUME NEW c \in Conns, Connected(c)
       PROVE  OutboundHasLease'
  BY SMTT(30), <1>0, <1>13 DEF Connected
<1>14. ASSUME NEW c \in Conns, Disconnected(c)
       PROVE  OutboundHasLease'
  BY SMTT(30), <1>0, <1>14 DEF Disconnected, NewReady
<1>15. ASSUME NEW c \in Conns, DisconnectedDial(c)
       PROVE  OutboundHasLease'
  BY <1>0, <1>15 DEF DisconnectedDial, EnsureDial, NoDialWanted, dialing, Free
<1>16. CASE ManagerClose
  BY SMTT(30), <1>0, <1>16 DEF ManagerClose
<1>17. CASE PeerClose
  BY SMTT(30), <1>0, <1>17 DEF PeerClose
<1>18. CASE PeerCloseEnd
  BY SMTT(30), <1>0, <1>18 DEF PeerCloseEnd, AfterUnlock
<1>19. CASE UNCHANGED vars
  BY SMTT(30), <1>0, <1>19 DEF vars
<1>20. QED
  BY SMTT(30), <1>1, <1>2, <1>3, <1>4, <1>5, <1>6, <1>7, <1>8, <1>9,
     <1>10, <1>11, <1>12, <1>13, <1>14, <1>15, <1>16, <1>17, <1>18, <1>19, NextCases

LEMMA InitInv ==
  ASSUME Init
  PROVE  IInv
  BY ZenonT(30), PeerAssumption DEF Init, IInv, TypeOK, CapInv, LinkInv, ServeInv,
     ReadyMatches, OneDial, NoLeakedClient, RedundantDialCancelled, OutboundHasLease,
     Threads, dialing

LEMMA StepInv ==
  ASSUME IInv, [Next]_vars
  PROVE  IInv'
  BY TypeStep, CapStep, LinkStep, ServeStep, ReadyStep, DialStep, LeakStep, RedundantStep,
     LeaseStep DEF IInv

\* IInv is an invariant of the peer (peer.go), whatever the number of callers,
\* connections and dials and whichever side the names prefer.
THEOREM PeerInductive == Spec => []IInv
  BY InitInv, StepInv, PTL DEF Spec

\* The ready channel is never closed twice: it is closed exactly while the
\* active link is ready (runDial, connected, disconnected, release,
\* acceptInbound).
THEOREM ReadyIsExact == Spec => []ReadyMatches
<1>1. IInv => ReadyMatches
  BY DEF IInv
<1>2. QED
  BY <1>1, PeerInductive, PTL

\* The callers of Dial share one runDial goroutine at a time (ensureDial).
THEOREM DialsAreShared == Spec => []OneDial
<1>1. IInv => OneDial
  BY DEF IInv
<1>2. QED
  BY <1>1, PeerInductive, PTL

\* No Client survives without an owner that uses or closes it.
THEOREM ClientsAreOwned == Spec => []NoLeakedClient
<1>1. IInv => NoLeakedClient
  BY DEF IInv
<1>2. QED
  BY <1>1, PeerInductive, PTL

\* A dial made redundant by an inbound link is cancelled (acceptInbound).
THEOREM RedundantDialsEnd == Spec => []RedundantDialCancelled
<1>1. IInv => RedundantDialCancelled
  BY DEF IInv
<1>2. QED
  BY <1>1, PeerInductive, PTL

\* An accepted connection is served only while it is the peer's one link.
THEOREM OneLinkServed == Spec => []ServedIsActive
<1>1. IInv => ServedIsActive
  BY DEF IInv, ServeInv, ServedIsActive
<1>2. QED
  BY <1>1, PeerInductive, PTL

\* An outbound link never outlives the last lease (release, runDial).
THEOREM LinksAreLeased == Spec => []OutboundHasLease
<1>1. IInv => OutboundHasLease
  BY DEF IInv
<1>2. QED
  BY <1>1, PeerInductive, PTL

\* A step that takes a ready link away has one of the three reasons.
LEMMA LinkLeaves ==
  ASSUME IInv, [Next]_vars, linkReady, active' # active
  PROVE  \/ closed'
         \/ active \in Conns /\ connPc[active] = "failed"
         \/ active \in Dials /\ (client[active] # "ready" \/ leases' = 0)
<1> USE PeerAssumption DEF TypeOK, LinkInv, peerVars, dialVars
<1>0. TypeOK /\ LinkInv
  BY DEF IInv
<1>1. ASSUME NEW u \in Callers, Release(u)
      PROVE  active \in Dials /\ leases' = 0
  BY ZenonT(30), <1>1 DEF Release
<1>2. ASSUME NEW d \in Dials, DialEnd(d)
      PROVE  FALSE
  BY <1>0, <1>2 DEF DialEnd, Installs
<1>3. ASSUME NEW c \in Conns, AcceptInbound(c)
      PROVE  active \in Dials /\ client[active] # "ready"
  BY <1>0, <1>3 DEF AcceptInbound, Displaced
<1>4. ASSUME NEW c \in Conns, Disconnected(c)
      PROVE  active \in Conns /\ connPc[active] = "failed"
  BY ZenonT(30), <1>4 DEF Disconnected
<1>5. CASE PeerClose
  BY <1>5 DEF PeerClose
<1>6. ASSUME NEW u \in Callers, CallerOnly(u) \/ Acquire(u) \/ AcquireDial(u) \/ ReleaseEnd(u)
      PROVE  FALSE
  BY ZenonT(30), <1>6, CallerFrame DEF Acquire, AcquireDial, ReleaseEnd
<1>7. ASSUME NEW d \in Dials, DialReturns(d) \/ DialDrop(d) \/ ClientFlips(d)
      PROVE  FALSE
  BY ZenonT(30), <1>7 DEF DialReturns, DialDrop, ClientFlips
<1>8. ASSUME NEW c \in Conns,
             InboundOnly(c) \/ AcceptEnd(c) \/ Connected(c) \/ DisconnectedDial(c)
      PROVE  FALSE
  BY ZenonT(30), <1>8, InboundFrame DEF AcceptEnd, Connected, DisconnectedDial
<1>9. CASE ManagerClose \/ PeerCloseEnd \/ UNCHANGED vars
  BY ZenonT(30), <1>9 DEF ManagerClose, PeerCloseEnd, vars
<1>10. QED
  BY ZenonT(30), <1>1, <1>2, <1>3, <1>4, <1>5, <1>6, <1>7, <1>8, <1>9, NextCases

\* An established connection always wins over later attempts (acceptInbound,
\* runDial); only its loss, the last release or Close ends it.
THEOREM EstablishedLinkWins == Spec => EstablishedWins
<1>1. IInv /\ [Next]_vars =>
        [linkReady /\ active' # active =>
           \/ closed'
           \/ active \in Conns /\ connPc[active] = "failed"
           \/ active \in Dials /\ (client[active] # "ready" \/ leases' = 0)]_vars
  BY LinkLeaves
<1>2. QED
  BY <1>1, PeerInductive, PTL DEF Spec, EstablishedWins
=============================================================================
