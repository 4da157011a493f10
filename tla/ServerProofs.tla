---------------------------- MODULE ServerProofs ----------------------------
(***************************************************************************)
(* Proofs about Server, for any number of listeners, connections and       *)
(* handlers: IInv is inductive, and with it the safety properties.         *)
(***************************************************************************)
EXTENDS Server, FiniteSetTheorems, TLAPS

\* What Shutdown knows of listeners and connections while they come and go.
SweepInv ==
  /\ shutPc # "idle" => shuttingDown
  /\ \A l \in Listeners : lopen[l] => l \in listeners /\ shutPc \in {"idle", "listeners"}
  /\ \A c \in Conns :
       /\ spc[c] \in {"free", "new", "refused", "gone"} \/ c \in conns
       /\ spc[c] \in {"free", "gone", "new", "refused"} => c \notin conns
       /\ spc[c] = "refused" => closed(c)
       /\ shutPc \in {"wait", "returned", "gaveUp"} =>
            spc[c] \in {"free", "new", "gone"} \/ closed(c)

\* The lifecycle goroutine runs beside the read loop, and only there.
LifeInv ==
  \A c \in Conns :
    /\ spc[c] \in {"free", "new", "refused", "handshake", "failed", "shaken"} =>
         life[c] = "none"
    /\ spc[c] = "unwind" => closing[c] = "done"
    /\ life[c] \in {"onDisconnect", "done"} => closing[c] = "done"
    /\ spc[c] = "gone" => life[c] \in {"none", "done"}

\* closeWithError empties one table after the other, and none fills again.  A
\* handler is in requests, or its context has been cancelled.
TableInv ==
  /\ \A c \in Conns :
       /\ closing[c] \in {"requests", "pending", "done"} => Of(c, streams) = {}
       /\ closing[c] \in {"pending", "done"} => Of(c, requests) = {}
       /\ spc[c] = "track" => /\ readAt[c] \in Handlers /\ ConnOf[readAt[c]] = c
                              /\ hpc[readAt[c]] = "idle"
  /\ \A h \in Handlers : hpc[h] # "idle" => h \in requests \cup cancelled

StreamKinds == {"serverStream", "clientStream", "bidiStream"}

\* Where a handler is tells whether its request is settled; a stream leaves
\* the table settled, or with its connection.
AnswerInv ==
  /\ \A c \in Conns : spc[c] = "track" => readAt[c] \in streams \/ closed(c)
  /\ \A h \in Handlers :
       /\ hpc[h] \in {"finish", "untrack"} =>
            h \in settled \/ kind[h] = "notify" \/ closed(ConnOf[h])
       /\ hpc[h] = "failed" => closed(ConnOf[h])
       /\ hpc[h] = "end" => kind[h] \in StreamKinds
       /\ /\ kind[h] \in StreamKinds
          /\ hpc[h] \in {"grant", "run", "respond", "writing", "error", "end"}
          => h \in streams \cup settled \/ closed(ConnOf[h])

Accepting == {l \in Listeners : lpc[l] = "accept"}
Serving   == {c \in Conns : spc[c] \notin {"free", "gone"}}
Working   == {h \in Handlers : hpc[h] # "idle"}

\* Server.wg counts the goroutines that Shutdown waits for.
CountInv == wg = Cardinality(Accepting) + Cardinality(Serving) + Cardinality(Working)

IInv == /\ TypeOK /\ SweepInv /\ LifeInv /\ TableInv /\ AnswerInv /\ CountInv
        /\ ShutdownComplete

\* Every step is one of these.
LEMMA NextCases ==
  ASSUME [Next]_vars
  PROVE  \/ \E l \in Listeners : SetListener(l) \/ AcceptFails(l) \/ ClearListener(l)
         \/ \E l \in Listeners, c \in Conns : Accept(l, c)
         \/ \E c \in Conns :
              \/ addConn(c) \/ Handshake(c) \/ Serve(c) \/ ReadFails(c) \/ ReadEnds(c)
              \/ trackStream(c) \/ removeConn(c) \/ Lifecycle(c) \/ CloseStreams(c)
              \/ CloseRequests(c) \/ ClosePending(c) \/ AppClose(c) \/ NotifyOne(c)
              \/ ShutdownClose(c)
         \/ \E h \in Handlers :
              \/ startRequest(h) \/ startNotify(h)
              \/ \E k \in StreamKinds : startStream(h, k)
              \/ ReadCancel(h) \/ Deadline(h) \/ Grant(h) \/ HandlerReturns(h)
              \/ Respond(h) \/ WriteResponse(h) \/ WriteControl(h) \/ HandlerFinish(h)
              \/ HandlerEnd(h)
         \/ NotifyAll \/ Shutdown \/ ShutdownListeners \/ ShutdownLock \/ ShutdownClosed
         \/ ShutdownUnlock \/ ShutdownReturn
         \/ UNCHANGED vars
  BY DEF Next, ListenStep, ServeStep, CloseStep, HandlerStep, ShutdownStep,
     startServerStream, startClientStream, startBidiStream, StreamKinds

\* Every step keeps every variable in its type.
LEMMA TypeStep ==
  ASSUME IInv, [Next]_vars
  PROVE  TypeOK'
<1> USE ServerAssumption DEF TypeOK, ListenPcs, ServePcs, HandlerPcs, AllKinds,
     StreamKinds, shutVars, lnVars, connVars, reqVars
<1>0. TypeOK /\ TableInv
  BY DEF IInv
<1>1. ASSUME NEW l \in Listeners, SetListener(l) PROVE TypeOK'
  <2>1. CASE shuttingDown
    BY <1>0, <1>1, <2>1 DEF SetListener
  <2>2. CASE ~shuttingDown
    <3>1. lopen' \in [Listeners -> BOOLEAN]
      BY ZenonT(30), <1>0, <1>1, <2>2 DEF SetListener
    <3>2. lpc' \in [Listeners -> ListenPcs] /\ listeners' \subseteq Listeners /\ wg' \in Int
      BY <1>0, <1>1, <2>2 DEF SetListener
    <3>3. QED
      BY <1>0, <1>1, <3>1, <3>2 DEF SetListener
  <2>3. QED
    BY <2>1, <2>2
<1>2. ASSUME NEW l \in Listeners, AcceptFails(l) PROVE TypeOK'
  BY <1>0, <1>2 DEF AcceptFails
<1>3. ASSUME NEW l \in Listeners, ClearListener(l) PROVE TypeOK'
  BY <1>0, <1>3 DEF ClearListener
<1>4. ASSUME NEW l \in Listeners, NEW c \in Conns, Accept(l, c) PROVE TypeOK'
  BY <1>0, <1>4 DEF Accept
<1>5. ASSUME NEW c \in Conns, addConn(c) PROVE TypeOK'
  BY <1>0, <1>5 DEF addConn, ServeGoto, BeginClose
<1>6. ASSUME NEW c \in Conns, Handshake(c) PROVE TypeOK'
  BY <1>0, <1>6 DEF Handshake, ServeGoto, BeginClose
<1>7. ASSUME NEW c \in Conns, Serve(c) PROVE TypeOK'
  BY <1>0, <1>7 DEF Serve, ServeGoto
<1>8. ASSUME NEW c \in Conns, ReadFails(c) PROVE TypeOK'
  BY <1>0, <1>8 DEF ReadFails, ServeGoto, BeginClose
<1>9. ASSUME NEW c \in Conns, ReadEnds(c) PROVE TypeOK'
  BY <1>0, <1>9 DEF ReadEnds, ServeGoto
<1>10. ASSUME NEW c \in Conns, trackStream(c) PROVE TypeOK'
  <2>1. readAt[c] \in Handlers
    BY <1>0, <1>10 DEF trackStream, TableInv
  <2>2. hpc' \in [Handlers -> HandlerPcs] /\ requests' \subseteq Handlers /\ wg' \in Int
    BY <1>0, <1>10, <2>1 DEF trackStream, trackRequest, HandlerGoto
  <2>3. spc' \in [Conns -> ServePcs] /\ readAt' \in [Conns -> Handlers \cup {Nil}]
    BY <1>0, <1>10 DEF trackStream, ServeGoto
  <2>4. kind' \in [Handlers -> AllKinds] /\ streams' \subseteq Handlers
          /\ cancelled' \subseteq Handlers
    BY <1>0, <1>10, <2>1 DEF trackStream
  <2>5. QED
    BY <1>0, <1>10, <2>2, <2>3, <2>4 DEF trackStream
<1>11. ASSUME NEW c \in Conns, removeConn(c) PROVE TypeOK'
  BY <1>0, <1>11 DEF removeConn, ServeGoto, Unwound
<1>12. ASSUME NEW c \in Conns, Lifecycle(c) PROVE TypeOK'
  BY <1>0, <1>12 DEF Lifecycle
<1>13. ASSUME NEW c \in Conns, CloseStreams(c) PROVE TypeOK'
  BY <1>0, <1>13 DEF CloseStreams, Of
<1>14. ASSUME NEW c \in Conns, CloseRequests(c) PROVE TypeOK'
  BY <1>0, <1>14 DEF CloseRequests, Of
<1>15. ASSUME NEW c \in Conns, ClosePending(c) PROVE TypeOK'
  BY <1>0, <1>15 DEF ClosePending
<1>16. ASSUME NEW c \in Conns, AppClose(c) PROVE TypeOK'
  BY <1>0, <1>16 DEF AppClose, BeginClose
<1>17. ASSUME NEW c \in Conns, NotifyOne(c) PROVE TypeOK'
  BY <1>0, <1>17 DEF NotifyOne, BeginClose
<1>18. ASSUME NEW c \in Conns, ShutdownClose(c) PROVE TypeOK'
  BY <1>0, <1>18 DEF ShutdownClose, BeginClose
<1>19. ASSUME NEW h \in Handlers, startRequest(h) PROVE TypeOK'
  BY <1>0, <1>19 DEF startRequest, Reads, SetKind, trackRequest, HandlerGoto
<1>20. ASSUME NEW h \in Handlers, startNotify(h) PROVE TypeOK'
  BY <1>0, <1>20 DEF startNotify, Reads, SetKind, trackRequest, HandlerGoto
<1>21. ASSUME NEW h \in Handlers, NEW k \in StreamKinds, startStream(h, k) PROVE TypeOK'
  BY <1>0, <1>21 DEF startStream, Reads, SetKind, addStream, ServeGoto
<1>22. ASSUME NEW h \in Handlers, ReadCancel(h) PROVE TypeOK'
  BY <1>0, <1>22 DEF ReadCancel
<1>23. ASSUME NEW h \in Handlers, Deadline(h) PROVE TypeOK'
  BY <1>0, <1>23 DEF Deadline
<1>24. ASSUME NEW h \in Handlers, Grant(h) PROVE TypeOK'
  BY <1>0, <1>24 DEF Grant, HandlerGoto, BeginClose
<1>25. ASSUME NEW h \in Handlers, HandlerReturns(h) PROVE TypeOK'
  BY <1>0, <1>25 DEF HandlerReturns, HandlerGoto
<1>26. ASSUME NEW h \in Handlers, Respond(h) PROVE TypeOK'
  BY <1>0, <1>26 DEF Respond, HandlerGoto
<1>27. ASSUME NEW h \in Handlers, WriteResponse(h) PROVE TypeOK'
  BY <1>0, <1>27 DEF WriteResponse, HandlerGoto, BeginClose
<1>28. ASSUME NEW h \in Handlers, WriteControl(h) PROVE TypeOK'
  BY <1>0, <1>28 DEF WriteControl, HandlerGoto, BeginClose
<1>29. ASSUME NEW h \in Handlers, HandlerFinish(h) PROVE TypeOK'
  BY <1>0, <1>29 DEF HandlerFinish, HandlerGoto
<1>30. ASSUME NEW h \in Handlers, HandlerEnd(h) PROVE TypeOK'
  BY <1>0, <1>30 DEF HandlerEnd, HandlerGoto
<1>31. CASE NotifyAll
  BY <1>0, <1>31 DEF NotifyAll
<1>32. CASE Shutdown
  BY <1>0, <1>32 DEF Shutdown
<1>33. CASE ShutdownListeners
  BY <1>0, <1>33 DEF ShutdownListeners
<1>34. CASE ShutdownLock
  BY <1>0, <1>34 DEF ShutdownLock
<1>35. CASE ShutdownClosed
  BY <1>0, <1>35 DEF ShutdownClosed
<1>36. CASE ShutdownUnlock
  BY <1>0, <1>36 DEF ShutdownUnlock
<1>37. CASE ShutdownReturn
  BY <1>0, <1>37 DEF ShutdownReturn
<1>38. CASE UNCHANGED vars
  BY <1>0, <1>38 DEF vars
<1> HIDE DEF TypeOK, ListenPcs, ServePcs, HandlerPcs, AllKinds, StreamKinds, shutVars,
     lnVars, connVars, reqVars
<1>39. QED
  BY ZenonT(30), <1>1, <1>2, <1>3, <1>4, <1>5, <1>6, <1>7, <1>8, <1>9, <1>10, <1>11,
     <1>12, <1>13, <1>14, <1>15, <1>16, <1>17, <1>18, <1>19, <1>20, <1>21, <1>22,
     <1>23, <1>24, <1>25, <1>26, <1>27, <1>28, <1>29, <1>30, <1>31, <1>32, <1>33,
     <1>34, <1>35, <1>36, <1>37, <1>38, NextCases

\* Nothing is opened, or served unclosed, behind Shutdown's back.
LEMMA SweepStep ==
  ASSUME IInv, [Next]_vars
  PROVE  SweepInv'
<1> USE ServerAssumption DEF TypeOK, SweepInv, closed, shutVars, lnVars, connVars,
     reqVars
<1>0. TypeOK /\ SweepInv
  BY DEF IInv
<1>1. ASSUME NEW l \in Listeners, SetListener(l) PROVE SweepInv'
  BY <1>0, <1>1 DEF SetListener
<1>2. ASSUME NEW l \in Listeners, AcceptFails(l) PROVE SweepInv'
  BY <1>0, <1>2 DEF AcceptFails
<1>3. ASSUME NEW l \in Listeners, ClearListener(l) PROVE SweepInv'
  BY <1>0, <1>3 DEF ClearListener
<1>4. ASSUME NEW l \in Listeners, NEW c \in Conns, Accept(l, c) PROVE SweepInv'
  BY <1>0, <1>4 DEF Accept
<1>5. ASSUME NEW c \in Conns, addConn(c) PROVE SweepInv'
  BY <1>0, <1>5 DEF addConn, ServeGoto, BeginClose
<1>6. ASSUME NEW c \in Conns, Handshake(c) PROVE SweepInv'
  BY <1>0, <1>6 DEF Handshake, ServeGoto, BeginClose
<1>7. ASSUME NEW c \in Conns, Serve(c) PROVE SweepInv'
  BY <1>0, <1>7 DEF Serve, ServeGoto
<1>8. ASSUME NEW c \in Conns, ReadFails(c) PROVE SweepInv'
  BY <1>0, <1>8 DEF ReadFails, ServeGoto, BeginClose
<1>9. ASSUME NEW c \in Conns, ReadEnds(c) PROVE SweepInv'
  BY <1>0, <1>9 DEF ReadEnds, ServeGoto
<1>10. ASSUME NEW c \in Conns, trackStream(c) PROVE SweepInv'
  BY <1>0, <1>10 DEF trackStream, ServeGoto, trackRequest, HandlerGoto
<1>11. ASSUME NEW c \in Conns, removeConn(c) PROVE SweepInv'
  BY <1>0, <1>11 DEF removeConn, ServeGoto, Unwound
<1>12. ASSUME NEW c \in Conns, Lifecycle(c) PROVE SweepInv'
  BY <1>0, <1>12 DEF Lifecycle
<1>13. ASSUME NEW c \in Conns, CloseStreams(c) PROVE SweepInv'
  BY <1>0, <1>13 DEF CloseStreams
<1>14. ASSUME NEW c \in Conns, CloseRequests(c) PROVE SweepInv'
  BY <1>0, <1>14 DEF CloseRequests
<1>15. ASSUME NEW c \in Conns, ClosePending(c) PROVE SweepInv'
  BY <1>0, <1>15 DEF ClosePending
<1>16. ASSUME NEW c \in Conns, AppClose(c) PROVE SweepInv'
  BY <1>0, <1>16 DEF AppClose, BeginClose
<1>17. ASSUME NEW c \in Conns, NotifyOne(c) PROVE SweepInv'
  BY <1>0, <1>17 DEF NotifyOne, BeginClose
<1>18. ASSUME NEW c \in Conns, ShutdownClose(c) PROVE SweepInv'
  BY <1>0, <1>18 DEF ShutdownClose, BeginClose
<1>19. ASSUME NEW h \in Handlers, startRequest(h) PROVE SweepInv'
  BY <1>0, <1>19 DEF startRequest, Reads, SetKind, trackRequest, HandlerGoto
<1>20. ASSUME NEW h \in Handlers, startNotify(h) PROVE SweepInv'
  BY <1>0, <1>20 DEF startNotify, Reads, SetKind, trackRequest, HandlerGoto
<1>21. ASSUME NEW h \in Handlers, NEW k \in StreamKinds, startStream(h, k) PROVE SweepInv'
  BY <1>0, <1>21 DEF startStream, Reads, SetKind, addStream, ServeGoto
<1>22. ASSUME NEW h \in Handlers, ReadCancel(h) PROVE SweepInv'
  BY <1>0, <1>22 DEF ReadCancel
<1>23. ASSUME NEW h \in Handlers, Deadline(h) PROVE SweepInv'
  BY <1>0, <1>23 DEF Deadline
<1>24. ASSUME NEW h \in Handlers, Grant(h) PROVE SweepInv'
  BY <1>0, <1>24 DEF Grant, HandlerGoto, BeginClose
<1>25. ASSUME NEW h \in Handlers, HandlerReturns(h) PROVE SweepInv'
  BY <1>0, <1>25 DEF HandlerReturns, HandlerGoto
<1>26. ASSUME NEW h \in Handlers, Respond(h) PROVE SweepInv'
  BY <1>0, <1>26 DEF Respond, HandlerGoto
<1>27. ASSUME NEW h \in Handlers, WriteResponse(h) PROVE SweepInv'
  BY <1>0, <1>27 DEF WriteResponse, HandlerGoto, BeginClose
<1>28. ASSUME NEW h \in Handlers, WriteControl(h) PROVE SweepInv'
  BY <1>0, <1>28 DEF WriteControl, HandlerGoto, BeginClose
<1>29. ASSUME NEW h \in Handlers, HandlerFinish(h) PROVE SweepInv'
  BY <1>0, <1>29 DEF HandlerFinish, HandlerGoto
<1>30. ASSUME NEW h \in Handlers, HandlerEnd(h) PROVE SweepInv'
  BY <1>0, <1>30 DEF HandlerEnd, HandlerGoto
<1>31. CASE NotifyAll
  BY <1>0, <1>31 DEF NotifyAll
<1>32. CASE Shutdown
  BY <1>0, <1>32 DEF Shutdown
<1>33. CASE ShutdownListeners
  BY ZenonT(30), <1>0, <1>33 DEF ShutdownListeners
<1>34. CASE ShutdownLock
  BY <1>0, <1>34 DEF ShutdownLock
<1>35. CASE ShutdownClosed
  BY <1>0, <1>35 DEF ShutdownClosed
<1>36. CASE ShutdownUnlock
  BY <1>0, <1>36 DEF ShutdownUnlock
<1>37. CASE ShutdownReturn
  BY <1>0, <1>37 DEF ShutdownReturn
<1>38. CASE UNCHANGED vars
  BY <1>0, <1>38 DEF vars
<1> HIDE DEF TypeOK, SweepInv, closed, shutVars, lnVars, connVars, reqVars
<1>39. QED
  BY ZenonT(30), <1>1, <1>2, <1>3, <1>4, <1>5, <1>6, <1>7, <1>8, <1>9, <1>10, <1>11,
     <1>12, <1>13, <1>14, <1>15, <1>16, <1>17, <1>18, <1>19, <1>20, <1>21, <1>22,
     <1>23, <1>24, <1>25, <1>26, <1>27, <1>28, <1>29, <1>30, <1>31, <1>32, <1>33,
     <1>34, <1>35, <1>36, <1>37, <1>38, NextCases

\* OnDisconnect waits for the read loop, and serveConn for OnDisconnect.
LEMMA LifeStep ==
  ASSUME IInv, [Next]_vars
  PROVE  LifeInv'
<1> USE ServerAssumption DEF TypeOK, LifeInv, closed, shutVars, lnVars, connVars,
     reqVars
<1>0. TypeOK /\ LifeInv
  BY DEF IInv
<1>1. ASSUME NEW l \in Listeners, SetListener(l) PROVE LifeInv'
  BY <1>0, <1>1 DEF SetListener
<1>2. ASSUME NEW l \in Listeners, AcceptFails(l) PROVE LifeInv'
  BY <1>0, <1>2 DEF AcceptFails
<1>3. ASSUME NEW l \in Listeners, ClearListener(l) PROVE LifeInv'
  BY <1>0, <1>3 DEF ClearListener
<1>4. ASSUME NEW l \in Listeners, NEW c \in Conns, Accept(l, c) PROVE LifeInv'
  BY <1>0, <1>4 DEF Accept
<1>5. ASSUME NEW c \in Conns, addConn(c) PROVE LifeInv'
  BY <1>0, <1>5 DEF addConn, ServeGoto, BeginClose
<1>6. ASSUME NEW c \in Conns, Handshake(c) PROVE LifeInv'
  BY <1>0, <1>6 DEF Handshake, ServeGoto, BeginClose
<1>7. ASSUME NEW c \in Conns, Serve(c) PROVE LifeInv'
  BY <1>0, <1>7 DEF Serve, ServeGoto
<1>8. ASSUME NEW c \in Conns, ReadFails(c) PROVE LifeInv'
  BY <1>0, <1>8 DEF ReadFails, ServeGoto, BeginClose
<1>9. ASSUME NEW c \in Conns, ReadEnds(c) PROVE LifeInv'
  BY <1>0, <1>9 DEF ReadEnds, ServeGoto
<1>10. ASSUME NEW c \in Conns, trackStream(c) PROVE LifeInv'
  BY <1>0, <1>10 DEF trackStream, ServeGoto, trackRequest, HandlerGoto
<1>11. ASSUME NEW c \in Conns, removeConn(c) PROVE LifeInv'
  BY <1>0, <1>11 DEF removeConn, ServeGoto, Unwound
<1>12. ASSUME NEW c \in Conns, Lifecycle(c) PROVE LifeInv'
  BY <1>0, <1>12 DEF Lifecycle
<1>13. ASSUME NEW c \in Conns, CloseStreams(c) PROVE LifeInv'
  BY <1>0, <1>13 DEF CloseStreams
<1>14. ASSUME NEW c \in Conns, CloseRequests(c) PROVE LifeInv'
  BY <1>0, <1>14 DEF CloseRequests
<1>15. ASSUME NEW c \in Conns, ClosePending(c) PROVE LifeInv'
  BY <1>0, <1>15 DEF ClosePending
<1>16. ASSUME NEW c \in Conns, AppClose(c) PROVE LifeInv'
  BY <1>0, <1>16 DEF AppClose, BeginClose
<1>17. ASSUME NEW c \in Conns, NotifyOne(c) PROVE LifeInv'
  BY <1>0, <1>17 DEF NotifyOne, BeginClose
<1>18. ASSUME NEW c \in Conns, ShutdownClose(c) PROVE LifeInv'
  BY <1>0, <1>18 DEF ShutdownClose, BeginClose
<1>19. ASSUME NEW h \in Handlers, startRequest(h) PROVE LifeInv'
  BY <1>0, <1>19 DEF startRequest, Reads, SetKind, trackRequest, HandlerGoto
<1>20. ASSUME NEW h \in Handlers, startNotify(h) PROVE LifeInv'
  BY <1>0, <1>20 DEF startNotify, Reads, SetKind, trackRequest, HandlerGoto
<1>21. ASSUME NEW h \in Handlers, NEW k \in StreamKinds, startStream(h, k) PROVE LifeInv'
  BY <1>0, <1>21 DEF startStream, Reads, SetKind, addStream, ServeGoto
<1>22. ASSUME NEW h \in Handlers, ReadCancel(h) PROVE LifeInv'
  BY <1>0, <1>22 DEF ReadCancel
<1>23. ASSUME NEW h \in Handlers, Deadline(h) PROVE LifeInv'
  BY <1>0, <1>23 DEF Deadline
<1>24. ASSUME NEW h \in Handlers, Grant(h) PROVE LifeInv'
  BY <1>0, <1>24 DEF Grant, HandlerGoto, BeginClose
<1>25. ASSUME NEW h \in Handlers, HandlerReturns(h) PROVE LifeInv'
  BY <1>0, <1>25 DEF HandlerReturns, HandlerGoto
<1>26. ASSUME NEW h \in Handlers, Respond(h) PROVE LifeInv'
  BY <1>0, <1>26 DEF Respond, HandlerGoto
<1>27. ASSUME NEW h \in Handlers, WriteResponse(h) PROVE LifeInv'
  BY <1>0, <1>27 DEF WriteResponse, HandlerGoto, BeginClose
<1>28. ASSUME NEW h \in Handlers, WriteControl(h) PROVE LifeInv'
  BY <1>0, <1>28 DEF WriteControl, HandlerGoto, BeginClose
<1>29. ASSUME NEW h \in Handlers, HandlerFinish(h) PROVE LifeInv'
  BY <1>0, <1>29 DEF HandlerFinish, HandlerGoto
<1>30. ASSUME NEW h \in Handlers, HandlerEnd(h) PROVE LifeInv'
  BY <1>0, <1>30 DEF HandlerEnd, HandlerGoto
<1>31. CASE NotifyAll
  BY <1>0, <1>31 DEF NotifyAll
<1>32. CASE Shutdown
  BY <1>0, <1>32 DEF Shutdown
<1>33. CASE ShutdownListeners
  BY <1>0, <1>33 DEF ShutdownListeners
<1>34. CASE ShutdownLock
  BY <1>0, <1>34 DEF ShutdownLock
<1>35. CASE ShutdownClosed
  BY <1>0, <1>35 DEF ShutdownClosed
<1>36. CASE ShutdownUnlock
  BY <1>0, <1>36 DEF ShutdownUnlock
<1>37. CASE ShutdownReturn
  BY <1>0, <1>37 DEF ShutdownReturn
<1>38. CASE UNCHANGED vars
  BY <1>0, <1>38 DEF vars
<1> HIDE DEF TypeOK, LifeInv, closed, shutVars, lnVars, connVars, reqVars
<1>39. QED
  BY ZenonT(30), <1>1, <1>2, <1>3, <1>4, <1>5, <1>6, <1>7, <1>8, <1>9, <1>10, <1>11,
     <1>12, <1>13, <1>14, <1>15, <1>16, <1>17, <1>18, <1>19, <1>20, <1>21, <1>22,
     <1>23, <1>24, <1>25, <1>26, <1>27, <1>28, <1>29, <1>30, <1>31, <1>32, <1>33,
     <1>34, <1>35, <1>36, <1>37, <1>38, NextCases

\* Tables and contexts: what closeWithError has swept stays swept.
LEMMA TableStep ==
  ASSUME IInv, [Next]_vars
  PROVE  TableInv'
<1> USE ServerAssumption DEF TypeOK, TableInv, closed, Of, shutVars, lnVars, connVars,
     reqVars
<1>0. TypeOK /\ TableInv
  BY DEF IInv
<1>1. ASSUME NEW l \in Listeners, SetListener(l) PROVE TableInv'
  BY <1>0, <1>1 DEF SetListener
<1>2. ASSUME NEW l \in Listeners, AcceptFails(l) PROVE TableInv'
  BY <1>0, <1>2 DEF AcceptFails
<1>3. ASSUME NEW l \in Listeners, ClearListener(l) PROVE TableInv'
  BY <1>0, <1>3 DEF ClearListener
<1>4. ASSUME NEW l \in Listeners, NEW c \in Conns, Accept(l, c) PROVE TableInv'
  BY <1>0, <1>4 DEF Accept
<1>5. ASSUME NEW c \in Conns, addConn(c) PROVE TableInv'
  BY <1>0, <1>5 DEF addConn, ServeGoto, BeginClose
<1>6. ASSUME NEW c \in Conns, Handshake(c) PROVE TableInv'
  BY <1>0, <1>6 DEF Handshake, ServeGoto, BeginClose
<1>7. ASSUME NEW c \in Conns, Serve(c) PROVE TableInv'
  BY <1>0, <1>7 DEF Serve, ServeGoto
<1>8. ASSUME NEW c \in Conns, ReadFails(c) PROVE TableInv'
  BY <1>0, <1>8 DEF ReadFails, ServeGoto, BeginClose
<1>9. ASSUME NEW c \in Conns, ReadEnds(c) PROVE TableInv'
  BY <1>0, <1>9 DEF ReadEnds, ServeGoto
<1>10. ASSUME NEW c \in Conns, trackStream(c) PROVE TableInv'
  BY <1>0, <1>10 DEF trackStream, ServeGoto, trackRequest, HandlerGoto
<1>11. ASSUME NEW c \in Conns, removeConn(c) PROVE TableInv'
  BY <1>0, <1>11 DEF removeConn, ServeGoto, Unwound
<1>12. ASSUME NEW c \in Conns, Lifecycle(c) PROVE TableInv'
  BY <1>0, <1>12 DEF Lifecycle
<1>13. ASSUME NEW c \in Conns, CloseStreams(c) PROVE TableInv'
  BY <1>0, <1>13 DEF CloseStreams
<1>14. ASSUME NEW c \in Conns, CloseRequests(c) PROVE TableInv'
  BY <1>0, <1>14 DEF CloseRequests
<1>15. ASSUME NEW c \in Conns, ClosePending(c) PROVE TableInv'
  BY <1>0, <1>15 DEF ClosePending
<1>16. ASSUME NEW c \in Conns, AppClose(c) PROVE TableInv'
  BY <1>0, <1>16 DEF AppClose, BeginClose
<1>17. ASSUME NEW c \in Conns, NotifyOne(c) PROVE TableInv'
  BY <1>0, <1>17 DEF NotifyOne, BeginClose
<1>18. ASSUME NEW c \in Conns, ShutdownClose(c) PROVE TableInv'
  BY <1>0, <1>18 DEF ShutdownClose, BeginClose
<1>19. ASSUME NEW h \in Handlers, startRequest(h) PROVE TableInv'
  BY <1>0, <1>19 DEF startRequest, Reads, SetKind, trackRequest, HandlerGoto
<1>20. ASSUME NEW h \in Handlers, startNotify(h) PROVE TableInv'
  BY <1>0, <1>20 DEF startNotify, Reads, SetKind, trackRequest, HandlerGoto
<1>21. ASSUME NEW h \in Handlers, NEW k \in StreamKinds, startStream(h, k) PROVE TableInv'
  BY <1>0, <1>21 DEF startStream, Reads, SetKind, addStream, ServeGoto
<1>22. ASSUME NEW h \in Handlers, ReadCancel(h) PROVE TableInv'
  BY <1>0, <1>22 DEF ReadCancel
<1>23. ASSUME NEW h \in Handlers, Deadline(h) PROVE TableInv'
  BY <1>0, <1>23 DEF Deadline
<1>24. ASSUME NEW h \in Handlers, Grant(h) PROVE TableInv'
  BY <1>0, <1>24 DEF Grant, HandlerGoto, BeginClose
<1>25. ASSUME NEW h \in Handlers, HandlerReturns(h) PROVE TableInv'
  BY <1>0, <1>25 DEF HandlerReturns, HandlerGoto
<1>26. ASSUME NEW h \in Handlers, Respond(h) PROVE TableInv'
  BY <1>0, <1>26 DEF Respond, HandlerGoto
<1>27. ASSUME NEW h \in Handlers, WriteResponse(h) PROVE TableInv'
  BY <1>0, <1>27 DEF WriteResponse, HandlerGoto, BeginClose
<1>28. ASSUME NEW h \in Handlers, WriteControl(h) PROVE TableInv'
  BY <1>0, <1>28 DEF WriteControl, HandlerGoto, BeginClose
<1>29. ASSUME NEW h \in Handlers, HandlerFinish(h) PROVE TableInv'
  BY <1>0, <1>29 DEF HandlerFinish, HandlerGoto
<1>30. ASSUME NEW h \in Handlers, HandlerEnd(h) PROVE TableInv'
  BY <1>0, <1>30 DEF HandlerEnd, HandlerGoto
<1>31. CASE NotifyAll
  BY <1>0, <1>31 DEF NotifyAll
<1>32. CASE Shutdown
  BY <1>0, <1>32 DEF Shutdown
<1>33. CASE ShutdownListeners
  BY <1>0, <1>33 DEF ShutdownListeners
<1>34. CASE ShutdownLock
  BY <1>0, <1>34 DEF ShutdownLock
<1>35. CASE ShutdownClosed
  BY <1>0, <1>35 DEF ShutdownClosed
<1>36. CASE ShutdownUnlock
  BY <1>0, <1>36 DEF ShutdownUnlock
<1>37. CASE ShutdownReturn
  BY <1>0, <1>37 DEF ShutdownReturn
<1>38. CASE UNCHANGED vars
  BY <1>0, <1>38 DEF vars
<1> HIDE DEF TypeOK, TableInv, closed, Of, shutVars, lnVars, connVars, reqVars
<1>39. QED
  BY ZenonT(30), <1>1, <1>2, <1>3, <1>4, <1>5, <1>6, <1>7, <1>8, <1>9, <1>10, <1>11,
     <1>12, <1>13, <1>14, <1>15, <1>16, <1>17, <1>18, <1>19, <1>20, <1>21, <1>22,
     <1>23, <1>24, <1>25, <1>26, <1>27, <1>28, <1>29, <1>30, <1>31, <1>32, <1>33,
     <1>34, <1>35, <1>36, <1>37, <1>38, NextCases

\* A handler that ends has settled its request.
LEMMA AnswerStep ==
  ASSUME IInv, [Next]_vars
  PROVE  AnswerInv'
<1> USE ServerAssumption DEF TypeOK, AnswerInv, StreamKinds, closed, shutVars, lnVars,
     connVars, reqVars
<1>0. TypeOK /\ TableInv /\ AnswerInv
  BY DEF IInv
<1>1. ASSUME NEW l \in Listeners, SetListener(l) PROVE AnswerInv'
  BY <1>0, <1>1 DEF SetListener
<1>2. ASSUME NEW l \in Listeners, AcceptFails(l) PROVE AnswerInv'
  BY <1>0, <1>2 DEF AcceptFails
<1>3. ASSUME NEW l \in Listeners, ClearListener(l) PROVE AnswerInv'
  BY <1>0, <1>3 DEF ClearListener
<1>4. ASSUME NEW l \in Listeners, NEW c \in Conns, Accept(l, c) PROVE AnswerInv'
  BY <1>0, <1>4 DEF Accept
<1>5. ASSUME NEW c \in Conns, addConn(c) PROVE AnswerInv'
  BY <1>0, <1>5 DEF addConn, ServeGoto, BeginClose
<1>6. ASSUME NEW c \in Conns, Handshake(c) PROVE AnswerInv'
  BY <1>0, <1>6 DEF Handshake, ServeGoto, BeginClose
<1>7. ASSUME NEW c \in Conns, Serve(c) PROVE AnswerInv'
  BY <1>0, <1>7 DEF Serve, ServeGoto
<1>8. ASSUME NEW c \in Conns, ReadFails(c) PROVE AnswerInv'
  BY <1>0, <1>8 DEF ReadFails, ServeGoto, BeginClose
<1>9. ASSUME NEW c \in Conns, ReadEnds(c) PROVE AnswerInv'
  BY <1>0, <1>9 DEF ReadEnds, ServeGoto
<1>10. ASSUME NEW c \in Conns, trackStream(c) PROVE AnswerInv'
  BY <1>0, <1>10 DEF trackStream, ServeGoto, trackRequest, HandlerGoto, TableInv, Of
<1>11. ASSUME NEW c \in Conns, removeConn(c) PROVE AnswerInv'
  BY <1>0, <1>11 DEF removeConn, ServeGoto, Unwound
<1>12. ASSUME NEW c \in Conns, Lifecycle(c) PROVE AnswerInv'
  BY <1>0, <1>12 DEF Lifecycle
<1>13. ASSUME NEW c \in Conns, CloseStreams(c) PROVE AnswerInv'
  BY <1>0, <1>13 DEF CloseStreams, TableInv, Of
<1>14. ASSUME NEW c \in Conns, CloseRequests(c) PROVE AnswerInv'
  BY <1>0, <1>14 DEF CloseRequests
<1>15. ASSUME NEW c \in Conns, ClosePending(c) PROVE AnswerInv'
  BY <1>0, <1>15 DEF ClosePending
<1>16. ASSUME NEW c \in Conns, AppClose(c) PROVE AnswerInv'
  BY <1>0, <1>16 DEF AppClose, BeginClose
<1>17. ASSUME NEW c \in Conns, NotifyOne(c) PROVE AnswerInv'
  BY <1>0, <1>17 DEF NotifyOne, BeginClose
<1>18. ASSUME NEW c \in Conns, ShutdownClose(c) PROVE AnswerInv'
  BY <1>0, <1>18 DEF ShutdownClose, BeginClose
<1>19. ASSUME NEW h \in Handlers, startRequest(h) PROVE AnswerInv'
  BY <1>0, <1>19 DEF startRequest, Reads, SetKind, trackRequest, HandlerGoto
<1>20. ASSUME NEW h \in Handlers, startNotify(h) PROVE AnswerInv'
  BY <1>0, <1>20 DEF startNotify, Reads, SetKind, trackRequest, HandlerGoto
<1>21. ASSUME NEW h \in Handlers, NEW k \in StreamKinds, startStream(h, k)
       PROVE  AnswerInv'
  BY <1>0, <1>21 DEF startStream, Reads, SetKind, addStream, ServeGoto
<1>22. ASSUME NEW h \in Handlers, ReadCancel(h) PROVE AnswerInv'
  BY <1>0, <1>22 DEF ReadCancel, TableInv, Of
<1>23. ASSUME NEW h \in Handlers, Deadline(h) PROVE AnswerInv'
  BY <1>0, <1>23 DEF Deadline, TableInv, Of
<1>24. ASSUME NEW h \in Handlers, Grant(h) PROVE AnswerInv'
  BY <1>0, <1>24 DEF Grant, HandlerGoto, BeginClose
<1>25. ASSUME NEW h \in Handlers, HandlerReturns(h) PROVE AnswerInv'
  BY <1>0, <1>25 DEF HandlerReturns, HandlerGoto
<1>26. ASSUME NEW h \in Handlers, Respond(h) PROVE AnswerInv'
  BY <1>0, <1>26 DEF Respond, HandlerGoto
<1>27. ASSUME NEW h \in Handlers, WriteResponse(h) PROVE AnswerInv'
  BY <1>0, <1>27 DEF WriteResponse, HandlerGoto, BeginClose
<1>28. ASSUME NEW h \in Handlers, WriteControl(h) PROVE AnswerInv'
  BY <1>0, <1>28 DEF WriteControl, HandlerGoto, BeginClose
<1>29. ASSUME NEW h \in Handlers, HandlerFinish(h) PROVE AnswerInv'
  BY <1>0, <1>29 DEF HandlerFinish, HandlerGoto, TableInv, Of
<1>30. ASSUME NEW h \in Handlers, HandlerEnd(h) PROVE AnswerInv'
  BY <1>0, <1>30 DEF HandlerEnd, HandlerGoto
<1>31. CASE NotifyAll
  BY <1>0, <1>31 DEF NotifyAll
<1>32. CASE Shutdown
  BY <1>0, <1>32 DEF Shutdown
<1>33. CASE ShutdownListeners
  BY <1>0, <1>33 DEF ShutdownListeners
<1>34. CASE ShutdownLock
  BY <1>0, <1>34 DEF ShutdownLock
<1>35. CASE ShutdownClosed
  BY <1>0, <1>35 DEF ShutdownClosed
<1>36. CASE ShutdownUnlock
  BY <1>0, <1>36 DEF ShutdownUnlock
<1>37. CASE ShutdownReturn
  BY <1>0, <1>37 DEF ShutdownReturn
<1>38. CASE UNCHANGED vars
  BY <1>0, <1>38 DEF vars
<1> HIDE DEF TypeOK, AnswerInv, StreamKinds, closed, shutVars, lnVars, connVars, reqVars
<1>39. QED
  BY ZenonT(30), <1>1, <1>2, <1>3, <1>4, <1>5, <1>6, <1>7, <1>8, <1>9, <1>10, <1>11,
     <1>12, <1>13, <1>14, <1>15, <1>16, <1>17, <1>18, <1>19, <1>20, <1>21, <1>22,
     <1>23, <1>24, <1>25, <1>26, <1>27, <1>28, <1>29, <1>30, <1>31, <1>32, <1>33,
     <1>34, <1>35, <1>36, <1>37, <1>38, NextCases

\* One element more, or one less.
LEMMA Added ==
  ASSUME NEW S, NEW T, NEW x, IsFiniteSet(S), x \notin S, T = S \cup {x}
  PROVE  Cardinality(T) = Cardinality(S) + 1
  BY FS_AddElement

LEMMA Removed ==
  ASSUME NEW S, NEW T, NEW x, IsFiniteSet(S), x \in S, T = S \ {x}
  PROVE  Cardinality(T) = Cardinality(S) - 1
  BY FS_RemoveElement

\* The goroutines that Server.wg counts are finitely many.
LEMMA FiniteParts == IsFiniteSet(Accepting) /\ IsFiniteSet(Serving) /\ IsFiniteSet(Working)
<1>1. Accepting \subseteq Listeners /\ Serving \subseteq Conns /\ Working \subseteq Handlers
  BY DEF Accepting, Serving, Working
<1>2. QED
  BY <1>1, FS_Subset, ServerAssumption

\* CountInv, in terms of what a step changes.
LEMMA CountKept ==
  ASSUME CountInv, wg' = wg, Accepting' = Accepting, Serving' = Serving, Working' = Working
  PROVE  CountInv'
  BY DEF CountInv

LEMMA CountUp ==
  ASSUME CountInv, wg' = wg + 1,
         \/ /\ Cardinality(Accepting') = Cardinality(Accepting) + 1
            /\ Serving' = Serving /\ Working' = Working
         \/ /\ Cardinality(Serving') = Cardinality(Serving) + 1
            /\ Accepting' = Accepting /\ Working' = Working
         \/ /\ Cardinality(Working') = Cardinality(Working) + 1
            /\ Accepting' = Accepting /\ Serving' = Serving
  PROVE  CountInv'
<1>1. Cardinality(Accepting) \in Nat /\ Cardinality(Serving) \in Nat
        /\ Cardinality(Working) \in Nat
  BY FiniteParts, FS_CardinalityType
<1>2. QED
  BY <1>1 DEF CountInv

LEMMA CountDown ==
  ASSUME CountInv, wg' = wg - 1,
         \/ /\ Cardinality(Accepting') = Cardinality(Accepting) - 1
            /\ Serving' = Serving /\ Working' = Working
         \/ /\ Cardinality(Serving') = Cardinality(Serving) - 1
            /\ Accepting' = Accepting /\ Working' = Working
         \/ /\ Cardinality(Working') = Cardinality(Working) - 1
            /\ Accepting' = Accepting /\ Serving' = Serving
  PROVE  CountInv'
<1>1. Cardinality(Accepting) \in Nat /\ Cardinality(Serving) \in Nat
        /\ Cardinality(Working) \in Nat
  BY FiniteParts, FS_CardinalityType
<1>2. QED
  BY <1>1 DEF CountInv

\* Server.wg is counted up and down with the goroutines.
LEMMA CountStep ==
  ASSUME IInv, [Next]_vars
  PROVE  CountInv'
<1> USE ServerAssumption DEF TypeOK, shutVars, lnVars, connVars, reqVars
<1>0. TypeOK /\ TableInv /\ CountInv 
        /\ IsFiniteSet(Accepting) /\ IsFiniteSet(Serving) /\ IsFiniteSet(Working)
  BY FiniteParts DEF IInv
<1>1. ASSUME NEW l \in Listeners, SetListener(l) PROVE CountInv'
  <2>1. CASE shuttingDown
    BY <1>0, <1>1, <2>1, CountKept DEF SetListener, Accepting, Serving, Working
  <2>2. CASE ~(shuttingDown)
    <3>1. l \notin Accepting /\ Accepting' = Accepting \cup {l}
      BY <1>0, <1>1, <2>2 DEF SetListener, Accepting
    <3>2. Serving' = Serving /\ Working' = Working /\ wg' = wg + 1
      BY <1>0, <1>1, <2>2 DEF SetListener, Serving, Working
    <3>3. Cardinality(Accepting') = Cardinality(Accepting) + 1
      BY <1>0, <3>1, Added
    <3>4. QED
      BY <1>0, <3>2, <3>3, CountUp
  <2>3. QED
    BY <2>1, <2>2
<1>2. ASSUME NEW l \in Listeners, AcceptFails(l) PROVE CountInv'
  <2>1. l \in Accepting /\ Accepting' = Accepting \ {l}
    BY <1>0, <1>2 DEF AcceptFails, Accepting
  <2>2. Serving' = Serving /\ Working' = Working /\ wg' = wg - 1
    BY <1>0, <1>2 DEF AcceptFails, Serving, Working
  <2>3. Cardinality(Accepting') = Cardinality(Accepting) - 1
    BY <1>0, <2>1, Removed
  <2>4. QED
    BY <1>0, <2>2, <2>3, CountDown
<1>3. ASSUME NEW l \in Listeners, ClearListener(l) PROVE CountInv'
  BY <1>0, <1>3, CountKept DEF ClearListener, Accepting, Serving, Working
<1>4. ASSUME NEW l \in Listeners, NEW c \in Conns, Accept(l, c) PROVE CountInv'
  <2>1. c \notin Serving /\ Serving' = Serving \cup {c}
    BY <1>0, <1>4 DEF Accept, Serving
  <2>2. Accepting' = Accepting /\ Working' = Working /\ wg' = wg + 1
    BY <1>0, <1>4 DEF Accept, Accepting, Working
  <2>3. Cardinality(Serving') = Cardinality(Serving) + 1
    BY <1>0, <2>1, Added
  <2>4. QED
    BY <1>0, <2>2, <2>3, CountUp
<1>5. ASSUME NEW c \in Conns, addConn(c) PROVE CountInv'
  BY <1>0, <1>5, CountKept DEF addConn, ServeGoto, BeginClose, Accepting, Serving,
       Working
<1>6. ASSUME NEW c \in Conns, Handshake(c) PROVE CountInv'
  BY <1>0, <1>6, CountKept DEF Handshake, ServeGoto, BeginClose, Accepting, Serving,
       Working
<1>7. ASSUME NEW c \in Conns, Serve(c) PROVE CountInv'
  BY <1>0, <1>7, CountKept DEF Serve, ServeGoto, Accepting, Serving, Working
<1>8. ASSUME NEW c \in Conns, ReadFails(c) PROVE CountInv'
  BY <1>0, <1>8, CountKept DEF ReadFails, ServeGoto, BeginClose, Accepting, Serving,
       Working
<1>9. ASSUME NEW c \in Conns, ReadEnds(c) PROVE CountInv'
  BY <1>0, <1>9, CountKept DEF ReadEnds, ServeGoto, Accepting, Serving, Working
<1>10. ASSUME NEW c \in Conns, trackStream(c) PROVE CountInv'
  <2>1. CASE closed(c)
    BY <1>0, <1>10, <2>1, CountKept DEF trackStream, ServeGoto, trackRequest,
         HandlerGoto, TableInv, closed, Accepting, Serving, Working
  <2>2. CASE ~(closed(c))
    <3>1. readAt[c] \notin Working /\ Working' = Working \cup {readAt[c]}
      BY <1>0, <1>10, <2>2 DEF trackStream, ServeGoto, trackRequest, HandlerGoto,
           TableInv, closed, Working
    <3>2. Accepting' = Accepting /\ Serving' = Serving /\ wg' = wg + 1
      BY <1>0, <1>10, <2>2 DEF trackStream, ServeGoto, trackRequest, HandlerGoto,
           TableInv, closed, Accepting, Serving
    <3>3. Cardinality(Working') = Cardinality(Working) + 1
      BY <1>0, <3>1, Added
    <3>4. QED
      BY <1>0, <3>2, <3>3, CountUp
  <2>3. QED
    BY <2>1, <2>2
<1>11. ASSUME NEW c \in Conns, removeConn(c) PROVE CountInv'
  <2>1. c \in Serving /\ Serving' = Serving \ {c}
    BY <1>0, <1>11 DEF removeConn, ServeGoto, Unwound, Serving
  <2>2. Accepting' = Accepting /\ Working' = Working /\ wg' = wg - 1
    BY <1>0, <1>11 DEF removeConn, ServeGoto, Unwound, Accepting, Working
  <2>3. Cardinality(Serving') = Cardinality(Serving) - 1
    BY <1>0, <2>1, Removed
  <2>4. QED
    BY <1>0, <2>2, <2>3, CountDown
<1>12. ASSUME NEW c \in Conns, Lifecycle(c) PROVE CountInv'
  BY <1>0, <1>12, CountKept DEF Lifecycle, Accepting, Serving, Working
<1>13. ASSUME NEW c \in Conns, CloseStreams(c) PROVE CountInv'
  BY <1>0, <1>13, CountKept DEF CloseStreams, Accepting, Serving, Working
<1>14. ASSUME NEW c \in Conns, CloseRequests(c) PROVE CountInv'
  BY <1>0, <1>14, CountKept DEF CloseRequests, Accepting, Serving, Working
<1>15. ASSUME NEW c \in Conns, ClosePending(c) PROVE CountInv'
  BY <1>0, <1>15, CountKept DEF ClosePending, Accepting, Serving, Working
<1>16. ASSUME NEW c \in Conns, AppClose(c) PROVE CountInv'
  BY <1>0, <1>16, CountKept DEF AppClose, BeginClose, Accepting, Serving, Working
<1>17. ASSUME NEW c \in Conns, NotifyOne(c) PROVE CountInv'
  BY <1>0, <1>17, CountKept DEF NotifyOne, BeginClose, Accepting, Serving, Working
<1>18. ASSUME NEW c \in Conns, ShutdownClose(c) PROVE CountInv'
  BY <1>0, <1>18, CountKept DEF ShutdownClose, BeginClose, Accepting, Serving, Working
<1>19. ASSUME NEW h \in Handlers, startRequest(h) PROVE CountInv'
  <2>1. CASE closed(ConnOf[h])
    BY <1>0, <1>19, <2>1, CountKept DEF startRequest, Reads, SetKind, trackRequest,
         HandlerGoto, Accepting, Serving, Working
  <2>2. CASE ~(closed(ConnOf[h]))
    <3>1. h \notin Working /\ Working' = Working \cup {h}
      BY <1>0, <1>19, <2>2 DEF startRequest, Reads, SetKind, trackRequest, HandlerGoto,
           Working
    <3>2. Accepting' = Accepting /\ Serving' = Serving /\ wg' = wg + 1
      BY <1>0, <1>19, <2>2 DEF startRequest, Reads, SetKind, trackRequest, HandlerGoto,
           Accepting, Serving
    <3>3. Cardinality(Working') = Cardinality(Working) + 1
      BY <1>0, <3>1, Added
    <3>4. QED
      BY <1>0, <3>2, <3>3, CountUp
  <2>3. QED
    BY <2>1, <2>2
<1>20. ASSUME NEW h \in Handlers, startNotify(h) PROVE CountInv'
  <2>1. CASE closed(ConnOf[h])
    BY <1>0, <1>20, <2>1, CountKept DEF startNotify, Reads, SetKind, trackRequest,
         HandlerGoto, Accepting, Serving, Working
  <2>2. CASE ~(closed(ConnOf[h]))
    <3>1. h \notin Working /\ Working' = Working \cup {h}
      BY <1>0, <1>20, <2>2 DEF startNotify, Reads, SetKind, trackRequest, HandlerGoto,
           Working
    <3>2. Accepting' = Accepting /\ Serving' = Serving /\ wg' = wg + 1
      BY <1>0, <1>20, <2>2 DEF startNotify, Reads, SetKind, trackRequest, HandlerGoto,
           Accepting, Serving
    <3>3. Cardinality(Working') = Cardinality(Working) + 1
      BY <1>0, <3>1, Added
    <3>4. QED
      BY <1>0, <3>2, <3>3, CountUp
  <2>3. QED
    BY <2>1, <2>2
<1>21. ASSUME NEW h \in Handlers, NEW k \in StreamKinds, startStream(h, k) PROVE CountInv'
  BY <1>0, <1>21, CountKept DEF startStream, Reads, SetKind, addStream, ServeGoto,
       Accepting, Serving, Working
<1>22. ASSUME NEW h \in Handlers, ReadCancel(h) PROVE CountInv'
  BY <1>0, <1>22, CountKept DEF ReadCancel, Accepting, Serving, Working
<1>23. ASSUME NEW h \in Handlers, Deadline(h) PROVE CountInv'
  BY <1>0, <1>23, CountKept DEF Deadline, Accepting, Serving, Working
<1>24. ASSUME NEW h \in Handlers, Grant(h) PROVE CountInv'
  BY <1>0, <1>24, CountKept DEF Grant, HandlerGoto, BeginClose, Accepting, Serving,
       Working
<1>25. ASSUME NEW h \in Handlers, HandlerReturns(h) PROVE CountInv'
  BY <1>0, <1>25, CountKept DEF HandlerReturns, HandlerGoto, Accepting, Serving, Working
<1>26. ASSUME NEW h \in Handlers, Respond(h) PROVE CountInv'
  BY ZenonT(30), <1>0, <1>26, CountKept DEF Respond, HandlerGoto, Accepting, Serving,
     Working
<1>27. ASSUME NEW h \in Handlers, WriteResponse(h) PROVE CountInv'
  BY ZenonT(30), <1>0, <1>27, CountKept DEF WriteResponse, HandlerGoto, BeginClose,
     Accepting, Serving, Working
<1>28. ASSUME NEW h \in Handlers, WriteControl(h) PROVE CountInv'
  BY <1>0, <1>28, CountKept DEF WriteControl, HandlerGoto, BeginClose, Accepting,
       Serving, Working
<1>29. ASSUME NEW h \in Handlers, HandlerFinish(h) PROVE CountInv'
  BY <1>0, <1>29, CountKept DEF HandlerFinish, HandlerGoto, Accepting, Serving, Working
<1>30. ASSUME NEW h \in Handlers, HandlerEnd(h) PROVE CountInv'
  <2>1. h \in Working /\ Working' = Working \ {h}
    BY <1>0, <1>30 DEF HandlerEnd, HandlerGoto, Working
  <2>2. Accepting' = Accepting /\ Serving' = Serving /\ wg' = wg - 1
    BY <1>0, <1>30 DEF HandlerEnd, HandlerGoto, Accepting, Serving
  <2>3. Cardinality(Working') = Cardinality(Working) - 1
    BY <1>0, <2>1, Removed
  <2>4. QED
    BY <1>0, <2>2, <2>3, CountDown
<1>31. CASE NotifyAll
  BY <1>0, <1>31, CountKept DEF NotifyAll, Accepting, Serving, Working
<1>32. CASE Shutdown
  BY <1>0, <1>32, CountKept DEF Shutdown, Accepting, Serving, Working
<1>33. CASE ShutdownListeners
  BY <1>0, <1>33, CountKept DEF ShutdownListeners, Accepting, Serving, Working
<1>34. CASE ShutdownLock
  BY <1>0, <1>34, CountKept DEF ShutdownLock, Accepting, Serving, Working
<1>35. CASE ShutdownClosed
  BY <1>0, <1>35, CountKept DEF ShutdownClosed, Accepting, Serving, Working
<1>36. CASE ShutdownUnlock
  BY <1>0, <1>36, CountKept DEF ShutdownUnlock, Accepting, Serving, Working
<1>37. CASE ShutdownReturn
  BY <1>0, <1>37, CountKept DEF ShutdownReturn, Accepting, Serving, Working
<1>38. CASE UNCHANGED vars
  BY ZenonT(30), <1>0, <1>38, CountKept DEF vars, Accepting, Serving, Working
<1> HIDE DEF TypeOK, shutVars, lnVars, connVars, reqVars
<1>39. QED
  BY ZenonT(30), <1>1, <1>2, <1>3, <1>4, <1>5, <1>6, <1>7, <1>8, <1>9, <1>10, <1>11,
     <1>12, <1>13, <1>14, <1>15, <1>16, <1>17, <1>18, <1>19, <1>20, <1>21, <1>22,
     <1>23, <1>24, <1>25, <1>26, <1>27, <1>28, <1>29, <1>30, <1>31, <1>32, <1>33,
     <1>34, <1>35, <1>36, <1>37, <1>38, NextCases

\* When wg.Wait returns nothing that it waited for is left, and with Shutdown begun
\* nothing starts again.
LEMMA CompleteStep ==
  ASSUME IInv, [Next]_vars
  PROVE  ShutdownComplete'
<1> USE ServerAssumption DEF TypeOK, SweepInv, LifeInv, ShutdownComplete, shutVars,
     lnVars, connVars, reqVars
<1>0. TypeOK /\ SweepInv /\ LifeInv /\ TableInv /\ CountInv /\ ShutdownComplete
  BY DEF IInv
<1>1. ASSUME NEW l \in Listeners, SetListener(l) PROVE ShutdownComplete'
  BY <1>0, <1>1 DEF SetListener
<1>2. ASSUME NEW l \in Listeners, AcceptFails(l) PROVE ShutdownComplete'
  BY ZenonT(30), <1>0, <1>2 DEF AcceptFails
<1>3. ASSUME NEW l \in Listeners, ClearListener(l) PROVE ShutdownComplete'
  BY ZenonT(30), <1>0, <1>3 DEF ClearListener
<1>4. ASSUME NEW l \in Listeners, NEW c \in Conns, Accept(l, c) PROVE ShutdownComplete'
  BY ZenonT(30), <1>0, <1>4 DEF Accept
<1>5. ASSUME NEW c \in Conns, addConn(c) PROVE ShutdownComplete'
  BY ZenonT(30), <1>0, <1>5 DEF addConn, ServeGoto, BeginClose
<1>6. ASSUME NEW c \in Conns, Handshake(c) PROVE ShutdownComplete'
  BY ZenonT(30), <1>0, <1>6 DEF Handshake, ServeGoto, BeginClose
<1>7. ASSUME NEW c \in Conns, Serve(c) PROVE ShutdownComplete'
  BY ZenonT(30), <1>0, <1>7 DEF Serve, ServeGoto
<1>8. ASSUME NEW c \in Conns, ReadFails(c) PROVE ShutdownComplete'
  BY <1>0, <1>8 DEF ReadFails, ServeGoto, BeginClose
<1>9. ASSUME NEW c \in Conns, ReadEnds(c) PROVE ShutdownComplete'
  BY ZenonT(30), <1>0, <1>9 DEF ReadEnds, ServeGoto
<1>10. ASSUME NEW c \in Conns, trackStream(c) PROVE ShutdownComplete'
  BY <1>0, <1>10 DEF trackStream, ServeGoto, trackRequest, HandlerGoto, TableInv
<1>11. ASSUME NEW c \in Conns, removeConn(c) PROVE ShutdownComplete'
  BY <1>0, <1>11 DEF removeConn, ServeGoto, Unwound
<1>12. ASSUME NEW c \in Conns, Lifecycle(c) PROVE ShutdownComplete'
  BY <1>0, <1>12 DEF Lifecycle
<1>13. ASSUME NEW c \in Conns, CloseStreams(c) PROVE ShutdownComplete'
  BY <1>0, <1>13 DEF CloseStreams
<1>14. ASSUME NEW c \in Conns, CloseRequests(c) PROVE ShutdownComplete'
  BY <1>0, <1>14 DEF CloseRequests
<1>15. ASSUME NEW c \in Conns, ClosePending(c) PROVE ShutdownComplete'
  BY <1>0, <1>15 DEF ClosePending
<1>16. ASSUME NEW c \in Conns, AppClose(c) PROVE ShutdownComplete'
  BY <1>0, <1>16 DEF AppClose, BeginClose
<1>17. ASSUME NEW c \in Conns, NotifyOne(c) PROVE ShutdownComplete'
  BY <1>0, <1>17 DEF NotifyOne, BeginClose
<1>18. ASSUME NEW c \in Conns, ShutdownClose(c) PROVE ShutdownComplete'
  BY ZenonT(30), <1>0, <1>18 DEF ShutdownClose, BeginClose
<1>19. ASSUME NEW h \in Handlers, startRequest(h) PROVE ShutdownComplete'
  BY <1>0, <1>19 DEF startRequest, Reads, SetKind, trackRequest, HandlerGoto
<1>20. ASSUME NEW h \in Handlers, startNotify(h) PROVE ShutdownComplete'
  BY <1>0, <1>20 DEF startNotify, Reads, SetKind, trackRequest, HandlerGoto
<1>21. ASSUME NEW h \in Handlers, NEW k \in StreamKinds, startStream(h, k)
       PROVE  ShutdownComplete'
  BY <1>0, <1>21 DEF startStream, Reads, SetKind, addStream, ServeGoto
<1>22. ASSUME NEW h \in Handlers, ReadCancel(h) PROVE ShutdownComplete'
  BY <1>0, <1>22 DEF ReadCancel
<1>23. ASSUME NEW h \in Handlers, Deadline(h) PROVE ShutdownComplete'
  BY <1>0, <1>23 DEF Deadline
<1>24. ASSUME NEW h \in Handlers, Grant(h) PROVE ShutdownComplete'
  BY <1>0, <1>24 DEF Grant, HandlerGoto, BeginClose
<1>25. ASSUME NEW h \in Handlers, HandlerReturns(h) PROVE ShutdownComplete'
  BY ZenonT(30), <1>0, <1>25 DEF HandlerReturns, HandlerGoto
<1>26. ASSUME NEW h \in Handlers, Respond(h) PROVE ShutdownComplete'
  BY <1>0, <1>26 DEF Respond, HandlerGoto
<1>27. ASSUME NEW h \in Handlers, WriteResponse(h) PROVE ShutdownComplete'
  BY <1>0, <1>27 DEF WriteResponse, HandlerGoto, BeginClose
<1>28. ASSUME NEW h \in Handlers, WriteControl(h) PROVE ShutdownComplete'
  BY <1>0, <1>28 DEF WriteControl, HandlerGoto, BeginClose
<1>29. ASSUME NEW h \in Handlers, HandlerFinish(h) PROVE ShutdownComplete'
  BY ZenonT(30), <1>0, <1>29 DEF HandlerFinish, HandlerGoto
<1>30. ASSUME NEW h \in Handlers, HandlerEnd(h) PROVE ShutdownComplete'
  BY ZenonT(30), <1>0, <1>30 DEF HandlerEnd, HandlerGoto
<1>31. CASE NotifyAll
  BY <1>0, <1>31 DEF NotifyAll
<1>32. CASE Shutdown
  BY <1>0, <1>32 DEF Shutdown
<1>33. CASE ShutdownListeners
  BY <1>0, <1>33 DEF ShutdownListeners
<1>34. CASE ShutdownLock
  BY <1>0, <1>34 DEF ShutdownLock
<1>35. CASE ShutdownClosed
  BY <1>0, <1>35 DEF ShutdownClosed
<1>36. CASE ShutdownUnlock
  BY <1>0, <1>36 DEF ShutdownUnlock
<1>37. CASE ShutdownReturn
  <2>1. CASE shutPc' # "returned"
    BY <2>1
  <2>2. CASE wg = 0
    <3>1. Cardinality(Accepting) = 0 /\ Cardinality(Serving) = 0 /\ Cardinality(Working) = 0
      <4>1. Cardinality(Accepting) \in Nat /\ Cardinality(Serving) \in Nat
              /\ Cardinality(Working) \in Nat
        BY FiniteParts, FS_CardinalityType
      <4>2. QED
        BY <1>0, <2>2, <4>1 DEF CountInv
    <3>2. Accepting = {} /\ Serving = {} /\ Working = {}
      BY <3>1, FiniteParts, FS_EmptySet
    <3>3. /\ \A l \in Listeners : lpc[l] # "accept"
          /\ \A c \in Conns : spc[c] \in {"free", "gone"}
          /\ \A h \in Handlers : hpc[h] = "idle"
      BY <3>2 DEF Accepting, Serving, Working
    <3>4. conns = {} /\ \A c \in Conns : life[c] \in {"none", "done"}
      BY <1>0, <3>3
    <3>5. QED
      BY <1>37, <3>3, <3>4 DEF ShutdownReturn
  <2>3. QED
    BY <1>37, <2>1, <2>2 DEF ShutdownReturn
<1>38. CASE UNCHANGED vars
  BY <1>0, <1>38 DEF vars
<1> HIDE DEF TypeOK, SweepInv, LifeInv, ShutdownComplete, shutVars, lnVars, connVars,
     reqVars
<1>39. QED
  BY ZenonT(30), <1>1, <1>2, <1>3, <1>4, <1>5, <1>6, <1>7, <1>8, <1>9, <1>10, <1>11,
     <1>12, <1>13, <1>14, <1>15, <1>16, <1>17, <1>18, <1>19, <1>20, <1>21, <1>22,
     <1>23, <1>24, <1>25, <1>26, <1>27, <1>28, <1>29, <1>30, <1>31, <1>32, <1>33,
     <1>34, <1>35, <1>36, <1>37, <1>38, NextCases

LEMMA InitInv == ASSUME Init PROVE IInv
<1> USE ServerAssumption DEF Init
<1>1. TypeOK
  <2>1. lopen \in [Listeners -> BOOLEAN] /\ shuttingDown \in BOOLEAN
    BY ZenonT(30)
  <2>2. QED
    BY <2>1 DEF TypeOK, ListenPcs, ServePcs, HandlerPcs, AllKinds
<1>2. SweepInv /\ LifeInv /\ TableInv /\ AnswerInv
  BY DEF SweepInv, LifeInv, TableInv, AnswerInv, StreamKinds, closed, Of
<1>3. CountInv
  <2>1. Accepting = {} /\ Serving = {} /\ Working = {}
    BY DEF Accepting, Serving, Working
  <2>2. QED
    BY <2>1, FS_EmptySet DEF CountInv
<1>4. ShutdownComplete
  BY DEF ShutdownComplete
<1>5. QED
  BY <1>1, <1>2, <1>3, <1>4 DEF IInv

LEMMA StepInv == ASSUME IInv, [Next]_vars PROVE IInv'
  BY TypeStep, SweepStep, LifeStep, TableStep, AnswerStep, CountStep,
       CompleteStep DEF IInv

\* The invariant behind the theorems below holds in every state, for any
\* listeners, connections and handlers: wg is exact, tables that
\* closeWithError has swept stay empty, and what Shutdown has closed stays
\* closed.
THEOREM ServerInductive == Spec => []IInv
  BY InitInv, StepInv, PTL DEF Spec

\* Type correctness of the accepting side (server.go).
THEOREM ServerTypeOK == Spec => []TypeOK
  BY ServerInductive, PTL DEF IInv

\* However late setListener, Accept and addConn run, Shutdown leaves no
\* listener open and no connection served that has not been closed.
THEOREM NothingSlipsPastShutdown == Spec => []ShutdownSweeps
<1>1. IInv => ShutdownSweeps
  BY DEF IInv, TypeOK, SweepInv, ShutdownSweeps
<1>2. QED
  BY <1>1, ServerInductive, PTL

\* When Shutdown returns nil, the goroutines that it waits for have ended,
\* and none starts again.
THEOREM ShutdownIsComplete == Spec => []ShutdownComplete
  BY ServerInductive, PTL DEF IInv

\* After closeWithError both tables of the connection are empty, and every
\* handler that still runs has a cancelled context.
THEOREM CloseSweepsTables == Spec => []CloseLeavesNothing
<1>1. IInv => CloseLeavesNothing
  BY DEF IInv, TypeOK, TableInv, CloseLeavesNothing, Of
<1>2. QED
  BY <1>1, ServerInductive, PTL

\* OnDisconnect comes after closeWithError, and before serveConn returns.
THEOREM DisconnectAfterClose == Spec => []DisconnectIsLast
<1>1. IInv => DisconnectIsLast
  BY DEF IInv, LifeInv, DisconnectIsLast
<1>2. QED
  BY <1>1, ServerInductive, PTL

\* A handler that leaves has answered its request, or had no need to.
THEOREM HandlersAnswer == Spec => []RequestsAnswered
<1>1. IInv => RequestsAnswered
  BY DEF IInv, AnswerInv, RequestsAnswered
<1>2. QED
  BY <1>1, ServerInductive, PTL

=============================================================================
