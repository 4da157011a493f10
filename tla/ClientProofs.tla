---------------------------- MODULE ClientProofs ----------------------------
(***************************************************************************)
(* Proofs about Client, for any number of connections, goroutines in       *)
(* Connect and calls: IInv is inductive, and with it the safety properties.*)
(***************************************************************************)
EXTENDS Client, TLAPS

InGate == {"check", "dial", "set", "refused", "found", "leave", "leaveFailed"}
InAttempt == {"gate", "check", "dial", "set", "refused", "leaveFailed", "failed"}

\* connectGate lets in one attempt at a time, and whoever is past the check
\* of connectOnce dials for a client that has no connection.
GateInv ==
  \A t \in Threads :
    /\ cpc[t] \in InGate => gate = t
    /\ cpc[t] \in {"dial", "set"} => conn = Nil

\* The channel ready is closed exactly while there is a connection, and for
\* good by closeWithError.  connectionLost has unlinked what it fails.
ReadyInv ==
  /\ closePc \in {"open", "closed"} => (readyClosed <=> conn # Nil)
  /\ closePc \in {"unlinked", "done"} => conn = Nil /\ readyClosed
  /\ losing # Nil => conn = Nil

\* A call is in the pending map from addPending to its result, and then has a
\* connection that is current or being lost.
CallInv ==
  \A i \in Calls :
    /\ pc[i] \in {"idle", "parked", "add"} => i \notin pending /\ slot[i] = "empty"
    /\ i \in pending => pc[i] \in {"write", "writing", "wait"} /\ slot[i] = "empty"
    /\ pc[i] \in {"write", "writing", "wait"} /\ slot[i] = "empty" => i \in pending
    /\ pc[i] \in {"add", "write", "writing", "wait", "failed"} => at[i] # Nil
    /\ pc[i] \in {"writing", "wait"} /\ slot[i] = "empty" =>
         at[i] \in {conn, losing} \/ closePc \in {"closed", "unlinked"}

\* A loss is on its way to the reconnect loop, or has reached it.
Noticed == reconnectCh \/ losing # Nil \/ signalling # {} \/ cpc[Loop] \in InAttempt

\* The loop that a successful Connect is about to start will hear of a loss.
LoopInv ==
  \A t \in Threads : /\ cpc[t] \in {"found", "leave"} \/ (t = Loop /\ cpc[t] # "off")
                     /\ conn = Nil /\ ~closed
                     => Noticed

IInv == TypeOK /\ GateInv /\ ReadyInv /\ NoStaleWaiter /\ CallInv /\ LossIsLocal /\ LoopInv

\* Every step is one of these.
LEMMA NextCases ==
  ASSUME [Next]_vars
  PROVE  \/ \E t \in Threads :
              \/ Connect(t) \/ GateRefused(t) \/ EnterGate(t) \/ ConnectCheck(t)
              \/ DialEnds(t) \/ SetConn(t) \/ ConnectLeave(t) \/ ConnectRetry(t)
         \/ LoopWake
         \/ \E k \in Conns : signalReconnect(k) \/ PingTimeout(k) \/ ReadFails(k)
                              \/ ReadCheck(k) \/ complete(k)
         \/ LoseFailPending \/ CloseClosed \/ CloseUnlink \/ CloseFailPending
         \/ \E f \in Conns \X Calls : ReadFrame(f)
         \/ \E i \in Calls :
              \/ WaitConn(i) \/ WaitAgain(i) \/ addPending(i) \/ WriteCheck(i)
              \/ WriteOk(i) \/ WriteFails(i) \/ handleWriteError(i) \/ Receive(i)
              \/ SeesClosed(i) \/ SendCancel(i) \/ WaitGivesUp(i) \/ GiveUp(i)
         \/ UNCHANGED vars
  BY DEF Next, ConnectStep, CallStep, CloseStep

\* Every step keeps every variable in its type.
LEMMA TypeStep ==
  ASSUME IInv, [Next]_vars
  PROVE  TypeOK'
<1> USE ClientAssumption DEF TypeOK, ConnectPcs, CallPcs, Threads, linkVars, loopVars,
     readVars, callVars
<1>0. TypeOK /\ CallInv
  BY DEF IInv
<1>1. ASSUME NEW t \in Threads, Connect(t) PROVE TypeOK'
  BY <1>0, <1>1 DEF Connect, StartLoop
<1>2. ASSUME NEW t \in Threads, GateRefused(t) PROVE TypeOK'
  BY <1>0, <1>2 DEF GateRefused
<1>3. ASSUME NEW t \in Threads, EnterGate(t) PROVE TypeOK'
  BY <1>0, <1>3 DEF EnterGate
<1>4. ASSUME NEW t \in Threads, ConnectCheck(t) PROVE TypeOK'
  BY <1>0, <1>4 DEF ConnectCheck
<1>5. ASSUME NEW t \in Threads, DialEnds(t) PROVE TypeOK'
  BY <1>0, <1>5 DEF DialEnds
<1>6. ASSUME NEW t \in Threads, SetConn(t) PROVE TypeOK'
  BY <1>0, <1>6 DEF SetConn, CloseReady, Free
<1>7. ASSUME NEW t \in Threads, ConnectLeave(t) PROVE TypeOK'
  BY <1>0, <1>7 DEF ConnectLeave, StartLoop
<1>8. ASSUME NEW t \in Threads, ConnectRetry(t) PROVE TypeOK'
  BY <1>0, <1>8 DEF ConnectRetry
<1>9. CASE LoopWake
  BY <1>0, <1>9 DEF LoopWake
<1>10. ASSUME NEW k \in Conns, signalReconnect(k) PROVE TypeOK'
  BY <1>0, <1>10 DEF signalReconnect
<1>11. ASSUME NEW k \in Conns, PingTimeout(k) PROVE TypeOK'
  BY <1>0, <1>11 DEF PingTimeout, Lose, Without
<1>12. ASSUME NEW k \in Conns, ReadFails(k) PROVE TypeOK'
  BY <1>0, <1>12 DEF ReadFails, Lose, Without
<1>13. ASSUME NEW k \in Conns, ReadCheck(k) PROVE TypeOK'
  BY <1>0, <1>13 DEF ReadCheck
<1>14. ASSUME NEW k \in Conns, complete(k) PROVE TypeOK'
  BY <1>0, <1>14 DEF complete
<1>15. CASE LoseFailPending
  BY <1>0, <1>15 DEF LoseFailPending, failPending
<1>16. CASE CloseClosed
  BY <1>0, <1>16 DEF CloseClosed
<1>17. CASE CloseUnlink
  BY <1>0, <1>17 DEF CloseUnlink, CloseReady, Without
<1>18. CASE CloseFailPending
  BY <1>0, <1>18 DEF CloseFailPending, failPending
<1>19. ASSUME NEW f \in Conns \X Calls, ReadFrame(f) PROVE TypeOK'
  BY <1>0, <1>19 DEF ReadFrame
<1>20. ASSUME NEW i \in Calls, WaitConn(i) PROVE TypeOK'
  BY <1>0, <1>20 DEF WaitConn, Goto, Return
<1>21. ASSUME NEW i \in Calls, WaitAgain(i) PROVE TypeOK'
  BY <1>0, <1>21 DEF WaitAgain, Goto
<1>22. ASSUME NEW i \in Calls, addPending(i) PROVE TypeOK'
  BY <1>0, <1>22 DEF addPending, Goto, Return
<1>23. ASSUME NEW i \in Calls, WriteCheck(i) PROVE TypeOK'
  BY <1>0, <1>23 DEF WriteCheck, Goto, Return
<1>24. ASSUME NEW i \in Calls, WriteOk(i) PROVE TypeOK'
  BY <1>0, <1>24 DEF WriteOk, Goto, CallInv
<1>25. ASSUME NEW i \in Calls, WriteFails(i) PROVE TypeOK'
  BY <1>0, <1>25 DEF WriteFails, Goto
<1>26. ASSUME NEW i \in Calls, handleWriteError(i) PROVE TypeOK'
  BY <1>0, <1>26 DEF handleWriteError, Return, Lose, Without
<1>27. ASSUME NEW i \in Calls, Receive(i) PROVE TypeOK'
  BY <1>0, <1>27 DEF Receive, Return
<1>28. ASSUME NEW i \in Calls, SeesClosed(i) PROVE TypeOK'
  BY <1>0, <1>28 DEF SeesClosed, Return
<1>29. ASSUME NEW i \in Calls, SendCancel(i) PROVE TypeOK'
  BY <1>0, <1>29 DEF SendCancel, Return
<1>30. ASSUME NEW i \in Calls, WaitGivesUp(i) PROVE TypeOK'
  BY <1>0, <1>30 DEF WaitGivesUp, Return
<1>31. ASSUME NEW i \in Calls, GiveUp(i) PROVE TypeOK'
  BY <1>0, <1>31 DEF GiveUp, Goto
<1>32. CASE UNCHANGED vars
  BY <1>0, <1>32 DEF vars
<1> HIDE DEF TypeOK, ConnectPcs, CallPcs, Threads, linkVars, loopVars, readVars,
     callVars
<1>33. QED
  BY <1>1, <1>2, <1>3, <1>4, <1>5, <1>6, <1>7, <1>8, <1>9, <1>10, <1>11,
     <1>12, <1>13, <1>14, <1>15, <1>16, <1>17, <1>18, <1>19, <1>20, <1>21, <1>22,
     <1>23, <1>24, <1>25, <1>26, <1>27, <1>28, <1>29, <1>30, <1>31, <1>32, NextCases

\* One attempt at a time is in connectGate.
LEMMA GateStep ==
  ASSUME IInv, [Next]_vars
  PROVE  GateInv'
<1> USE ClientAssumption DEF TypeOK, GateInv, InGate, Threads, closed, connMu,
     linkVars, loopVars, readVars, callVars
<1>0. TypeOK /\ GateInv /\ ReadyInv
  BY DEF IInv
<1>1. ASSUME NEW t \in Threads, Connect(t) PROVE GateInv'
  BY <1>0, <1>1 DEF Connect, StartLoop
<1>2. ASSUME NEW t \in Threads, GateRefused(t) PROVE GateInv'
  BY <1>0, <1>2 DEF GateRefused
<1>3. ASSUME NEW t \in Threads, EnterGate(t) PROVE GateInv'
  BY <1>0, <1>3 DEF EnterGate
<1>4. ASSUME NEW t \in Threads, ConnectCheck(t) PROVE GateInv'
  BY <1>0, <1>4 DEF ConnectCheck
<1>5. ASSUME NEW t \in Threads, DialEnds(t) PROVE GateInv'
  BY <1>0, <1>5 DEF DialEnds
<1>6. ASSUME NEW t \in Threads, SetConn(t) PROVE GateInv'
  BY <1>0, <1>6 DEF SetConn, CloseReady, Free
<1>7. ASSUME NEW t \in Threads, ConnectLeave(t) PROVE GateInv'
  BY <1>0, <1>7 DEF ConnectLeave, StartLoop
<1>8. ASSUME NEW t \in Threads, ConnectRetry(t) PROVE GateInv'
  BY <1>0, <1>8 DEF ConnectRetry
<1>9. CASE LoopWake
  BY <1>0, <1>9 DEF LoopWake
<1>10. ASSUME NEW k \in Conns, signalReconnect(k) PROVE GateInv'
  BY <1>0, <1>10 DEF signalReconnect
<1>11. ASSUME NEW k \in Conns, PingTimeout(k) PROVE GateInv'
  BY <1>0, <1>11 DEF PingTimeout, Lose, Without
<1>12. ASSUME NEW k \in Conns, ReadFails(k) PROVE GateInv'
  BY <1>0, <1>12 DEF ReadFails, Lose, Without
<1>13. ASSUME NEW k \in Conns, ReadCheck(k) PROVE GateInv'
  BY <1>0, <1>13 DEF ReadCheck
<1>14. ASSUME NEW k \in Conns, complete(k) PROVE GateInv'
  BY <1>0, <1>14 DEF complete
<1>15. CASE LoseFailPending
  BY <1>0, <1>15 DEF LoseFailPending, failPending
<1>16. CASE CloseClosed
  BY <1>0, <1>16 DEF CloseClosed
<1>17. CASE CloseUnlink
  BY <1>0, <1>17 DEF CloseUnlink, CloseReady, Without
<1>18. CASE CloseFailPending
  BY <1>0, <1>18 DEF CloseFailPending, failPending
<1>19. ASSUME NEW f \in Conns \X Calls, ReadFrame(f) PROVE GateInv'
  BY <1>0, <1>19 DEF ReadFrame
<1>20. ASSUME NEW i \in Calls, WaitConn(i) PROVE GateInv'
  BY <1>0, <1>20 DEF WaitConn, Goto, Return
<1>21. ASSUME NEW i \in Calls, WaitAgain(i) PROVE GateInv'
  BY <1>0, <1>21 DEF WaitAgain, Goto
<1>22. ASSUME NEW i \in Calls, addPending(i) PROVE GateInv'
  BY <1>0, <1>22 DEF addPending, Goto, Return
<1>23. ASSUME NEW i \in Calls, WriteCheck(i) PROVE GateInv'
  BY <1>0, <1>23 DEF WriteCheck, Goto, Return
<1>24. ASSUME NEW i \in Calls, WriteOk(i) PROVE GateInv'
  BY <1>0, <1>24 DEF WriteOk, Goto
<1>25. ASSUME NEW i \in Calls, WriteFails(i) PROVE GateInv'
  BY <1>0, <1>25 DEF WriteFails, Goto
<1>26. ASSUME NEW i \in Calls, handleWriteError(i) PROVE GateInv'
  BY <1>0, <1>26 DEF handleWriteError, Return, Lose, Without
<1>27. ASSUME NEW i \in Calls, Receive(i) PROVE GateInv'
  BY <1>0, <1>27 DEF Receive, Return
<1>28. ASSUME NEW i \in Calls, SeesClosed(i) PROVE GateInv'
  BY <1>0, <1>28 DEF SeesClosed, Return
<1>29. ASSUME NEW i \in Calls, SendCancel(i) PROVE GateInv'
  BY <1>0, <1>29 DEF SendCancel, Return
<1>30. ASSUME NEW i \in Calls, WaitGivesUp(i) PROVE GateInv'
  BY <1>0, <1>30 DEF WaitGivesUp, Return
<1>31. ASSUME NEW i \in Calls, GiveUp(i) PROVE GateInv'
  BY <1>0, <1>31 DEF GiveUp, Goto
<1>32. CASE UNCHANGED vars
  BY <1>0, <1>32 DEF vars
<1> HIDE DEF TypeOK, GateInv, InGate, Threads, closed, connMu, linkVars, loopVars,
     readVars, callVars
<1>33. QED
  BY <1>1, <1>2, <1>3, <1>4, <1>5, <1>6, <1>7, <1>8, <1>9, <1>10, <1>11,
     <1>12, <1>13, <1>14, <1>15, <1>16, <1>17, <1>18, <1>19, <1>20, <1>21, <1>22,
     <1>23, <1>24, <1>25, <1>26, <1>27, <1>28, <1>29, <1>30, <1>31, <1>32, NextCases

\* ready is closed while there is a connection.
LEMMA ReadyStep ==
  ASSUME IInv, [Next]_vars
  PROVE  ReadyInv'
<1> USE ClientAssumption DEF TypeOK, ReadyInv, closed, connMu, linkVars, loopVars,
     readVars, callVars
<1>0. TypeOK /\ GateInv /\ ReadyInv /\ CallInv
  BY DEF IInv
<1>1. ASSUME NEW t \in Threads, Connect(t) PROVE ReadyInv'
  BY <1>0, <1>1 DEF Connect, StartLoop
<1>2. ASSUME NEW t \in Threads, GateRefused(t) PROVE ReadyInv'
  BY <1>0, <1>2 DEF GateRefused
<1>3. ASSUME NEW t \in Threads, EnterGate(t) PROVE ReadyInv'
  BY <1>0, <1>3 DEF EnterGate
<1>4. ASSUME NEW t \in Threads, ConnectCheck(t) PROVE ReadyInv'
  BY <1>0, <1>4 DEF ConnectCheck
<1>5. ASSUME NEW t \in Threads, DialEnds(t) PROVE ReadyInv'
  BY <1>0, <1>5 DEF DialEnds
<1>6. ASSUME NEW t \in Threads, SetConn(t) PROVE ReadyInv'
  BY <1>0, <1>6 DEF SetConn, CloseReady, Free, GateInv
<1>7. ASSUME NEW t \in Threads, ConnectLeave(t) PROVE ReadyInv'
  BY <1>0, <1>7 DEF ConnectLeave, StartLoop
<1>8. ASSUME NEW t \in Threads, ConnectRetry(t) PROVE ReadyInv'
  BY <1>0, <1>8 DEF ConnectRetry
<1>9. CASE LoopWake
  BY <1>0, <1>9 DEF LoopWake
<1>10. ASSUME NEW k \in Conns, signalReconnect(k) PROVE ReadyInv'
  BY <1>0, <1>10 DEF signalReconnect
<1>11. ASSUME NEW k \in Conns, PingTimeout(k) PROVE ReadyInv'
  BY <1>0, <1>11 DEF PingTimeout, Lose, Without
<1>12. ASSUME NEW k \in Conns, ReadFails(k) PROVE ReadyInv'
  BY <1>0, <1>12 DEF ReadFails, Lose, Without
<1>13. ASSUME NEW k \in Conns, ReadCheck(k) PROVE ReadyInv'
  BY <1>0, <1>13 DEF ReadCheck
<1>14. ASSUME NEW k \in Conns, complete(k) PROVE ReadyInv'
  BY <1>0, <1>14 DEF complete
<1>15. CASE LoseFailPending
  BY <1>0, <1>15 DEF LoseFailPending, failPending
<1>16. CASE CloseClosed
  BY <1>0, <1>16 DEF CloseClosed
<1>17. CASE CloseUnlink
  BY <1>0, <1>17 DEF CloseUnlink, CloseReady, Without
<1>18. CASE CloseFailPending
  BY <1>0, <1>18 DEF CloseFailPending, failPending
<1>19. ASSUME NEW f \in Conns \X Calls, ReadFrame(f) PROVE ReadyInv'
  BY <1>0, <1>19 DEF ReadFrame
<1>20. ASSUME NEW i \in Calls, WaitConn(i) PROVE ReadyInv'
  BY <1>0, <1>20 DEF WaitConn, Goto, Return
<1>21. ASSUME NEW i \in Calls, WaitAgain(i) PROVE ReadyInv'
  BY <1>0, <1>21 DEF WaitAgain, Goto
<1>22. ASSUME NEW i \in Calls, addPending(i) PROVE ReadyInv'
  BY <1>0, <1>22 DEF addPending, Goto, Return
<1>23. ASSUME NEW i \in Calls, WriteCheck(i) PROVE ReadyInv'
  BY <1>0, <1>23 DEF WriteCheck, Goto, Return
<1>24. ASSUME NEW i \in Calls, WriteOk(i) PROVE ReadyInv'
  BY <1>0, <1>24 DEF WriteOk, Goto
<1>25. ASSUME NEW i \in Calls, WriteFails(i) PROVE ReadyInv'
  BY <1>0, <1>25 DEF WriteFails, Goto
<1>26. ASSUME NEW i \in Calls, handleWriteError(i) PROVE ReadyInv'
  BY <1>0, <1>26 DEF handleWriteError, Return, Lose, Without, CallInv
<1>27. ASSUME NEW i \in Calls, Receive(i) PROVE ReadyInv'
  BY <1>0, <1>27 DEF Receive, Return
<1>28. ASSUME NEW i \in Calls, SeesClosed(i) PROVE ReadyInv'
  BY <1>0, <1>28 DEF SeesClosed, Return
<1>29. ASSUME NEW i \in Calls, SendCancel(i) PROVE ReadyInv'
  BY <1>0, <1>29 DEF SendCancel, Return
<1>30. ASSUME NEW i \in Calls, WaitGivesUp(i) PROVE ReadyInv'
  BY <1>0, <1>30 DEF WaitGivesUp, Return
<1>31. ASSUME NEW i \in Calls, GiveUp(i) PROVE ReadyInv'
  BY <1>0, <1>31 DEF GiveUp, Goto
<1>32. CASE UNCHANGED vars
  BY <1>0, <1>32 DEF vars
<1> HIDE DEF TypeOK, ReadyInv, closed, connMu, linkVars, loopVars, readVars, callVars
<1>33. QED
  BY <1>1, <1>2, <1>3, <1>4, <1>5, <1>6, <1>7, <1>8, <1>9, <1>10, <1>11,
     <1>12, <1>13, <1>14, <1>15, <1>16, <1>17, <1>18, <1>19, <1>20, <1>21, <1>22,
     <1>23, <1>24, <1>25, <1>26, <1>27, <1>28, <1>29, <1>30, <1>31, <1>32, NextCases

\* Whoever waits for a connection waits for the present channel.
LEMMA WaiterStep ==
  ASSUME IInv, [Next]_vars
  PROVE  NoStaleWaiter'
<1> USE ClientAssumption DEF TypeOK, ReadyInv, NoStaleWaiter, linkVars, loopVars,
     readVars, callVars
<1>0. TypeOK /\ ReadyInv /\ NoStaleWaiter /\ CallInv
  BY DEF IInv
<1>1. ASSUME NEW t \in Threads, Connect(t) PROVE NoStaleWaiter'
  BY <1>0, <1>1 DEF Connect, StartLoop
<1>2. ASSUME NEW t \in Threads, GateRefused(t) PROVE NoStaleWaiter'
  BY <1>0, <1>2 DEF GateRefused
<1>3. ASSUME NEW t \in Threads, EnterGate(t) PROVE NoStaleWaiter'
  BY <1>0, <1>3 DEF EnterGate
<1>4. ASSUME NEW t \in Threads, ConnectCheck(t) PROVE NoStaleWaiter'
  BY <1>0, <1>4 DEF ConnectCheck
<1>5. ASSUME NEW t \in Threads, DialEnds(t) PROVE NoStaleWaiter'
  BY <1>0, <1>5 DEF DialEnds
<1>6. ASSUME NEW t \in Threads, SetConn(t) PROVE NoStaleWaiter'
  BY <1>0, <1>6 DEF SetConn, CloseReady, Free
<1>7. ASSUME NEW t \in Threads, ConnectLeave(t) PROVE NoStaleWaiter'
  BY <1>0, <1>7 DEF ConnectLeave, StartLoop
<1>8. ASSUME NEW t \in Threads, ConnectRetry(t) PROVE NoStaleWaiter'
  BY <1>0, <1>8 DEF ConnectRetry
<1>9. CASE LoopWake
  BY <1>0, <1>9 DEF LoopWake
<1>10. ASSUME NEW k \in Conns, signalReconnect(k) PROVE NoStaleWaiter'
  BY <1>0, <1>10 DEF signalReconnect
<1>11. ASSUME NEW k \in Conns, PingTimeout(k) PROVE NoStaleWaiter'
  BY <1>0, <1>11 DEF PingTimeout, Lose, Without
<1>12. ASSUME NEW k \in Conns, ReadFails(k) PROVE NoStaleWaiter'
  BY <1>0, <1>12 DEF ReadFails, Lose, Without
<1>13. ASSUME NEW k \in Conns, ReadCheck(k) PROVE NoStaleWaiter'
  BY <1>0, <1>13 DEF ReadCheck
<1>14. ASSUME NEW k \in Conns, complete(k) PROVE NoStaleWaiter'
  BY <1>0, <1>14 DEF complete
<1>15. CASE LoseFailPending
  BY <1>0, <1>15 DEF LoseFailPending, failPending
<1>16. CASE CloseClosed
  BY <1>0, <1>16 DEF CloseClosed
<1>17. CASE CloseUnlink
  BY <1>0, <1>17 DEF CloseUnlink, CloseReady, Without
<1>18. CASE CloseFailPending
  BY <1>0, <1>18 DEF CloseFailPending, failPending
<1>19. ASSUME NEW f \in Conns \X Calls, ReadFrame(f) PROVE NoStaleWaiter'
  BY <1>0, <1>19 DEF ReadFrame
<1>20. ASSUME NEW i \in Calls, WaitConn(i) PROVE NoStaleWaiter'
  BY <1>0, <1>20 DEF WaitConn, Goto, Return
<1>21. ASSUME NEW i \in Calls, WaitAgain(i) PROVE NoStaleWaiter'
  BY <1>0, <1>21 DEF WaitAgain, Goto
<1>22. ASSUME NEW i \in Calls, addPending(i) PROVE NoStaleWaiter'
  BY <1>0, <1>22 DEF addPending, Goto, Return
<1>23. ASSUME NEW i \in Calls, WriteCheck(i) PROVE NoStaleWaiter'
  BY <1>0, <1>23 DEF WriteCheck, Goto, Return
<1>24. ASSUME NEW i \in Calls, WriteOk(i) PROVE NoStaleWaiter'
  BY <1>0, <1>24 DEF WriteOk, Goto
<1>25. ASSUME NEW i \in Calls, WriteFails(i) PROVE NoStaleWaiter'
  BY <1>0, <1>25 DEF WriteFails, Goto
<1>26. ASSUME NEW i \in Calls, handleWriteError(i) PROVE NoStaleWaiter'
  BY <1>0, <1>26 DEF handleWriteError, Return, Lose, Without, CallInv
<1>27. ASSUME NEW i \in Calls, Receive(i) PROVE NoStaleWaiter'
  BY <1>0, <1>27 DEF Receive, Return
<1>28. ASSUME NEW i \in Calls, SeesClosed(i) PROVE NoStaleWaiter'
  BY <1>0, <1>28 DEF SeesClosed, Return
<1>29. ASSUME NEW i \in Calls, SendCancel(i) PROVE NoStaleWaiter'
  BY <1>0, <1>29 DEF SendCancel, Return
<1>30. ASSUME NEW i \in Calls, WaitGivesUp(i) PROVE NoStaleWaiter'
  BY <1>0, <1>30 DEF WaitGivesUp, Return
<1>31. ASSUME NEW i \in Calls, GiveUp(i) PROVE NoStaleWaiter'
  BY <1>0, <1>31 DEF GiveUp, Goto
<1>32. CASE UNCHANGED vars
  BY <1>0, <1>32 DEF vars
<1> HIDE DEF TypeOK, ReadyInv, NoStaleWaiter, linkVars, loopVars, readVars, callVars
<1>33. QED
  BY <1>1, <1>2, <1>3, <1>4, <1>5, <1>6, <1>7, <1>8, <1>9, <1>10, <1>11,
     <1>12, <1>13, <1>14, <1>15, <1>16, <1>17, <1>18, <1>19, <1>20, <1>21, <1>22,
     <1>23, <1>24, <1>25, <1>26, <1>27, <1>28, <1>29, <1>30, <1>31, <1>32, NextCases

\* The pending map and the calls.
LEMMA CallStepInv ==
  ASSUME IInv, [Next]_vars
  PROVE  CallInv'
<1> USE ClientAssumption DEF TypeOK, ReadyInv, CallInv, closed, connMu, linkVars,
     loopVars, readVars, callVars
<1>0. TypeOK /\ GateInv /\ ReadyInv /\ CallInv
  BY DEF IInv
<1>1. ASSUME NEW t \in Threads, Connect(t) PROVE CallInv'
  BY <1>0, <1>1 DEF Connect, StartLoop
<1>2. ASSUME NEW t \in Threads, GateRefused(t) PROVE CallInv'
  BY <1>0, <1>2 DEF GateRefused
<1>3. ASSUME NEW t \in Threads, EnterGate(t) PROVE CallInv'
  BY <1>0, <1>3 DEF EnterGate
<1>4. ASSUME NEW t \in Threads, ConnectCheck(t) PROVE CallInv'
  BY <1>0, <1>4 DEF ConnectCheck
<1>5. ASSUME NEW t \in Threads, DialEnds(t) PROVE CallInv'
  BY <1>0, <1>5 DEF DialEnds
<1>6. ASSUME NEW t \in Threads, SetConn(t) PROVE CallInv'
  BY <1>0, <1>6 DEF SetConn, CloseReady, Free, GateInv
<1>7. ASSUME NEW t \in Threads, ConnectLeave(t) PROVE CallInv'
  BY <1>0, <1>7 DEF ConnectLeave, StartLoop
<1>8. ASSUME NEW t \in Threads, ConnectRetry(t) PROVE CallInv'
  BY <1>0, <1>8 DEF ConnectRetry
<1>9. CASE LoopWake
  BY <1>0, <1>9 DEF LoopWake
<1>10. ASSUME NEW k \in Conns, signalReconnect(k) PROVE CallInv'
  BY <1>0, <1>10 DEF signalReconnect
<1>11. ASSUME NEW k \in Conns, PingTimeout(k) PROVE CallInv'
  BY <1>0, <1>11 DEF PingTimeout, Lose, Without
<1>12. ASSUME NEW k \in Conns, ReadFails(k) PROVE CallInv'
  BY <1>0, <1>12 DEF ReadFails, Lose, Without
<1>13. ASSUME NEW k \in Conns, ReadCheck(k) PROVE CallInv'
  BY <1>0, <1>13 DEF ReadCheck
<1>14. ASSUME NEW k \in Conns, complete(k) PROVE CallInv'
  BY <1>0, <1>14 DEF complete
<1>15. CASE LoseFailPending
  BY <1>0, <1>15 DEF LoseFailPending, failPending
<1>16. CASE CloseClosed
  BY <1>0, <1>16 DEF CloseClosed
<1>17. CASE CloseUnlink
  BY <1>0, <1>17 DEF CloseUnlink, CloseReady, Without
<1>18. CASE CloseFailPending
  BY <1>0, <1>18 DEF CloseFailPending, failPending
<1>19. ASSUME NEW f \in Conns \X Calls, ReadFrame(f) PROVE CallInv'
  BY <1>0, <1>19 DEF ReadFrame
<1>20. ASSUME NEW i \in Calls, WaitConn(i) PROVE CallInv'
  BY <1>0, <1>20 DEF WaitConn, Goto, Return
<1>21. ASSUME NEW i \in Calls, WaitAgain(i) PROVE CallInv'
  BY <1>0, <1>21 DEF WaitAgain, Goto
<1>22. ASSUME NEW i \in Calls, addPending(i) PROVE CallInv'
  BY <1>0, <1>22 DEF addPending, Goto, Return
<1>23. ASSUME NEW i \in Calls, WriteCheck(i) PROVE CallInv'
  BY <1>0, <1>23 DEF WriteCheck, Goto, Return
<1>24. ASSUME NEW i \in Calls, WriteOk(i) PROVE CallInv'
  BY <1>0, <1>24 DEF WriteOk, Goto
<1>25. ASSUME NEW i \in Calls, WriteFails(i) PROVE CallInv'
  BY <1>0, <1>25 DEF WriteFails, Goto
<1>26. ASSUME NEW i \in Calls, handleWriteError(i) PROVE CallInv'
  BY <1>0, <1>26 DEF handleWriteError, Return, Lose, Without
<1>27. ASSUME NEW i \in Calls, Receive(i) PROVE CallInv'
  BY <1>0, <1>27 DEF Receive, Return
<1>28. ASSUME NEW i \in Calls, SeesClosed(i) PROVE CallInv'
  BY <1>0, <1>28 DEF SeesClosed, Return
<1>29. ASSUME NEW i \in Calls, SendCancel(i) PROVE CallInv'
  BY <1>0, <1>29 DEF SendCancel, Return
<1>30. ASSUME NEW i \in Calls, WaitGivesUp(i) PROVE CallInv'
  BY <1>0, <1>30 DEF WaitGivesUp, Return
<1>31. ASSUME NEW i \in Calls, GiveUp(i) PROVE CallInv'
  BY <1>0, <1>31 DEF GiveUp, Goto
<1>32. CASE UNCHANGED vars
  BY <1>0, <1>32 DEF vars
<1> HIDE DEF TypeOK, ReadyInv, CallInv, closed, connMu, linkVars, loopVars, readVars,
     callVars
<1>33. QED
  BY <1>1, <1>2, <1>3, <1>4, <1>5, <1>6, <1>7, <1>8, <1>9, <1>10, <1>11,
     <1>12, <1>13, <1>14, <1>15, <1>16, <1>17, <1>18, <1>19, <1>20, <1>21, <1>22,
     <1>23, <1>24, <1>25, <1>26, <1>27, <1>28, <1>29, <1>30, <1>31, <1>32, NextCases

\* What a loss fails stays on the connection that was lost.
LEMMA LossStep ==
  ASSUME IInv, [Next]_vars
  PROVE  LossIsLocal'
<1> USE ClientAssumption DEF TypeOK, ReadyInv, LossIsLocal, connMu, linkVars, loopVars,
     readVars, callVars
<1>0. TypeOK /\ ReadyInv /\ CallInv /\ LossIsLocal
  BY DEF IInv
<1>1. ASSUME NEW t \in Threads, Connect(t) PROVE LossIsLocal'
  BY <1>0, <1>1 DEF Connect, StartLoop
<1>2. ASSUME NEW t \in Threads, GateRefused(t) PROVE LossIsLocal'
  BY <1>0, <1>2 DEF GateRefused
<1>3. ASSUME NEW t \in Threads, EnterGate(t) PROVE LossIsLocal'
  BY <1>0, <1>3 DEF EnterGate
<1>4. ASSUME NEW t \in Threads, ConnectCheck(t) PROVE LossIsLocal'
  BY <1>0, <1>4 DEF ConnectCheck
<1>5. ASSUME NEW t \in Threads, DialEnds(t) PROVE LossIsLocal'
  BY <1>0, <1>5 DEF DialEnds
<1>6. ASSUME NEW t \in Threads, SetConn(t) PROVE LossIsLocal'
  BY <1>0, <1>6 DEF SetConn, CloseReady, Free
<1>7. ASSUME NEW t \in Threads, ConnectLeave(t) PROVE LossIsLocal'
  BY <1>0, <1>7 DEF ConnectLeave, StartLoop
<1>8. ASSUME NEW t \in Threads, ConnectRetry(t) PROVE LossIsLocal'
  BY <1>0, <1>8 DEF ConnectRetry
<1>9. CASE LoopWake
  BY <1>0, <1>9 DEF LoopWake
<1>10. ASSUME NEW k \in Conns, signalReconnect(k) PROVE LossIsLocal'
  BY <1>0, <1>10 DEF signalReconnect
<1>11. ASSUME NEW k \in Conns, PingTimeout(k) PROVE LossIsLocal'
  BY <1>0, <1>11 DEF PingTimeout, Lose, Without, CallInv
<1>12. ASSUME NEW k \in Conns, ReadFails(k) PROVE LossIsLocal'
  BY <1>0, <1>12 DEF ReadFails, Lose, Without, CallInv
<1>13. ASSUME NEW k \in Conns, ReadCheck(k) PROVE LossIsLocal'
  BY <1>0, <1>13 DEF ReadCheck
<1>14. ASSUME NEW k \in Conns, complete(k) PROVE LossIsLocal'
  BY <1>0, <1>14 DEF complete
<1>15. CASE LoseFailPending
  BY <1>0, <1>15 DEF LoseFailPending, failPending, CallInv
<1>16. CASE CloseClosed
  BY <1>0, <1>16 DEF CloseClosed
<1>17. CASE CloseUnlink
  BY <1>0, <1>17 DEF CloseUnlink, CloseReady, Without, CallInv
<1>18. CASE CloseFailPending
  BY <1>0, <1>18 DEF CloseFailPending, failPending, CallInv
<1>19. ASSUME NEW f \in Conns \X Calls, ReadFrame(f) PROVE LossIsLocal'
  BY <1>0, <1>19 DEF ReadFrame
<1>20. ASSUME NEW i \in Calls, WaitConn(i) PROVE LossIsLocal'
  BY <1>0, <1>20 DEF WaitConn, Goto, Return
<1>21. ASSUME NEW i \in Calls, WaitAgain(i) PROVE LossIsLocal'
  BY <1>0, <1>21 DEF WaitAgain, Goto
<1>22. ASSUME NEW i \in Calls, addPending(i) PROVE LossIsLocal'
  BY <1>0, <1>22 DEF addPending, Goto, Return, CallInv
<1>23. ASSUME NEW i \in Calls, WriteCheck(i) PROVE LossIsLocal'
  BY <1>0, <1>23 DEF WriteCheck, Goto, Return, CallInv
<1>24. ASSUME NEW i \in Calls, WriteOk(i) PROVE LossIsLocal'
  BY <1>0, <1>24 DEF WriteOk, Goto
<1>25. ASSUME NEW i \in Calls, WriteFails(i) PROVE LossIsLocal'
  BY <1>0, <1>25 DEF WriteFails, Goto
<1>26. ASSUME NEW i \in Calls, handleWriteError(i) PROVE LossIsLocal'
  BY <1>0, <1>26 DEF handleWriteError, Return, Lose, Without, CallInv
<1>27. ASSUME NEW i \in Calls, Receive(i) PROVE LossIsLocal'
  BY <1>0, <1>27 DEF Receive, Return
<1>28. ASSUME NEW i \in Calls, SeesClosed(i) PROVE LossIsLocal'
  BY <1>0, <1>28 DEF SeesClosed, Return
<1>29. ASSUME NEW i \in Calls, SendCancel(i) PROVE LossIsLocal'
  BY <1>0, <1>29 DEF SendCancel, Return
<1>30. ASSUME NEW i \in Calls, WaitGivesUp(i) PROVE LossIsLocal'
  BY <1>0, <1>30 DEF WaitGivesUp, Return
<1>31. ASSUME NEW i \in Calls, GiveUp(i) PROVE LossIsLocal'
  BY <1>0, <1>31 DEF GiveUp, Goto
<1>32. CASE UNCHANGED vars
  BY <1>0, <1>32 DEF vars
<1> HIDE DEF TypeOK, ReadyInv, LossIsLocal, connMu, linkVars, loopVars, readVars,
     callVars
<1>33. QED
  BY <1>1, <1>2, <1>3, <1>4, <1>5, <1>6, <1>7, <1>8, <1>9, <1>10, <1>11,
     <1>12, <1>13, <1>14, <1>15, <1>16, <1>17, <1>18, <1>19, <1>20, <1>21, <1>22,
     <1>23, <1>24, <1>25, <1>26, <1>27, <1>28, <1>29, <1>30, <1>31, <1>32, NextCases

\* The reconnect loop hears of every loss.
LEMMA LoopStep ==
  ASSUME IInv, [Next]_vars
  PROVE  LoopInv'
<1> USE ClientAssumption DEF TypeOK, LoopInv, Noticed, InAttempt, Threads, closed,
     connMu, linkVars, loopVars, readVars, callVars
<1>0. TypeOK /\ GateInv /\ ReadyInv /\ CallInv /\ LoopInv
  BY DEF IInv
<1>1. ASSUME NEW t \in Threads, Connect(t) PROVE LoopInv'
  BY <1>0, <1>1 DEF Connect, StartLoop
<1>2. ASSUME NEW t \in Threads, GateRefused(t) PROVE LoopInv'
  BY <1>0, <1>2 DEF GateRefused
<1>3. ASSUME NEW t \in Threads, EnterGate(t) PROVE LoopInv'
  BY <1>0, <1>3 DEF EnterGate
<1>4. ASSUME NEW t \in Threads, ConnectCheck(t) PROVE LoopInv'
  BY <1>0, <1>4 DEF ConnectCheck
<1>5. ASSUME NEW t \in Threads, DialEnds(t) PROVE LoopInv'
  BY <1>0, <1>5 DEF DialEnds
<1>6. ASSUME NEW t \in Threads, SetConn(t) PROVE LoopInv'
  BY <1>0, <1>6 DEF SetConn, CloseReady, Free, ReadyInv
<1>7. ASSUME NEW t \in Threads, ConnectLeave(t) PROVE LoopInv'
  BY <1>0, <1>7 DEF ConnectLeave, StartLoop, GateInv, InGate
<1>8. ASSUME NEW t \in Threads, ConnectRetry(t) PROVE LoopInv'
  BY <1>0, <1>8 DEF ConnectRetry
<1>9. CASE LoopWake
  BY <1>0, <1>9 DEF LoopWake
<1>10. ASSUME NEW k \in Conns, signalReconnect(k) PROVE LoopInv'
  BY <1>0, <1>10 DEF signalReconnect
<1>11. ASSUME NEW k \in Conns, PingTimeout(k) PROVE LoopInv'
  BY <1>0, <1>11 DEF PingTimeout, Lose, Without
<1>12. ASSUME NEW k \in Conns, ReadFails(k) PROVE LoopInv'
  BY <1>0, <1>12 DEF ReadFails, Lose, Without
<1>13. ASSUME NEW k \in Conns, ReadCheck(k) PROVE LoopInv'
  BY <1>0, <1>13 DEF ReadCheck
<1>14. ASSUME NEW k \in Conns, complete(k) PROVE LoopInv'
  BY <1>0, <1>14 DEF complete
<1>15. CASE LoseFailPending
  BY <1>0, <1>15 DEF LoseFailPending, failPending
<1>16. CASE CloseClosed
  BY <1>0, <1>16 DEF CloseClosed
<1>17. CASE CloseUnlink
  BY <1>0, <1>17 DEF CloseUnlink, CloseReady, Without
<1>18. CASE CloseFailPending
  BY <1>0, <1>18 DEF CloseFailPending, failPending
<1>19. ASSUME NEW f \in Conns \X Calls, ReadFrame(f) PROVE LoopInv'
  BY <1>0, <1>19 DEF ReadFrame
<1>20. ASSUME NEW i \in Calls, WaitConn(i) PROVE LoopInv'
  BY <1>0, <1>20 DEF WaitConn, Goto, Return
<1>21. ASSUME NEW i \in Calls, WaitAgain(i) PROVE LoopInv'
  BY <1>0, <1>21 DEF WaitAgain, Goto
<1>22. ASSUME NEW i \in Calls, addPending(i) PROVE LoopInv'
  BY <1>0, <1>22 DEF addPending, Goto, Return
<1>23. ASSUME NEW i \in Calls, WriteCheck(i) PROVE LoopInv'
  BY <1>0, <1>23 DEF WriteCheck, Goto, Return
<1>24. ASSUME NEW i \in Calls, WriteOk(i) PROVE LoopInv'
  BY <1>0, <1>24 DEF WriteOk, Goto
<1>25. ASSUME NEW i \in Calls, WriteFails(i) PROVE LoopInv'
  BY <1>0, <1>25 DEF WriteFails, Goto
<1>26. ASSUME NEW i \in Calls, handleWriteError(i) PROVE LoopInv'
  BY <1>0, <1>26 DEF handleWriteError, Return, Lose, Without, CallInv
<1>27. ASSUME NEW i \in Calls, Receive(i) PROVE LoopInv'
  BY <1>0, <1>27 DEF Receive, Return
<1>28. ASSUME NEW i \in Calls, SeesClosed(i) PROVE LoopInv'
  BY <1>0, <1>28 DEF SeesClosed, Return
<1>29. ASSUME NEW i \in Calls, SendCancel(i) PROVE LoopInv'
  BY <1>0, <1>29 DEF SendCancel, Return
<1>30. ASSUME NEW i \in Calls, WaitGivesUp(i) PROVE LoopInv'
  BY <1>0, <1>30 DEF WaitGivesUp, Return
<1>31. ASSUME NEW i \in Calls, GiveUp(i) PROVE LoopInv'
  BY <1>0, <1>31 DEF GiveUp, Goto
<1>32. CASE UNCHANGED vars
  BY <1>0, <1>32 DEF vars
<1> HIDE DEF TypeOK, LoopInv, Noticed, InAttempt, Threads, closed, connMu, linkVars,
     loopVars, readVars, callVars
<1>33. QED
  BY <1>1, <1>2, <1>3, <1>4, <1>5, <1>6, <1>7, <1>8, <1>9, <1>10, <1>11,
     <1>12, <1>13, <1>14, <1>15, <1>16, <1>17, <1>18, <1>19, <1>20, <1>21, <1>22,
     <1>23, <1>24, <1>25, <1>26, <1>27, <1>28, <1>29, <1>30, <1>31, <1>32, NextCases

LEMMA InitInv == ASSUME Init PROVE IInv
<1> USE ClientAssumption DEF Init
<1>1. TypeOK
  BY DEF TypeOK, ConnectPcs, CallPcs, Threads
<1>2. GateInv /\ ReadyInv /\ LoopInv
  BY DEF GateInv, ReadyInv, LoopInv, InGate, Threads
<1>3. NoStaleWaiter /\ CallInv /\ LossIsLocal
  BY DEF NoStaleWaiter, CallInv, LossIsLocal
<1>4. QED
  BY <1>1, <1>2, <1>3 DEF IInv

LEMMA StepInv == ASSUME IInv, [Next]_vars PROVE IInv'
  BY TypeStep, GateStep, ReadyStep, WaiterStep, CallStepInv, LossStep, LoopStep DEF IInv

\* The invariant behind the theorems below holds in every state, for any
\* connections, goroutines in Connect and calls.
THEOREM ClientInductive == Spec => []IInv
  BY InitInv, StepInv, PTL DEF Spec

\* Type correctness of the dialing side (client.go).
THEOREM ClientTypeOK == Spec => []TypeOK
  BY ClientInductive, PTL DEF IInv

\* setConn never closes a closed channel and never replaces a connection,
\* however Connect, the reconnect loop, connectionLost and Close interleave.
THEOREM SetConnIsSafe == Spec => []SetConnSafe
<1>1. IInv => SetConnSafe
  BY DEF IInv, TypeOK, GateInv, ReadyInv, SetConnSafe, closed
<1>2. QED
  BY <1>1, ClientInductive, PTL

\* No call waits in waitConn on a channel that has been replaced.
THEOREM WaitersAreWoken == Spec => []NoStaleWaiter
  BY ClientInductive, PTL DEF IInv

\* deliverPending never blocks on responseCh.
THEOREM OneDelivery == Spec => []DeliveryNeverBlocks
<1>1. IInv => DeliveryNeverBlocks
  BY DEF IInv, TypeOK, CallInv, DeliveryNeverBlocks
<1>2. QED
  BY <1>1, ClientInductive, PTL

\* failPending of a lost connection fails no call of its successor.
THEOREM LossStaysLocal == Spec => []LossIsLocal
  BY ClientInductive, PTL DEF IInv

\* A call that waits for a response will be delivered one or be failed.
THEOREM CallsRemembered == Spec => []NoForgottenCall
<1>1. IInv => NoForgottenCall
  BY DEF IInv, TypeOK, CallInv, NoForgottenCall
<1>2. QED
  BY <1>1, ClientInductive, PTL

\* The reconnect loop learns of every loss, also of one that comes before
\* startReconnectLoop.
THEOREM LossesNoticed == Spec => []NoLostReconnect
<1>1. IInv => NoLostReconnect
  BY ClientAssumption DEF IInv, LoopInv, Noticed, InAttempt, NoLostReconnect, Threads
<1>2. QED
  BY <1>1, ClientInductive, PTL

=============================================================================
