--------------------------- MODULE StreamTheorems ---------------------------
(***************************************************************************)
(* The theorems about one item direction of a stream, for every window,    *)
(* every set of item sizes and any number of receiving goroutines: the     *)
(* credit accounting and the order of frames, the inductive invariant      *)
(* IInv, the safety properties it implies, and the refinement of the       *)
(* bounded pipe.                                                           *)
(***************************************************************************)
EXTENDS StreamFlowProofs

\* A step that loses no credit while both sides are open, and never makes
\* any, keeps the credit invariant.
LEMMA CreditKept ==
  ASSUME CreditInv, SumsOK, SumsOK', FlowControl,
         granted' = granted, granted \/ windows' = <<>>,
         OutstandingItems' <= OutstandingItems, OutstandingBytes' <= OutstandingBytes,
         Flowing' => /\ Flowing
                     /\ OutstandingItems' = OutstandingItems
                     /\ OutstandingBytes' = OutstandingBytes
  PROVE  CreditInv'
<1>1. OutstandingItems \in Nat /\ OutstandingBytes \in Nat
  BY DEF SumsOK
<1>2. OutstandingItems' \in Nat /\ OutstandingBytes' \in Nat
  BY DEF SumsOK
<1>3. RecvBuffer \in Nat /\ RecvBytes \in Nat
  BY StreamAssumption
<1>4. QED
  BY <1>1, <1>2, <1>3 DEF CreditInv, CreditConserved

\* Steps that move no credit.
LEMMA CreditQuiet ==
  ASSUME CreditInv, TypeOK, TypeOK', FlowControl,
         UNCHANGED <<items, bytes, wire, recvCh, heldItems, heldBytes, returnItems,
                     returnBytes, windows, granted>>,
         WritingItems' = WritingItems, WritingBytes' = WritingBytes,
         Flowing' => Flowing
  PROVE  CreditInv'
<1>1. SumsOK /\ SumsOK'
  BY SumTypes, SumTypesNext
<1>2. OutstandingItems' = OutstandingItems /\ OutstandingBytes' = OutstandingBytes
  BY DEF OutstandingItems, OutstandingBytes, Queued
<1>3. /\ OutstandingItems' <= OutstandingItems
      /\ OutstandingBytes' <= OutstandingBytes
  BY <1>1, <1>2 DEF SumsOK
<1>4. granted \/ windows' = <<>>
  BY DEF CreditInv
<1>5. QED
  BY <1>1, <1>2, <1>3, <1>4, CreditKept

\* takeCredit, the writes and the deliveries conserve credit.
LEMMA CreditStep ==
  ASSUME IInv, [Next]_vars
  PROVE  CreditInv'
<1> USE DEF creditVars, callVars, sendEnds, sendVars, readVars, returnVars,
        recvVars, recvEnds
<1>0. SUFFICES ASSUME FlowControl PROVE CreditInv'
  BY DEF CreditInv, CreditConserved
<1>1. CreditInv /\ TypeOK /\ TypeOK' /\ HeldInv /\ EndsInv
  BY TypeStep DEF IInv
<1>2. SumsOK /\ SumsOK'
  BY <1>1, SumTypes, SumTypesNext
<1>a. /\ items \in Nat /\ WritingItems \in Nat /\ ItemsOf(wire) \in Nat /\ Queued \in Nat
      /\ Total(heldItems) \in Nat /\ returnItems \in Nat /\ ItemsOf(windows) \in Nat
  BY <1>2 DEF SumsOK
<1>b. /\ bytes \in Nat /\ WritingBytes \in Nat /\ BytesOf(wire) \in Nat /\ Total(recvCh) \in Nat
      /\ Total(heldBytes) \in Nat /\ returnBytes \in Nat /\ BytesOf(windows) \in Nat
  BY <1>2 DEF SumsOK
<1>3. ~granted => windows = <<>>
  BY <1>0, <1>1 DEF CreditInv
<1>4. CASE SendBegin \/ TakeCreditCheck \/ SenderWake \/ CloseSend \/ SenderContext
           \/ SenderFinish \/ UNCHANGED vars
  <2>1. /\ UNCHANGED <<items, bytes, wire, recvCh, heldItems, heldBytes, returnItems,
                       returnBytes, windows, granted>>
        /\ (sendPc = "write" /\ UNCHANGED <<sendPc, sendSize>>)
           \/ (sendPc # "write" /\ sendPc' # "write")
        /\ Flowing' => Flowing
    BY <1>4 DEF SendBegin, TakeCreditCheck, SenderWake, CloseSend, SenderContext,
       SenderFinish, FinishSender, vars, Flowing, sendClosed, recvClosed
  <2>2. WritingItems' = WritingItems /\ WritingBytes' = WritingBytes
    BY <2>1 DEF WritingItems, WritingBytes
  <2>3. QED
    BY SMTT(30), <1>0, <1>1, <2>1, <2>2, CreditQuiet
<1>5. CASE ReceiverContext \/ ReceiverFinish
           \/ \E r \in Receivers : RecvWait(r) \/ RecvDrain(r) \/ RecvEmpty(r)
                                   \/ RecvReturn(r) \/ ReceivePayload(r)
  <2>1. /\ UNCHANGED <<items, bytes, wire, recvCh, heldItems, heldBytes, returnItems,
                       returnBytes, windows, granted, sendPc, sendSize>>
        /\ Flowing' => Flowing
    BY <1>5 DEF ReceiverContext, ReceiverFinish, FinishReceiver, RecvWait, RecvDrain,
       RecvEmpty, RecvReturn, ReceivePayload, Flowing, sendClosed, recvClosed
  <2>2. WritingItems' = WritingItems /\ WritingBytes' = WritingBytes
    BY <2>1 DEF WritingItems, WritingBytes
  <2>3. QED
    BY SMTT(30), <1>0, <1>1, <2>1, <2>2, CreditQuiet
<1>6. CASE TakeCredit
  <2>1. /\ UNCHANGED <<wire, recvCh, heldItems, heldBytes, returnItems, returnBytes,
                       windows, granted, sendSize>>
        /\ sendPc = "take"
        /\ Flowing' => Flowing
    BY <1>6 DEF TakeCredit, HasCredit, SpendCredit, Flowing, sendClosed, recvClosed
  <2>2. CASE sendPc' = "write"
    <3>1. items > 0 /\ items' = items - 1 /\ bytes' = bytes - sendSize /\ sendSize <= bytes
      BY <1>0, <1>6, <2>2 DEF TakeCredit, HasCredit, SpendCredit
    <3>2. WritingItems = 0 /\ WritingBytes = 0 /\ WritingItems' = 1 /\ WritingBytes' = sendSize
      BY <2>1, <2>2 DEF WritingItems, WritingBytes
    <3>3. items \in Nat /\ bytes \in Nat /\ sendSize \in Nat
      BY <1>1 DEF TypeOK
    <3>4. items' + WritingItems' = items + WritingItems /\ bytes' + WritingBytes' = bytes + WritingBytes
      BY <3>1, <3>2, <3>3
    <3>5. OutstandingItems' = OutstandingItems /\ OutstandingBytes' = OutstandingBytes
      BY <2>1, <3>4 DEF OutstandingItems, OutstandingBytes, Queued
    <3>6. /\ OutstandingItems' <= OutstandingItems
          /\ OutstandingBytes' <= OutstandingBytes
      BY <1>2, <3>5 DEF SumsOK
    <3>7. QED
      BY <1>0, <1>1, <1>2, <1>3, <2>1, <3>5, <3>6, CreditKept
  <2>3. CASE sendPc' # "write"
    <3>1. UNCHANGED <<items, bytes>>
      BY <1>6, <2>3 DEF TakeCredit, HasCredit, SpendCredit
    <3>2. WritingItems' = WritingItems /\ WritingBytes' = WritingBytes
      BY <2>1, <2>3 DEF WritingItems, WritingBytes
    <3>3. QED
      BY <1>0, <1>1, <2>1, <3>1, <3>2, CreditQuiet
  <2>4. QED
    BY <2>2, <2>3
<1>7. CASE SendWrite
  <2>1. /\ UNCHANGED <<items, bytes, recvCh, heldItems, heldBytes, returnItems,
                       returnBytes, windows, granted, sendSize>>
        /\ sendPc = "write" /\ sendPc' = "idle"
        /\ wire' = Append(wire, ItemFrame(sendSize))
        /\ Flowing' => Flowing
    BY <1>7 DEF SendWrite, Flowing, sendClosed, recvClosed
  <2>2. /\ ItemFrame(sendSize) \in ItemFrames \cup EndFrames
        /\ wire \in Seq(ItemFrames \cup EndFrames)
        /\ ItemFrame(sendSize).items = 1 /\ ItemFrame(sendSize).bytes = sendSize
    BY <1>1 DEF TypeOK, ItemFrame, ItemFrames
  <2>3. /\ ItemsOf(wire') = ItemsOf(wire) + 1
        /\ BytesOf(wire') = BytesOf(wire) + sendSize
    BY <2>1, <2>2, FramesCarryCredit, CreditAppend
  <2>4. WritingItems = 1 /\ WritingBytes = sendSize /\ WritingItems' = 0 /\ WritingBytes' = 0
    BY <2>1 DEF WritingItems, WritingBytes
  <2>5. OutstandingItems' = OutstandingItems
    <3>1. /\ items' = items /\ Queued' = Queued /\ Total(heldItems') = Total(heldItems)
          /\ returnItems' = returnItems /\ ItemsOf(windows') = ItemsOf(windows)
      BY <2>1 DEF Queued
    <3>2. QED
      BY <1>a, <2>3, <2>4, <3>1 DEF OutstandingItems
  <2>6. OutstandingBytes' = OutstandingBytes
    <3>1. /\ bytes' = bytes /\ Total(recvCh') = Total(recvCh) /\ Total(heldBytes') = Total(heldBytes)
          /\ returnBytes' = returnBytes /\ BytesOf(windows') = BytesOf(windows)
          /\ sendSize \in Nat
      BY <1>1, <2>1 DEF TypeOK
    <3>2. QED
      BY <1>b, <2>3, <2>4, <3>1 DEF OutstandingBytes
  <2>7. QED
    BY SMTT(30), <1>0, <1>1, <1>2, <1>3, <2>1, <2>5, <2>6, CreditKept DEF SumsOK
<1>8. CASE SendWriteFails
  <2>1. /\ UNCHANGED <<items, bytes, wire, recvCh, heldItems, heldBytes, returnItems,
                       returnBytes, windows, granted>>
        /\ sendPc' = "idle"
        /\ ~Flowing'
    BY <1>8 DEF SendWriteFails, FinishSender, Flowing
  <2>2. WritingItems' = 0 /\ WritingBytes' = 0
    BY <2>1 DEF WritingItems, WritingBytes
  <2>3. OutstandingItems' <= OutstandingItems
    <3>1. /\ items' = items /\ Queued' = Queued /\ Total(heldItems') = Total(heldItems)
          /\ returnItems' = returnItems
          /\ ItemsOf(wire') = ItemsOf(wire) /\ ItemsOf(windows') = ItemsOf(windows)
      BY <2>1 DEF Queued
    <3>2. QED
      BY <1>a, <2>2, <3>1 DEF OutstandingItems
  <2>4. OutstandingBytes' <= OutstandingBytes
    <3>1. /\ bytes' = bytes /\ Total(recvCh') = Total(recvCh) /\ Total(heldBytes') = Total(heldBytes)
          /\ returnBytes' = returnBytes
          /\ BytesOf(wire') = BytesOf(wire) /\ BytesOf(windows') = BytesOf(windows)
      BY <2>1
    <3>2. QED
      BY <1>b, <2>2, <3>1 DEF OutstandingBytes
  <2>5. QED
    BY <1>0, <1>1, <1>2, <1>3, <2>1, <2>3, <2>4, CreditKept
<1>9. CASE CloseSendEnd
  <2>1. /\ UNCHANGED <<items, bytes, recvCh, heldItems, heldBytes, returnItems,
                       returnBytes, windows, granted, sendPc, sendSize>>
        /\ wire' = wire \/ wire' = Append(wire, EndFrame)
        /\ ~Flowing'
    BY <1>9 DEF CloseSendEnd, Flowing, sendClosed
  <2>2. /\ EndFrame \in ItemFrames \cup EndFrames
        /\ wire \in Seq(ItemFrames \cup EndFrames)
        /\ EndFrame.items = 0 /\ EndFrame.bytes = 0
    BY <1>1 DEF TypeOK, EndFrame, EndFrames
  <2>3. ItemsOf(wire') = ItemsOf(wire) /\ BytesOf(wire') = BytesOf(wire)
    <3>1. /\ ItemsOf(Append(wire, EndFrame)) = ItemsOf(wire) + 0
          /\ BytesOf(Append(wire, EndFrame)) = BytesOf(wire) + 0
      BY <2>2, FramesCarryCredit, CreditAppend
    <3>2. CASE wire' = Append(wire, EndFrame)
      BY <1>a, <1>b, <3>1, <3>2
    <3>3. CASE wire' = wire
      BY <3>3
    <3>4. QED
      BY <2>1, <3>2, <3>3
  <2>4. WritingItems' = WritingItems /\ WritingBytes' = WritingBytes
    BY <2>1 DEF WritingItems, WritingBytes
  <2>5. OutstandingItems' = OutstandingItems /\ OutstandingBytes' = OutstandingBytes
    BY <2>1, <2>3, <2>4 DEF OutstandingItems, OutstandingBytes, Queued
  <2>6. QED
    BY SMTT(30), <1>0, <1>1, <1>2, <1>3, <2>1, <2>5, CreditKept DEF SumsOK
<1>10. CASE AcceptCredit
  <2>1. /\ UNCHANGED <<wire, recvCh, heldItems, heldBytes, returnItems, returnBytes,
                       granted, sendPc, sendSize>>
        /\ windows # <<>> /\ windows' = Tail(windows)
        /\ \/ /\ items' = items + Head(windows).items
              /\ bytes' = bytes + Head(windows).bytes
              /\ Flowing' => Flowing
           \/ /\ UNCHANGED <<items, bytes>>
              /\ ~Flowing'
    <3>1. /\ UNCHANGED <<wire, recvCh, heldItems, heldBytes, returnItems, returnBytes,
                         granted, sendPc, sendSize, sendState, recvErr, receiverDone>>
          /\ windows # <<>> /\ windows' = Tail(windows)
      BY <1>10 DEF AcceptCredit, Notify
    <3>2. PICK taken \in BOOLEAN, bad \in BOOLEAN :
             /\ items' = IF taken THEN items + Head(windows).items ELSE items
             /\ bytes' = IF taken THEN bytes + Head(windows).bytes ELSE bytes
             /\ senderDone' = (senderDone \/ bad)
             /\ ~taken => bad \/ senderDone \/ sendClosed
      <4> DEFINE w == Head(windows)
                 legal == IF initialized
                          THEN /\ w.items # 0
                               /\ w.items <= maxItems - items
                               /\ w.bytes <= maxBytes - bytes
                          ELSE w.items # 0 /\ w.bytes # 0
                 open == ~senderDone /\ ~sendClosed
      <4>1. /\ items' = IF open /\ legal THEN items + w.items ELSE items
            /\ bytes' = IF open /\ legal THEN bytes + w.bytes ELSE bytes
            /\ senderDone' = (senderDone \/ (open /\ ~legal))
        BY <1>10 DEF AcceptCredit, Notify
      <4>2. (open /\ legal) \in BOOLEAN /\ (open /\ ~legal) \in BOOLEAN
        OBVIOUS
      <4> HIDE DEF legal
      <4>3. ~(open /\ legal) => (open /\ ~legal) \/ senderDone \/ sendClosed
        OBVIOUS
      <4>4. QED
        BY ZenonT(30), <4>1, <4>2, <4>3
    <3>3. QED
      BY ZenonT(30), <3>1, <3>2 DEF Flowing, sendClosed, recvClosed
  <2>2. /\ ItemsOf(windows) = Head(windows).items + ItemsOf(windows')
        /\ BytesOf(windows) = Head(windows).bytes + BytesOf(windows')
        /\ Head(windows).items \in Nat /\ Head(windows).bytes \in Nat
    <3>1. windows \in Seq(WindowFrames) /\ Head(windows) \in WindowFrames
      BY <1>1, <2>1, HeadTailProperties DEF TypeOK
    <3>2. Head(windows).items \in Nat /\ Head(windows).bytes \in Nat
      BY <3>1 DEF WindowFrames
    <3>3. QED
      BY SMTT(30), <2>1, <3>1, <3>2, FramesCarryCredit, CreditTail
  <2>3. WritingItems' = WritingItems /\ WritingBytes' = WritingBytes
    BY <2>1 DEF WritingItems, WritingBytes
  <2>4. ItemsOf(windows') \in Nat /\ BytesOf(windows') \in Nat
    BY <1>2 DEF SumsOK
  <2>5. /\ OutstandingItems' <= OutstandingItems
        /\ Flowing' => OutstandingItems' = OutstandingItems
    <3>1. /\ Queued' = Queued /\ Total(heldItems') = Total(heldItems)
          /\ returnItems' = returnItems /\ ItemsOf(wire') = ItemsOf(wire)
          /\ items' = items + Head(windows).items \/ (items' = items /\ ~Flowing')
      BY <2>1 DEF Queued
    <3>2. QED
      BY <1>a, <2>2, <2>3, <2>4, <3>1 DEF OutstandingItems
  <2>6. /\ OutstandingBytes' <= OutstandingBytes
        /\ Flowing' => OutstandingBytes' = OutstandingBytes
    <3>1. /\ Total(recvCh') = Total(recvCh) /\ Total(heldBytes') = Total(heldBytes)
          /\ returnBytes' = returnBytes /\ BytesOf(wire') = BytesOf(wire)
          /\ bytes' = bytes + Head(windows).bytes \/ (bytes' = bytes /\ ~Flowing')
      BY <2>1
    <3>2. QED
      BY <1>b, <2>2, <2>3, <2>4, <3>1 DEF OutstandingBytes
  <2>7. granted
    BY <1>3, <2>1
  <2>8. QED
    BY SMTT(30), <1>0, <1>1, <1>2, <2>1, <2>5, <2>6, <2>7, CreditKept
<1>11. CASE GrantInitialCredit
  <2>1. /\ UNCHANGED <<items, bytes, wire, recvCh, heldItems, heldBytes, returnItems,
                       returnBytes, sendPc, sendSize>>
        /\ granted = FALSE /\ granted' = TRUE
        /\ windows' = Append(windows, WindowFrame(RecvBuffer, RecvBytes))
    BY SMTT(30), <1>0, <1>1, <1>11 DEF GrantInitialCredit, TypeOK
  <2>2. /\ windows \in Seq(WindowFrames) /\ WindowFrame(RecvBuffer, RecvBytes) \in WindowFrames
        /\ WindowFrame(RecvBuffer, RecvBytes).items = RecvBuffer
        /\ WindowFrame(RecvBuffer, RecvBytes).bytes = RecvBytes
        /\ RecvBuffer \in Nat /\ RecvBytes \in Nat
    BY <1>1, StreamAssumption DEF TypeOK, WindowFrame, WindowFrames
  <2>3. /\ ItemsOf(windows') = ItemsOf(windows) + RecvBuffer
        /\ BytesOf(windows') = BytesOf(windows) + RecvBytes
    BY <2>1, <2>2, FramesCarryCredit, CreditAppend
  <2>4. WritingItems' = WritingItems /\ WritingBytes' = WritingBytes
    BY <2>1 DEF WritingItems, WritingBytes
  <2>5. OutstandingItems = 0 /\ OutstandingBytes = 0
    BY <1>0, <1>1, <2>1 DEF CreditInv
  <2>6. OutstandingItems' = RecvBuffer
    <3>1. /\ items' = items /\ Queued' = Queued /\ Total(heldItems') = Total(heldItems)
          /\ returnItems' = returnItems /\ ItemsOf(wire') = ItemsOf(wire)
      BY <2>1 DEF Queued
    <3>2. OutstandingItems' = OutstandingItems + RecvBuffer
      BY <1>a, <2>2, <2>3, <2>4, <3>1 DEF OutstandingItems
    <3>3. QED
      BY <2>2, <2>5, <3>2
  <2>7. OutstandingBytes' = RecvBytes
    <3>1. /\ bytes' = bytes /\ Total(recvCh') = Total(recvCh) /\ Total(heldBytes') = Total(heldBytes)
          /\ returnBytes' = returnBytes /\ BytesOf(wire') = BytesOf(wire)
      BY <2>1
    <3>2. OutstandingBytes' = OutstandingBytes + RecvBytes
      BY SMTT(30), <1>b, <2>2, <2>3, <2>4, <3>1 DEF OutstandingBytes
    <3>3. QED
      BY <2>2, <2>5, <3>2
  <2>8. QED
    BY SMTT(30), <2>1, <2>2, <2>6, <2>7 DEF CreditInv, CreditConserved
<1>12. CASE DeliverItem \/ DeliverEnd
  <2>1. /\ UNCHANGED <<items, bytes, heldItems, heldBytes, returnItems, returnBytes,
                       windows, granted, sendPc, sendSize>>
        /\ wire # <<>> /\ wire' = Tail(wire)
        /\ \/ recvCh' = Append(recvCh, Head(wire).bytes) /\ Head(wire).type = "item"
           \/ recvCh' = recvCh /\ Head(wire).type = "end"
           \/ recvCh' = recvCh /\ ~Flowing'
        /\ Flowing' => Flowing
    BY <1>12 DEF DeliverItem, Fits, DeliverEnd, FinishReceiver, Flowing, sendClosed,
       recvClosed
  <2>2. wire \in Seq(ItemFrames \cup EndFrames) /\ Head(wire) \in ItemFrames \cup EndFrames
    BY <1>1, <2>1, HeadTailProperties DEF TypeOK
  <2>3. /\ Head(wire).items \in Nat /\ Head(wire).bytes \in Nat
        /\ Head(wire).type = "item" => Head(wire).items = 1
        /\ Head(wire).type = "end" => Head(wire).items = 0 /\ Head(wire).bytes = 0
    BY <2>2 DEF ItemFrames, EndFrames
  <2>4. /\ ItemsOf(wire) = Head(wire).items + ItemsOf(wire')
        /\ BytesOf(wire) = Head(wire).bytes + BytesOf(wire')
    BY <2>1, <2>2, FramesCarryCredit, CreditTail
  <2>5. ItemsOf(wire') \in Nat /\ BytesOf(wire') \in Nat
    BY <1>2 DEF SumsOK
  <2>6. WritingItems' = WritingItems /\ WritingBytes' = WritingBytes
    BY <2>1 DEF WritingItems, WritingBytes
  <2>7. recvCh' = Append(recvCh, Head(wire).bytes) =>
          /\ Queued' = Queued + 1
          /\ Total(recvCh') = Total(recvCh) + Head(wire).bytes
    <3>1. recvCh \in Seq(Nat)
      BY <1>1 DEF TypeOK
    <3>2. QED
      BY SMTT(30), <2>3, <3>1, AppendProperties, TotalAppend DEF Queued
  <2>8. /\ OutstandingItems' <= OutstandingItems
        /\ Flowing' => OutstandingItems' = OutstandingItems
    <3>1. /\ items' = items /\ Total(heldItems') = Total(heldItems)
          /\ returnItems' = returnItems /\ ItemsOf(windows') = ItemsOf(windows)
          /\ \/ Queued' = Queued + 1 /\ Head(wire).items = 1
             \/ Queued' = Queued /\ (Head(wire).items = 0 \/ ~Flowing')
      BY <2>1, <2>3, <2>7 DEF Queued
    <3>2. QED
      BY SMTT(30), <1>a, <2>3, <2>4, <2>5, <2>6, <3>1 DEF OutstandingItems
  <2>9. /\ OutstandingBytes' <= OutstandingBytes
        /\ Flowing' => OutstandingBytes' = OutstandingBytes
    <3>1. /\ bytes' = bytes /\ Total(heldBytes') = Total(heldBytes)
          /\ returnBytes' = returnBytes /\ BytesOf(windows') = BytesOf(windows)
          /\ \/ Total(recvCh') = Total(recvCh) + Head(wire).bytes
             \/ Total(recvCh') = Total(recvCh) /\ (Head(wire).bytes = 0 \/ ~Flowing')
      BY <2>1, <2>3, <2>7
    <3>2. QED
      BY SMTT(30), <1>b, <2>3, <2>4, <2>5, <2>6, <3>1 DEF OutstandingBytes
  <2>10. QED
    BY ZenonT(30), <1>0, <1>1, <1>2, <1>3, <2>1, <2>8, <2>9, CreditKept
<1>13. ASSUME NEW r \in Receivers, RecvTake(r)
       PROVE  CreditInv'
  <2>1. /\ UNCHANGED <<items, bytes, wire, returnItems, returnBytes, windows, granted,
                       sendPc, sendSize>>
        /\ recvCh # <<>> /\ recvCh' = Tail(recvCh)
        /\ heldItems' = [heldItems EXCEPT ![r] = 1]
        /\ heldBytes' = [heldBytes EXCEPT ![r] = Head(recvCh)]
        /\ Flowing' => Flowing
    BY <1>13 DEF RecvTake, Flowing, sendClosed, recvClosed
  <2>2. heldItems[r] = 0 /\ heldBytes[r] = 0
    BY <1>1, <1>13 DEF RecvTake, HeldInv
  <2>3. recvCh \in Seq(Nat) /\ Head(recvCh) \in Nat
    BY <1>1, <2>1, HeadTailProperties DEF TypeOK
  <2>4. Queued' = Queued - 1
    BY <2>1, <2>3, HeadTailProperties DEF Queued
  <2>5. Total(recvCh) = Head(recvCh) + Total(recvCh')
    BY <2>1, <2>3, TotalTail
  <2>6. Total(heldItems') + 0 = Total(heldItems) + 1
    BY ZenonT(30), <1>1, <2>1, <2>2, HeldUpdate
  <2>7. Total(heldBytes') + 0 = Total(heldBytes) + Head(recvCh)
    BY ZenonT(30), <1>1, <2>1, <2>2, <2>3, HeldUpdate
  <2>8. WritingItems' = WritingItems /\ WritingBytes' = WritingBytes
    BY <2>1 DEF WritingItems, WritingBytes
  <2>9. Total(heldItems') \in Nat /\ Total(heldBytes') \in Nat /\ Total(recvCh') \in Nat
    BY <1>2 DEF SumsOK
  <2>10. OutstandingItems' = OutstandingItems
    <3>1. /\ items' = items /\ returnItems' = returnItems
          /\ ItemsOf(wire') = ItemsOf(wire) /\ ItemsOf(windows') = ItemsOf(windows)
      BY <2>1
    <3>2. QED
      BY <1>a, <2>4, <2>6, <2>8, <2>9, <3>1 DEF OutstandingItems
  <2>11. OutstandingBytes' = OutstandingBytes
    <3>1. /\ bytes' = bytes /\ returnBytes' = returnBytes
          /\ BytesOf(wire') = BytesOf(wire) /\ BytesOf(windows') = BytesOf(windows)
      BY <2>1
    <3>2. Total(recvCh') + Total(heldBytes') = Total(recvCh) + Total(heldBytes)
      BY SMTT(30), <1>b, <2>3, <2>5, <2>7, <2>9
    <3>3. QED
      BY <1>b, <2>8, <2>9, <3>1, <3>2 DEF OutstandingBytes
  <2>12. QED
    BY SMTT(30), <1>0, <1>1, <1>2, <1>3, <2>1, <2>10, <2>11, CreditKept DEF SumsOK
<1>14. ASSUME NEW r \in Receivers, ReturnCredit(r)
       PROVE  CreditInv'
  <2> DEFINE h == heldBytes[r]
  <2>1. /\ UNCHANGED <<items, bytes, wire, recvCh, windows, granted, sendPc, sendSize>>
        /\ \/ /\ heldItems' = [heldItems EXCEPT ![r] = 0]
              /\ heldBytes' = [heldBytes EXCEPT ![r] = 0]
              /\ UNCHANGED <<returnItems, returnBytes>>
              /\ ~Flowing'
           \/ /\ heldItems' = [heldItems EXCEPT ![r] = 0]
              /\ heldBytes' = [heldBytes EXCEPT ![r] = 0]
              /\ returnItems' = returnItems + 1 /\ returnBytes' = returnBytes + h
           \/ /\ heldItems' = [heldItems EXCEPT ![r] = returnItems + 1]
              /\ heldBytes' = [heldBytes EXCEPT ![r] = returnBytes + h]
              /\ returnItems' = 0 /\ returnBytes' = 0
        /\ Flowing' => Flowing
    BY SMTT(30), <1>0, <1>14 DEF ReturnCredit, Flowing, sendClosed, recvClosed
  <2>2. heldItems[r] = 1 /\ h \in Nat
    BY <1>1, <1>14 DEF ReturnCredit, HeldInv, TypeOK
  <2>3. returnItems + 1 \in Nat /\ returnBytes + h \in Nat /\ 0 \in Nat
    BY SMTT(30), <1>a, <1>b, <2>2
  <2>4. /\ Total([heldItems EXCEPT ![r] = 0]) + 1 = Total(heldItems) + 0
        /\ Total([heldBytes EXCEPT ![r] = 0]) + h = Total(heldBytes) + 0
    BY ZenonT(30), <1>1, <2>2, <2>3, HeldUpdate
  <2>5. Total([heldItems EXCEPT ![r] = returnItems + 1]) + 1 = Total(heldItems) + (returnItems + 1)
    <3>1. \A v \in Nat : Total([heldItems EXCEPT ![r] = v]) + heldItems[r] = Total(heldItems) + v
      BY ZenonT(30), <1>1, HeldUpdate
    <3> DEFINE w == returnItems + 1
    <3>2. w \in Nat
      BY <2>3
    <3> HIDE DEF w
    <3>3. Total([heldItems EXCEPT ![r] = w]) + 1 = Total(heldItems) + w
      BY <2>2, <3>1, <3>2
    <3>4. QED
      BY <3>3 DEF w
  <2>6. Total([heldBytes EXCEPT ![r] = returnBytes + h]) + h = Total(heldBytes) + (returnBytes + h)
    BY ZenonT(30), <1>1, <2>2, <2>3, HeldUpdate
  <2> HIDE DEF h
  <2>7. WritingItems' = WritingItems /\ WritingBytes' = WritingBytes
    BY <2>1 DEF WritingItems, WritingBytes
  <2>8. /\ Total(heldItems') \in Nat /\ Total(heldBytes') \in Nat
        /\ returnItems' \in Nat /\ returnBytes' \in Nat
    BY <1>2 DEF SumsOK
  <2>9. /\ OutstandingItems' <= OutstandingItems
        /\ Flowing' => OutstandingItems' = OutstandingItems
    <3>1. /\ items' = items /\ Queued' = Queued
          /\ ItemsOf(wire') = ItemsOf(wire) /\ ItemsOf(windows') = ItemsOf(windows)
      BY SMTT(30), <2>1 DEF Queued
    <3>2. \/ Total(heldItems') + 1 = Total(heldItems) + 0 /\ returnItems' = returnItems /\ ~Flowing'
          \/ Total(heldItems') + 1 = Total(heldItems) + 0 /\ returnItems' = returnItems + 1
          \/ Total(heldItems') + 1 = Total(heldItems) + (returnItems + 1) /\ returnItems' = 0
      BY ZenonT(30), <2>1, <2>4, <2>5
    <3> DEFINE t == Total(heldItems)
               u == Total(heldItems')
    <3>3. t \in Nat /\ u \in Nat
      BY <1>a, <2>8
    <3>4. /\ u + returnItems' <= t + returnItems
          /\ Flowing' => u + returnItems' = t + returnItems
      <4> HIDE DEF t, u
      <4>1. \/ u + 1 = t + 0 /\ returnItems' = returnItems /\ ~Flowing'
            \/ u + 1 = t + 0 /\ returnItems' = returnItems + 1
            \/ u + 1 = t + (returnItems + 1) /\ returnItems' = 0
        BY <3>2 DEF t, u
      <4>2. returnItems \in Nat
        BY <1>a
      <4>3. CASE u + 1 = t + 0 /\ returnItems' = returnItems /\ ~Flowing'
        BY <3>3, <4>2, <4>3
      <4>4. CASE u + 1 = t + 0 /\ returnItems' = returnItems + 1
        BY <3>3, <4>2, <4>4
      <4>5. CASE u + 1 = t + (returnItems + 1) /\ returnItems' = 0
        BY SMTT(30), <3>3, <4>2, <4>5
      <4>6. QED
        BY <4>1, <4>3, <4>4, <4>5
    <3>5. QED
      BY <1>a, <2>7, <2>8, <3>1, <3>4 DEF OutstandingItems
  <2>10. /\ OutstandingBytes' <= OutstandingBytes
         /\ Flowing' => OutstandingBytes' = OutstandingBytes
    <3>1. /\ bytes' = bytes /\ Total(recvCh') = Total(recvCh)
          /\ BytesOf(wire') = BytesOf(wire) /\ BytesOf(windows') = BytesOf(windows)
      BY <2>1
    <3>2. \/ Total(heldBytes') + h = Total(heldBytes) + 0 /\ returnBytes' = returnBytes /\ ~Flowing'
          \/ Total(heldBytes') + h = Total(heldBytes) + 0 /\ returnBytes' = returnBytes + h
          \/ Total(heldBytes') + h = Total(heldBytes) + (returnBytes + h) /\ returnBytes' = 0
      BY ZenonT(30), <2>1, <2>4, <2>6
    <3>3. QED
      BY SMTT(30), <1>b, <2>2, <2>7, <2>8, <3>1, <3>2 DEF OutstandingBytes
  <2>11. QED
    BY SMTT(30), <1>0, <1>1, <1>2, <1>3, <2>1, <2>9, <2>10, CreditKept
<1>15. ASSUME NEW r \in Receivers, WriteWindow(r)
       PROVE  CreditInv'
  <2> DEFINE h == heldItems[r]
             b == heldBytes[r]
             f == WindowFrame(h, b)
  <2>1. /\ UNCHANGED <<items, bytes, wire, recvCh, returnItems, returnBytes, granted,
                       sendPc, sendSize>>
        /\ heldItems' = [heldItems EXCEPT ![r] = 0]
        /\ heldBytes' = [heldBytes EXCEPT ![r] = 0]
        /\ windows' = Append(windows, f) \/ (windows' = windows /\ ~Flowing')
        /\ Flowing' => Flowing
    BY <1>15 DEF WriteWindow, FinishReceiver, Flowing, sendClosed, recvClosed
  <2>2. h \in Nat /\ b \in Nat /\ h > 0
    BY <1>1, <1>15 DEF WriteWindow, HeldInv, TypeOK
  <2>3. f \in WindowFrames /\ f.items = h /\ f.bytes = b /\ windows \in Seq(WindowFrames)
    BY SMTT(30), <1>1, <2>2 DEF WindowFrame, WindowFrames, TypeOK
  <2>4. Total(heldItems') + h = Total(heldItems) + 0 /\ Total(heldBytes') + b = Total(heldBytes) + 0
    BY ZenonT(30), <1>1, <2>1, HeldUpdate
  <2> HIDE DEF h, b, f
  <2>5. /\ ItemsOf(Append(windows, f)) = ItemsOf(windows) + h
        /\ BytesOf(Append(windows, f)) = BytesOf(windows) + b
    BY <2>3, FramesCarryCredit, CreditAppend
  <2>6. WritingItems' = WritingItems /\ WritingBytes' = WritingBytes
    BY <2>1 DEF WritingItems, WritingBytes
  <2>7. Total(heldItems') \in Nat /\ Total(heldBytes') \in Nat
    BY <1>2 DEF SumsOK
  <2>8. /\ OutstandingItems' <= OutstandingItems
        /\ Flowing' => OutstandingItems' = OutstandingItems
    <3>1. /\ items' = items /\ Queued' = Queued
          /\ ItemsOf(wire') = ItemsOf(wire) /\ returnItems' = returnItems
          /\ \/ ItemsOf(windows') = ItemsOf(windows) + h
             \/ ItemsOf(windows') = ItemsOf(windows) /\ ~Flowing'
      BY ZenonT(30), <2>1, <2>5 DEF Queued
    <3>2. QED
      BY <1>a, <2>2, <2>4, <2>6, <2>7, <3>1 DEF OutstandingItems
  <2>9. /\ OutstandingBytes' <= OutstandingBytes
        /\ Flowing' => OutstandingBytes' = OutstandingBytes
    <3>1. /\ bytes' = bytes /\ Total(recvCh') = Total(recvCh)
          /\ BytesOf(wire') = BytesOf(wire) /\ returnBytes' = returnBytes
          /\ \/ BytesOf(windows') = BytesOf(windows) + b
             \/ BytesOf(windows') = BytesOf(windows) /\ ~Flowing'
      BY ZenonT(30), <2>1, <2>5
    <3>2. QED
      BY <1>b, <2>2, <2>4, <2>6, <2>7, <3>1 DEF OutstandingBytes
  <2>10. granted
    BY <1>1, <1>15 DEF HeldInv, WriteWindow
  <2>11. QED
    BY <1>0, <1>1, <1>2, <2>1, <2>8, <2>9, <2>10, CreditKept
<1>16. QED
  BY SMTT(30), <1>4, <1>5, <1>6, <1>7, <1>8, <1>9, <1>10, <1>11, <1>12, <1>13, <1>14, <1>15
  DEF Next, Sender, Receiver
-----------------------------------------------------------------------------
\* An item that arrives under negotiated credit fits the receive queue.
LEMMA ItemFits ==
  ASSUME IInv, FlowControl, wire # <<>>, Head(wire).type = "item"
  PROVE  Head(wire).bytes <= RecvBytes - bufferedBytes /\ Len(recvCh) < RecvBuffer
<1>1. TypeOK /\ SumsOK /\ HeldInv
  BY SumTypes DEF IInv
<1>2. /\ wire \in Seq(ItemFrames \cup EndFrames) /\ Head(wire) \in ItemFrames \cup EndFrames
      /\ Tail(wire) \in Seq(ItemFrames \cup EndFrames)
  BY <1>1, HeadTailProperties DEF TypeOK
<1>3. Head(wire).items = 1 /\ Head(wire).bytes \in Nat
  BY <1>2 DEF ItemFrames, EndFrames
<1>4. ItemsOf(Tail(wire)) \in Nat /\ BytesOf(Tail(wire)) \in Nat
  BY ZenonT(30), <1>2, FramesCarryCredit, CreditType
<1>5. /\ ItemsOf(wire) = 1 + ItemsOf(Tail(wire))
      /\ BytesOf(wire) = Head(wire).bytes + BytesOf(Tail(wire))
  BY <1>2, <1>3, FramesCarryCredit, CreditTail
<1>6. OutstandingItems <= RecvBuffer /\ OutstandingBytes <= RecvBytes
  BY DEF IInv, CreditInv, CreditConserved
<1>7. Total(TakenBytes) <= Total(heldBytes)
  <2>1. /\ TakenBytes \in Seq(Nat) /\ heldBytes \in Seq(Nat)
        /\ Len(TakenBytes) = NumReceivers /\ Len(heldBytes) = NumReceivers
    BY <1>1, HeldSeqs
  <2>2. \A r \in Receivers : TakenBytes[r] <= heldBytes[r]
    BY <1>1 DEF TakenBytes, TypeOK
  <2>3. \A r \in 1..Len(TakenBytes) : TakenBytes[r] <= heldBytes[r]
    BY <2>1, <2>2 DEF Receivers
  <2>4. QED
    BY SMTT(30), <2>1, <2>3, TotalLeq
<1>8. /\ items \in Nat /\ WritingItems \in Nat /\ ItemsOf(wire) \in Nat /\ Queued \in Nat
      /\ Total(heldItems) \in Nat /\ returnItems \in Nat /\ ItemsOf(windows) \in Nat
      /\ RecvBuffer \in Nat /\ RecvBytes \in Nat
  BY <1>1, StreamAssumption DEF SumsOK
<1>9. /\ bytes \in Nat /\ WritingBytes \in Nat /\ BytesOf(wire) \in Nat /\ Total(recvCh) \in Nat
      /\ Total(heldBytes) \in Nat /\ returnBytes \in Nat /\ BytesOf(windows) \in Nat
      /\ Total(TakenBytes) \in Nat
  BY <1>1 DEF SumsOK
<1>10. Queued < RecvBuffer
  <2>1. Queued + ItemsOf(wire) <= OutstandingItems
    BY <1>8 DEF OutstandingItems
  <2>2. OutstandingItems \in Nat
    BY <1>1 DEF SumsOK
  <2>3. QED
    BY SMTT(30), <1>4, <1>5, <1>6, <1>8, <2>1, <2>2
<1>11. Head(wire).bytes + (Total(recvCh) + Total(TakenBytes)) <= RecvBytes
  <2>1. BytesOf(wire) + Total(recvCh) + Total(heldBytes) <= OutstandingBytes
    BY SMTT(30), <1>9 DEF OutstandingBytes
  <2>2. OutstandingBytes \in Nat
    BY <1>1 DEF SumsOK
  <2>3. BytesOf(wire) + Total(recvCh) + Total(heldBytes) <= RecvBytes
    BY SMTT(30), <1>6, <1>8, <1>9, <2>1, <2>2
  <2>4. Head(wire).bytes <= BytesOf(wire)
    BY SMTT(30), <1>3, <1>4, <1>5
  <2>5. QED
    BY SMTT(30), <1>3, <1>7, <1>8, <1>9, <2>3, <2>4
<1>12. bufferedBytes = Total(recvCh) + Total(TakenBytes) /\ bufferedBytes \in Nat
  BY <1>1 DEF IInv, BufferInv, TypeOK
<1>13. Head(wire).bytes <= RecvBytes - bufferedBytes
  BY SMTT(30), <1>3, <1>8, <1>11, <1>12
<1>14. QED
  BY <1>10, <1>13 DEF Queued

\* A window frame that arrives at an open sender passes acceptCredit's checks.
LEMMA WindowLegal ==
  ASSUME IInv, FlowControl, windows # <<>>, ~senderDone, ~sendClosed
  PROVE  /\ Head(windows).items # 0
         /\ initialized => /\ Head(windows).items <= maxItems - items
                           /\ Head(windows).bytes <= maxBytes - bytes
         /\ ~initialized => /\ Head(windows) = WindowFrame(RecvBuffer, RecvBytes)
                            /\ Head(windows).bytes # 0
<1>1. TypeOK /\ SumsOK /\ WindowInv /\ CreditInv
  BY SumTypes DEF IInv
<1>2. /\ windows \in Seq(WindowFrames) /\ Head(windows) \in WindowFrames
      /\ Tail(windows) \in Seq(WindowFrames)
  BY <1>1, HeadTailProperties DEF TypeOK
<1>3. Head(windows).items \in Nat /\ Head(windows).items # 0 /\ Head(windows).bytes \in Nat
  BY <1>2 DEF WindowFrames
<1>4. ItemsOf(Tail(windows)) \in Nat /\ BytesOf(Tail(windows)) \in Nat
  BY ZenonT(30), <1>2, FramesCarryCredit, CreditType
<1>5. /\ ItemsOf(windows) = Head(windows).items + ItemsOf(Tail(windows))
      /\ BytesOf(windows) = Head(windows).bytes + BytesOf(Tail(windows))
  BY <1>2, FramesCarryCredit, CreditTail
<1>6. OutstandingItems <= RecvBuffer /\ OutstandingBytes <= RecvBytes
  BY <1>1 DEF CreditInv, CreditConserved
<1>7. /\ items \in Nat /\ WritingItems \in Nat /\ ItemsOf(wire) \in Nat /\ Queued \in Nat
      /\ Total(heldItems) \in Nat /\ returnItems \in Nat /\ ItemsOf(windows) \in Nat
      /\ RecvBuffer \in Nat /\ OutstandingItems \in Nat
  BY <1>1, StreamAssumption DEF SumsOK
<1>8. /\ bytes \in Nat /\ WritingBytes \in Nat /\ BytesOf(wire) \in Nat /\ Total(recvCh) \in Nat
      /\ Total(heldBytes) \in Nat /\ returnBytes \in Nat /\ BytesOf(windows) \in Nat
      /\ RecvBytes \in Nat /\ OutstandingBytes \in Nat
  BY <1>1, StreamAssumption DEF SumsOK
<1>9. items + ItemsOf(windows) <= OutstandingItems
  BY <1>7 DEF OutstandingItems
<1>10. bytes + BytesOf(windows) <= OutstandingBytes
  BY <1>8 DEF OutstandingBytes
<1>11. Head(windows).items <= RecvBuffer - items
  BY SMTT(30), <1>3, <1>4, <1>5, <1>6, <1>7, <1>9
<1>12. Head(windows).bytes <= RecvBytes - bytes
  BY SMTT(30), <1>3, <1>4, <1>5, <1>6, <1>8, <1>10
<1>13. CASE initialized
  BY <1>1, <1>3, <1>11, <1>12, <1>13 DEF WindowInv
<1>14. CASE ~initialized
  <2>1. granted
    BY <1>1 DEF CreditInv
  <2>2. Head(windows) = WindowFrame(RecvBuffer, RecvBytes)
    BY <1>1, <1>14, <2>1 DEF WindowInv
  <2>3. Head(windows).bytes # 0
    BY <2>2, StreamAssumption DEF WindowFrame
  <2>4. QED
    BY <1>3, <1>14, <2>2, <2>3
<1>15. QED
  BY <1>13, <1>14

\* The sender's limits are the receiver's, and the first window is the first
\* frame it sees.
LEMMA WindowStep ==
  ASSUME IInv, [Next]_vars
  PROVE  WindowInv'
<1> USE DEF creditVars, callVars, sendEnds, sendVars, readVars, returnVars,
        recvVars, recvEnds
<1>0. SUFFICES ASSUME FlowControl PROVE WindowInv'
  BY DEF WindowInv
<1>1. WindowInv /\ TypeOK /\ CreditInv /\ HeldInv
  BY DEF IInv
<1>2. CASE /\ UNCHANGED <<initialized, maxItems, maxBytes, windows, granted>>
           /\ (~senderDone' /\ ~sendClosed') => (~senderDone /\ ~sendClosed)
  BY <1>1, <1>2 DEF WindowInv
<1>3. CASE Sender /\ ~AcceptCredit
  <2>1. UNCHANGED <<initialized, maxItems, maxBytes, windows, granted>>
    BY ZenonT(30), <1>3 DEF Sender, SendBegin, TakeCreditCheck, TakeCredit, HasCredit,
       SpendCredit, SenderWake, SendWrite, SendWriteFails, CloseSend, CloseSendEnd,
       SenderContext, SenderFinish, FinishSender, sendClosed
  <2>2. ~sendClosed' => ~sendClosed
    BY ZenonT(30), <1>3 DEF Sender, SendBegin, TakeCreditCheck, TakeCredit, HasCredit,
       SpendCredit, SenderWake, SendWrite, SendWriteFails, CloseSend, CloseSendEnd,
       SenderContext, SenderFinish, FinishSender, sendClosed
  <2>3. ~senderDone' => ~senderDone
    BY ZenonT(30), <1>3 DEF Sender, SendBegin, TakeCreditCheck, TakeCredit, HasCredit,
       SpendCredit, SenderWake, SendWrite, SendWriteFails, CloseSend, CloseSendEnd,
       SenderContext, SenderFinish, FinishSender
  <2>4. QED
    BY SMTT(30), <1>2, <2>1, <2>2, <2>3
<1>4. CASE AcceptCredit
  <2>1. UNCHANGED <<granted, sendState>> /\ windows # <<>>
    BY <1>4 DEF AcceptCredit, Notify
  <2>2. CASE senderDone \/ sendClosed
    <3>1. UNCHANGED <<initialized, maxItems, maxBytes>>
      BY SMTT(30), <1>1, <1>4, <2>2 DEF AcceptCredit, Notify, TypeOK
    <3>2. senderDone' \/ sendClosed'
      BY ZenonT(30), <1>4, <2>1, <2>2 DEF AcceptCredit, Notify, sendClosed
    <3>3. QED
      BY ZenonT(30), <1>1, <3>1, <3>2 DEF WindowInv
  <2>3. CASE ~senderDone /\ ~sendClosed /\ initialized
    <3>1. initialized' /\ UNCHANGED <<maxItems, maxBytes>>
      BY ZenonT(30), <1>4, <2>3 DEF AcceptCredit, Notify
    <3>2. QED
      BY <1>1, <2>3, <3>1 DEF WindowInv
  <2>4. CASE ~senderDone /\ ~sendClosed /\ ~initialized
    <3>1. /\ Head(windows) = WindowFrame(RecvBuffer, RecvBytes)
          /\ Head(windows).items # 0 /\ Head(windows).bytes # 0
      BY <1>0, <2>1, <2>4, WindowLegal
    <3>2. /\ initialized'
          /\ maxItems' = Head(windows).items /\ maxBytes' = Head(windows).bytes
      BY ZenonT(30), <1>4, <2>4, <3>1 DEF AcceptCredit, Notify
    <3>3. QED
      BY <3>1, <3>2 DEF WindowInv, WindowFrame
  <2>5. QED
    BY ZenonT(30), <2>2, <2>3, <2>4
<1>5. CASE GrantInitialCredit
  <2>1. windows = <<>>
    BY <1>0, <1>1, <1>5 DEF GrantInitialCredit, CreditInv
  <2>2. windows' = <<WindowFrame(RecvBuffer, RecvBytes)>>
    BY <1>0, <1>5, <2>1 DEF GrantInitialCredit
  <2>3. UNCHANGED <<initialized, maxItems, maxBytes>>
    BY <1>5 DEF GrantInitialCredit
  <2>4. windows' # <<>> /\ Head(windows') = WindowFrame(RecvBuffer, RecvBytes)
    BY <2>2
  <2>5. QED
    BY <1>1, <2>3, <2>4 DEF WindowInv
<1>6. ASSUME NEW r \in Receivers, WriteWindow(r)
      PROVE  WindowInv'
  <2> DEFINE f == WindowFrame(heldItems[r], heldBytes[r])
  <2>1. /\ UNCHANGED <<initialized, maxItems, maxBytes, granted, senderDone, sendState>>
        /\ windows' = windows \/ windows' = Append(windows, f)
    BY SMTT(30), <1>6 DEF WriteWindow
  <2>2. f \in WindowFrames /\ windows \in Seq(WindowFrames)
    BY <1>1, <1>6 DEF WriteWindow, HeldInv, TypeOK, WindowFrame, WindowFrames
  <2> HIDE DEF f
  <2>3. windows # <<>> => windows' # <<>> /\ Head(windows') = Head(windows)
    BY <2>1, <2>2
  <2>4. QED
    BY SMTT(30), <1>1, <2>1, <2>3 DEF WindowInv, sendClosed
<1>7. CASE DeliverItem \/ DeliverEnd \/ ReceiverContext \/ ReceiverFinish \/ UNCHANGED vars
           \/ \E r \in Receivers : RecvTake(r) \/ RecvWait(r) \/ RecvDrain(r) \/ RecvEmpty(r)
                                   \/ RecvReturn(r) \/ ReceivePayload(r) \/ ReturnCredit(r)
  <2>1. UNCHANGED <<initialized, maxItems, maxBytes, windows, granted, senderDone, sendState>>
    BY ZenonT(30), <1>7 DEF DeliverItem, Fits, DeliverEnd, ReceiverContext,
       ReceiverFinish, vars, RecvTake, RecvWait, RecvDrain, RecvEmpty, RecvReturn,
       ReceivePayload, ReturnCredit
  <2>2. QED
    BY SMTT(30), <1>2, <2>1 DEF sendClosed
<1>8. QED
  BY SMTT(30), <1>3, <1>4, <1>5, <1>6, <1>7 DEF Next, Receiver

\* Neither deliverItem nor acceptCredit ever finds a limit exceeded.
LEMMA FaultStep ==
  ASSUME IInv, [Next]_vars
  PROVE  NoFlowFault'
<1> USE DEF creditVars, callVars, sendEnds, sendVars, readVars, returnVars,
        recvVars, recvEnds
<1>0. SUFFICES ASSUME FlowControl PROVE fault' = "none"
  BY DEF NoFlowFault
<1>1. fault = "none"
  BY SMTT(30), <1>0 DEF IInv, NoFlowFault
<1>2. CASE DeliverItem
  BY <1>0, <1>1, <1>2, ItemFits DEF DeliverItem, Fits
<1>3. CASE AcceptCredit
  <2>1. CASE senderDone \/ sendClosed
    BY ZenonT(30), <1>1, <1>3, <2>1 DEF AcceptCredit, Notify
  <2>2. CASE ~senderDone /\ ~sendClosed
    <3>1. windows # <<>>
      BY <1>3 DEF AcceptCredit, Notify
    <3>2. IF initialized THEN /\ Head(windows).items # 0
                              /\ Head(windows).items <= maxItems - items
                              /\ Head(windows).bytes <= maxBytes - bytes
                         ELSE Head(windows).items # 0 /\ Head(windows).bytes # 0
      BY SMTT(30), <1>0, <2>2, <3>1, WindowLegal
    <3>3. QED
      BY ZenonT(30), <1>1, <1>3, <3>2 DEF AcceptCredit, Notify
  <2>3. QED
    BY ZenonT(30), <2>1, <2>2
<1>4. CASE Sender /\ ~AcceptCredit
  BY ZenonT(30), <1>1, <1>4 DEF Sender, SendBegin, TakeCreditCheck, TakeCredit, HasCredit,
     SpendCredit, SenderWake, SendWrite, SendWriteFails, CloseSend, CloseSendEnd,
     SenderContext, SenderFinish
<1>5. CASE UNCHANGED vars \/ (Receiver /\ ~DeliverItem)
  BY ZenonT(30), <1>1, <1>5 DEF Receiver, GrantInitialCredit, DeliverEnd, RecvTake,
     RecvWait, RecvDrain, RecvEmpty, RecvReturn, ReceivePayload, ReturnCredit,
     WriteWindow, ReceiverContext, ReceiverFinish, vars
<1>6. QED
  BY <1>2, <1>3, <1>4, <1>5 DEF Next
-----------------------------------------------------------------------------
\* CloseSend holds sendMu when it writes the end frame: nothing follows it.
LEMMA EndStep ==
  ASSUME IInv, [Next]_vars
  PROVE  EndInv'
<1> USE DEF creditVars, callVars, sendEnds, sendVars, readVars, returnVars,
        recvVars, recvEnds
<1>0. EndInv /\ TypeOK
  BY DEF IInv
<1>1. wire \in Seq(ItemFrames \cup EndFrames)
  BY <1>0 DEF TypeOK
<1>2. CASE SendWrite
  <2>1. /\ sendPc = "write" /\ sendPc' = "idle" /\ sendState' = sendState
        /\ wire' = Append(wire, ItemFrame(sendSize))
    BY <1>2 DEF SendWrite
  <2>2. \A i \in 1..Len(wire) : wire[i].type # "end"
    BY ZenonT(30), <1>0, <2>1 DEF EndInv
  <2>3. /\ ItemFrame(sendSize) \in ItemFrames \cup EndFrames
        /\ ItemFrame(sendSize).type # "end"
    BY SMTT(30), <1>0 DEF TypeOK, ItemFrame, ItemFrames
  <2>4. \A i \in 1..Len(wire') : wire'[i].type # "end"
    BY SMTT(30), <1>1, <2>1, <2>2, <2>3, AppendProperties, LenProperties
  <2>5. QED
    BY <2>1, <2>4 DEF EndInv
<1>3. CASE CloseSendEnd
  <2>1. /\ sendState = "closing" /\ sendState' = "closed"
        /\ sendPc = "idle" /\ sendPc' = sendPc
        /\ wire' = wire \/ wire' = Append(wire, EndFrame)
    BY <1>3 DEF CloseSendEnd
  <2>2. \A i \in 1..Len(wire) : wire[i].type # "end"
    BY <1>0, <2>1 DEF EndInv
  <2>3. EndFrame \in ItemFrames \cup EndFrames
    BY DEF EndFrame, EndFrames
  <2>4. \A i \in 1..Len(wire') : wire'[i].type = "end" => i = Len(wire')
    BY SMTT(30), <1>1, <2>1, <2>2, <2>3, AppendProperties, LenProperties
  <2>5. QED
    BY <2>1, <2>4 DEF EndInv
<1>4. CASE DeliverItem \/ DeliverEnd
  <2>1. /\ UNCHANGED <<sendPc, sendState>> /\ wire # <<>> /\ wire' = Tail(wire)
    BY <1>4 DEF DeliverItem, Fits, DeliverEnd
  <2>2. /\ Len(wire) \in Nat /\ Len(wire') = Len(wire) - 1
        /\ \A i \in 1..Len(wire') : wire'[i] = wire[i + 1]
    BY <1>1, <2>1, HeadTailProperties, LenProperties
  <2>3. ASSUME NEW i \in 1..Len(wire'), wire'[i].type = "end"
        PROVE  i = Len(wire') /\ sendState' = "closed"
    <3>1. i + 1 \in 1..Len(wire) /\ wire[i + 1].type = "end"
      BY <2>2, <2>3
    <3>2. i + 1 = Len(wire) /\ sendState = "closed"
      BY <1>0, <3>1 DEF EndInv
    <3>3. i \in Int /\ Len(wire') = (i + 1) - 1
      BY <2>2, <3>2
    <3>4. QED
      BY <2>1, <3>2, <3>3
  <2>4. QED
    BY SMTT(30), <1>0, <2>1, <2>3 DEF EndInv
<1>5. CASE SendBegin \/ TakeCreditCheck \/ TakeCredit \/ SenderWake \/ SendWriteFails
           \/ CloseSend \/ AcceptCredit \/ SenderContext \/ SenderFinish
  <2>1. /\ wire' = wire
        /\ sendState' = sendState \/ (sendState = "open" /\ sendState' = "closing")
        /\ \/ sendPc' = sendPc
           \/ sendPc # "idle"
           \/ sendState = "open" /\ sendState' = sendState
    BY ZenonT(30), <1>5 DEF SendBegin, TakeCreditCheck, TakeCredit, HasCredit,
       SpendCredit, SenderWake, SendWriteFails, CloseSend, AcceptCredit, Notify,
       SenderContext, SenderFinish, sendError, sendClosed
  <2>2. QED
    BY SMTT(30), <1>0, <2>1 DEF EndInv
<1>6. CASE UNCHANGED vars \/ (Receiver /\ ~DeliverItem /\ ~DeliverEnd)
  <2>1. UNCHANGED <<sendPc, sendState, wire>>
    BY ZenonT(30), <1>6 DEF Receiver, GrantInitialCredit, RecvTake, RecvWait, RecvDrain,
       RecvEmpty, RecvReturn, ReceivePayload, ReturnCredit, WriteWindow, ReceiverContext,
       ReceiverFinish, vars
  <2>2. QED
    BY SMTT(30), <1>0, <2>1 DEF EndInv
<1>7. QED
  BY <1>2, <1>3, <1>4, <1>5, <1>6 DEF Next, Sender

\* Items are neither lost nor made up on the way from Send to Recv.
LEMMA CountStep ==
  ASSUME IInv, [Next]_vars
  PROVE  CountInv'
<1> USE DEF creditVars, callVars, sendEnds, sendVars, readVars, returnVars,
        recvVars, recvEnds
<1>0. CountInv /\ EndInv /\ TypeOK /\ EndsInv /\ SumsOK
  BY SMTT(30), SumTypes DEF IInv
<1>1. /\ wire \in Seq(ItemFrames \cup EndFrames) /\ recvCh \in Seq(Nat)
      /\ sendSize \in Nat
  BY SMTT(30), <1>0 DEF TypeOK
<1>2. /\ sent \in Nat /\ received \in Nat /\ Queued \in Nat /\ ItemsOf(wire) \in Nat
  BY <1>0 DEF TypeOK, SumsOK
<1>3. CASE SendWrite
  <2>1. /\ sendPc = "write" /\ sent' = sent + 1
        /\ UNCHANGED <<received, recvCh, recvErr>>
        /\ wire' = Append(wire, ItemFrame(sendSize))
    BY <1>3 DEF SendWrite
  <2>2. /\ ItemFrame(sendSize) \in ItemFrames \cup EndFrames
        /\ ItemFrame(sendSize).items = 1
    BY <1>1 DEF ItemFrame, ItemFrames
  <2>3. ItemsOf(wire') = ItemsOf(wire) + 1
    BY SMTT(30), <1>1, <2>1, <2>2, FramesCarryCredit, CreditAppend
  <2>4. recvErr # "eof"
    BY <1>0, <2>1 DEF CountInv, EndInv
  <2>5. Queued' = Queued
    BY <2>1 DEF Queued
  <2>6. received' + Queued' + ItemsOf(wire') <= sent'
    BY SMTT(30), <1>0, <1>2, <2>1, <2>3, <2>5 DEF CountInv
  <2>7. ~recvClosed => sent' = received' + Queued' + ItemsOf(wire')
    BY SMTT(30), <1>0, <1>2, <2>1, <2>3, <2>5 DEF CountInv
  <2>8. QED
    BY SMTT(30), <2>1, <2>4, <2>6, <2>7 DEF CountInv, recvClosed
<1>4. CASE CloseSendEnd
  <2>1. /\ sendState = "closing" /\ UNCHANGED <<sent, received, recvCh, recvErr>>
        /\ wire' = wire \/ wire' = Append(wire, EndFrame)
    BY <1>4 DEF CloseSendEnd
  <2>2. EndFrame \in ItemFrames \cup EndFrames /\ EndFrame.items = 0
    BY DEF EndFrame, EndFrames
  <2>3. ItemsOf(Append(wire, EndFrame)) = ItemsOf(wire) + 0
    BY <1>1, <2>2, FramesCarryCredit, CreditAppend
  <2>4. ItemsOf(wire') = ItemsOf(wire)
    <3>1. CASE wire' = Append(wire, EndFrame)
      BY <1>2, <2>3, <3>1
    <3>2. QED
      BY <2>1, <3>1
  <2>5. recvErr # "eof" /\ Queued' = Queued
    BY <1>0, <2>1 DEF CountInv, Queued
  <2>6. QED
    BY SMTT(30), <1>0, <2>1, <2>4, <2>5 DEF CountInv, recvClosed
<1>5. CASE DeliverItem
  <2>1. /\ wire # <<>> /\ wire' = Tail(wire) /\ Head(wire).type = "item"
        /\ UNCHANGED <<sent, received>>
        /\ \/ /\ recvClosed \/ receiverDone
              /\ UNCHANGED <<recvCh, recvErr>>
           \/ /\ recvCh' = Append(recvCh, Head(wire).bytes)
              /\ recvErr' = recvErr
           \/ /\ recvErr' = "failed" /\ recvCh' = recvCh
    BY <1>5 DEF DeliverItem, Fits, FinishReceiver
  <2>2. Head(wire) \in ItemFrames \cup EndFrames
    BY <1>1, <2>1, HeadTailProperties
  <2>3. Head(wire).items = 1 /\ Head(wire).bytes \in Nat
    BY <2>1, <2>2 DEF ItemFrames, EndFrames
  <2>4. ItemsOf(wire) = 1 + ItemsOf(wire')
    BY <1>1, <2>1, <2>3, FramesCarryCredit, CreditTail
  <2>5. ItemsOf(wire') \in Nat
    <3>1. wire' \in Seq(ItemFrames \cup EndFrames)
      BY <1>1, <2>1, HeadTailProperties
    <3>2. QED
      BY <3>1, FramesCarryCredit, CreditType
  <2>6. recvErr # "eof"
    BY <1>0, <2>1 DEF CountInv
  <2>7. CASE recvCh' = Append(recvCh, Head(wire).bytes) /\ recvErr' = recvErr
    <3>1. Queued' = Queued + 1
      BY SMTT(30), <1>1, <2>3, <2>7, AppendProperties DEF Queued
    <3>2. received' + Queued' + ItemsOf(wire') = received + Queued + ItemsOf(wire)
      BY <1>2, <2>1, <2>4, <2>5, <3>1
    <3>3. QED
      BY SMTT(30), <1>0, <2>1, <2>6, <2>7, <3>2 DEF CountInv, recvClosed
  <2>8. CASE recvCh' = recvCh /\ (recvErr' = "failed" \/ (recvClosed /\ recvErr' = recvErr))
    <3>1. Queued' = Queued
      BY <2>8 DEF Queued
    <3>2. received' + Queued' + ItemsOf(wire') <= received + Queued + ItemsOf(wire)
      BY SMTT(30), <1>2, <2>1, <2>4, <2>5, <3>1
    <3>3. received' + Queued' + ItemsOf(wire') <= sent'
      <4>1. /\ received' \in Nat /\ Queued' \in Nat /\ sent' \in Nat
            /\ received + Queued + ItemsOf(wire) <= sent
        BY SMTT(30), <1>0, <1>2, <2>1, <3>1 DEF CountInv
      <4>2. QED
        BY SMTT(30), <1>2, <2>1, <2>4, <2>5, <3>1, <4>1
    <3>4. QED
      BY <2>6, <2>8, <3>3 DEF CountInv, recvClosed
  <2>9. QED
    BY SMTT(30), <1>0, <2>1, <2>7, <2>8 DEF EndsInv
<1>6. CASE DeliverEnd
  <2>1. /\ wire # <<>> /\ wire' = Tail(wire) /\ Head(wire).type = "end"
        /\ UNCHANGED <<sent, received, recvCh, sendState>>
        /\ recvErr' = IF recvClosed THEN recvErr ELSE "eof"
    BY <1>6 DEF DeliverEnd
  <2>2. Head(wire) = wire[1] /\ Len(wire) \in Nat /\ Len(wire) > 0
    BY <1>1, <2>1
  <2>3. Len(wire) = 1 /\ sendState = "closed"
    <3>1. 1 \in 1..Len(wire) /\ wire[1].type = "end"
      BY <2>1, <2>2
    <3>2. QED
      BY ZenonT(30), <1>0, <3>1 DEF EndInv
  <2>4. wire' = <<>>
    BY <1>1, <2>1, <2>3, HeadTailProperties
  <2>5. Head(wire).items = 0
    BY <1>1, <2>1, HeadTailProperties DEF ItemFrames, EndFrames
  <2>6. ItemsOf(wire') = 0
    <3>1. <<>> \in Seq(ItemFrames \cup EndFrames)
      OBVIOUS
    <3>2. ItemsOf(<<>>) = 0
      BY ZenonT(30), <3>1, FramesCarryCredit, CreditType
    <3>3. QED
      BY <2>4, <3>2
  <2>7. ItemsOf(wire) = 0
    BY <1>1, <2>1, <2>5, <2>6, FramesCarryCredit, CreditTail
  <2>8. Queued' = Queued
    BY <2>1 DEF Queued
  <2>9. /\ received' + Queued' + ItemsOf(wire') <= sent'
        /\ ~recvClosed => sent' = received' + Queued'
    BY <1>0, <1>2, <2>1, <2>6, <2>7, <2>8 DEF CountInv
  <2>10. QED
    BY SMTT(30), <1>0, <2>1, <2>3, <2>4, <2>8, <2>9 DEF CountInv, recvClosed
<1>7. ASSUME NEW r \in Receivers, RecvTake(r)
      PROVE  CountInv'
  <2>1. /\ UNCHANGED <<wire, sent, recvErr, sendState>>
        /\ recvCh # <<>> /\ recvCh' = Tail(recvCh) /\ received' = received + 1
    BY <1>7 DEF RecvTake
  <2>2. Queued' = Queued - 1
    BY <1>1, <2>1, HeadTailProperties DEF Queued
  <2>3. received' + Queued' = received + Queued
    BY SMTT(30), <1>2, <2>1, <2>2
  <2>4. QED
    BY SMTT(30), <1>0, <2>1, <2>3 DEF CountInv, recvClosed
<1>8. CASE ReceiverFinish \/ \E r \in Receivers : WriteWindow(r)
  <2>1. /\ UNCHANGED <<wire, sent, received, recvCh, sendState>>
        /\ recvErr' = recvErr \/ (~recvClosed /\ recvErr' = "failed")
    BY <1>8 DEF ReceiverFinish, FinishReceiver, WriteWindow
  <2>2. QED
    BY ZenonT(30), <1>0, <2>1 DEF CountInv, recvClosed, Queued
<1>9. CASE Sender /\ ~SendWrite /\ ~CloseSendEnd
  <2>1. /\ UNCHANGED <<wire, sent, received, recvCh, recvErr>>
        /\ sendState = "closed" => sendState' = "closed"
    BY ZenonT(30), <1>9 DEF Sender, SendBegin, TakeCreditCheck, TakeCredit, HasCredit,
       SpendCredit, SenderWake, SendWriteFails, CloseSend, AcceptCredit, Notify,
       SenderContext, SenderFinish
  <2>2. QED
    BY SMTT(30), <1>0, <2>1 DEF CountInv, recvClosed, Queued
<1>10. CASE UNCHANGED vars \/ GrantInitialCredit \/ ReceiverContext
            \/ \E r \in Receivers : RecvWait(r) \/ RecvDrain(r) \/ RecvEmpty(r)
                                    \/ RecvReturn(r) \/ ReceivePayload(r) \/ ReturnCredit(r)
  <2>1. UNCHANGED <<wire, sent, received, recvCh, recvErr, sendState>>
    BY ZenonT(30), <1>10 DEF GrantInitialCredit, RecvWait, RecvDrain, RecvEmpty, RecvReturn,
       ReceivePayload, ReturnCredit, ReceiverContext, vars
  <2>2. QED
    BY SMTT(30), <1>0, <2>1 DEF CountInv, recvClosed, Queued
<1>11. QED
  BY SMTT(30), <1>3, <1>4, <1>5, <1>6, <1>7, <1>8, <1>9, <1>10 DEF Next, Receiver
-----------------------------------------------------------------------------
\* A Recv call reports the end of a queue that nothing can be added to.
LEMMA EofStep ==
  ASSUME IInv, [Next]_vars
  PROVE  EofInv'
<1> USE DEF creditVars, callVars, sendEnds, sendVars, readVars, returnVars,
        recvVars, recvEnds
<1>0. EofInv /\ CountInv /\ EndsInv /\ TypeOK
  BY DEF IInv
<1>1. recvPc \in [Receivers -> {"idle", "wait", "drain", "report",
                                "taken", "decode", "grant"}]
  BY <1>0 DEF TypeOK
<1>2. CASE Sender \/ GrantInitialCredit \/ UNCHANGED vars
  <2>1. UNCHANGED <<recvPc, recvErr, receiverCtx, recvCh, sawEOF>>
    BY ZenonT(30), <1>2 DEF Sender, SendBegin, TakeCreditCheck, TakeCredit, HasCredit,
       SpendCredit, SenderWake, SendWrite, SendWriteFails, CloseSend, CloseSendEnd,
       AcceptCredit, Notify, SenderContext, SenderFinish, GrantInitialCredit, vars
  <2>2. QED
    BY SMTT(30), <1>0, <2>1 DEF EofInv, recvClosed
<1>3. CASE DeliverItem
  <2>1. /\ wire # <<>> /\ UNCHANGED <<recvPc, sawEOF>>
        /\ \/ UNCHANGED <<recvCh, recvErr, receiverCtx>>
           \/ ~recvClosed /\ UNCHANGED <<recvErr, receiverCtx>>
           \/ receiverCtx' = TRUE /\ recvErr' # "none" /\ UNCHANGED recvCh
    BY <1>3 DEF DeliverItem, Fits, FinishReceiver, recvClosed
  <2>2. recvErr # "eof"
    BY <1>0, <2>1 DEF CountInv
  <2>3. QED
    BY SMTT(30), <1>0, <1>1, <2>1, <2>2 DEF EofInv, recvClosed
<1>4. CASE DeliverEnd \/ ReceiverContext \/ ReceiverFinish
  <2>1. /\ UNCHANGED <<recvPc, sawEOF, recvCh>>
        /\ recvClosed => recvErr' = recvErr
        /\ receiverCtx => receiverCtx'
    BY SMTT(30), <1>0, <1>4 DEF DeliverEnd, ReceiverContext, ReceiverFinish,
       FinishReceiver, EndsInv
  <2>2. QED
    BY ZenonT(30), <1>0, <2>1 DEF EofInv, recvClosed
<1>5. ASSUME NEW r \in Receivers, RecvTake(r)
      PROVE  EofInv'
  <2>1. /\ UNCHANGED <<recvErr, receiverCtx, sawEOF>> /\ recvCh # <<>>
        /\ recvPc' = [recvPc EXCEPT ![r] = "taken"]
    BY <1>5 DEF RecvTake
  <2>2. QED
    BY SMTT(30), <1>0, <1>1, <2>1 DEF EofInv, recvClosed
<1>6. ASSUME NEW r \in Receivers,
             RecvWait(r) \/ RecvDrain(r) \/ RecvEmpty(r) \/ ReceivePayload(r)
             \/ ReturnCredit(r)
      PROVE  EofInv'
  <2>1. /\ UNCHANGED <<recvErr, receiverCtx, sawEOF, recvCh>>
        /\ \/ \E pc \in {"wait", "decode", "idle", "grant"} :
                 recvPc' = [recvPc EXCEPT ![r] = pc]
           \/ /\ recvClosed \/ receiverCtx
              /\ recvPc' = [recvPc EXCEPT ![r] = "drain"]
           \/ /\ recvPc[r] = "drain" /\ recvCh = <<>>
              /\ recvPc' = [recvPc EXCEPT ![r] = "report"]
    <3>1. CASE RecvWait(r)
      BY SMTT(30), <3>1 DEF RecvWait
    <3>2. CASE RecvDrain(r)
      BY SMTT(30), <3>2 DEF RecvDrain
    <3>3. CASE RecvEmpty(r)
      BY ZenonT(30), <3>3 DEF RecvEmpty
    <3>4. CASE ReceivePayload(r)
      BY SMTT(30), <3>4 DEF ReceivePayload
    <3>5. CASE ReturnCredit(r)
      BY SMTT(30), <3>5 DEF ReturnCredit
    <3>6. QED
      BY ZenonT(30), <1>6, <3>1, <3>2, <3>3, <3>4, <3>5
  <2>2. QED
    BY ZenonT(30), <1>0, <1>1, <2>1 DEF EofInv, recvClosed
<1>7. ASSUME NEW r \in Receivers, RecvReturn(r)
      PROVE  EofInv'
  <2>1. /\ UNCHANGED <<recvErr, receiverCtx, recvCh>> /\ recvPc[r] = "report"
        /\ recvPc' = [recvPc EXCEPT ![r] = "idle"]
        /\ sawEOF' = (sawEOF \/ recvErr = "eof")
    BY <1>7 DEF RecvReturn
  <2>2. QED
    BY ZenonT(30), <1>0, <1>1, <2>1 DEF EofInv, recvClosed
<1>8. ASSUME NEW r \in Receivers, WriteWindow(r)
      PROVE  EofInv'
  <2>1. /\ UNCHANGED <<recvCh, sawEOF>>
        /\ recvPc' = [recvPc EXCEPT ![r] = "idle"]
        /\ recvClosed => recvErr' = recvErr
        /\ receiverCtx => receiverCtx'
    BY <1>8 DEF WriteWindow, FinishReceiver
  <2>2. QED
    BY <1>0, <1>1, <2>1 DEF EofInv, recvClosed
<1>9. QED
  BY SMTT(30), <1>2, <1>3, <1>4, <1>5, <1>6, <1>7, <1>8 DEF Next, Receiver
-----------------------------------------------------------------------------
\* The items between the two applications stay within the window.
LEMMA PipeStep ==
  ASSUME IInv, [Next]_vars
  PROVE  PipeInv'
<1> USE DEF creditVars, callVars, sendEnds, sendVars, readVars, returnVars,
        recvVars, recvEnds
<1>0. SUFFICES ASSUME FlowControl PROVE PipeInv'
  BY DEF PipeInv
<1>1. CreditInv /\ TypeOK /\ TypeOK' /\ HeldInv /\ PipeInv
  BY TypeStep DEF IInv
<1>2. SumsOK /\ SumsOK'
  BY ZenonT(30), <1>1, SumTypes, SumTypesNext
<1>a. /\ items \in Nat /\ WritingItems \in Nat /\ Total(heldItems) \in Nat
      /\ returnItems \in Nat /\ ItemsOf(windows) \in Nat /\ ItemsOf(wire) \in Nat
      /\ Queued \in Nat /\ sent \in Nat /\ received \in Nat /\ RecvBuffer \in Nat
  BY ZenonT(30), <1>1, <1>2, StreamAssumption DEF SumsOK, TypeOK
<1>b. /\ items' \in Nat /\ WritingItems' \in Nat /\ Total(heldItems') \in Nat
      /\ returnItems' \in Nat /\ ItemsOf(windows') \in Nat
      /\ sent' \in Nat /\ received' \in Nat
  BY <1>1, <1>2 DEF SumsOK, TypeOK
<1>c. PipeItems <= RecvBuffer /\ (~granted => sent = 0)
  BY <1>0, <1>1 DEF PipeInv
<1>d. ~granted => OutstandingItems = 0
  BY SMTT(30), <1>0, <1>1 DEF CreditInv
<1>e. PipeItems \in Int /\ PipeItems' \in Int
  BY SMTT(30), <1>a, <1>b DEF PipeItems
<1>3. ASSUME PipeItems' <= PipeItems, granted' = granted, sent' = sent
      PROVE  PipeInv'
  BY <1>a, <1>c, <1>e, <1>3 DEF PipeInv
<1>4. CASE \/ SendBegin \/ TakeCreditCheck \/ SenderWake \/ CloseSend \/ CloseSendEnd
           \/ SenderContext \/ SenderFinish \/ UNCHANGED vars \/ SendWriteFails
  <2>1. /\ UNCHANGED <<items, heldItems, returnItems, windows, granted, sent, received>>
        /\ sendPc' = sendPc \/ sendPc' # "write"
    BY ZenonT(30), <1>4 DEF SendBegin, TakeCreditCheck, SenderWake, CloseSend, CloseSendEnd,
       SenderContext, SenderFinish, SendWriteFails, vars
  <2>2. WritingItems' <= WritingItems
    BY <2>1 DEF WritingItems
  <2>3. /\ items' = items /\ Total(heldItems') = Total(heldItems)
        /\ returnItems' = returnItems /\ ItemsOf(windows') = ItemsOf(windows)
        /\ sent' = sent /\ received' = received
    BY <2>1
  <2>4. PipeItems' <= PipeItems
    BY <1>a, <1>b, <2>2, <2>3 DEF PipeItems
  <2>5. QED
    BY SMTT(30), <1>3, <2>1, <2>4
<1>5. CASE \/ ReceiverContext \/ ReceiverFinish \/ DeliverItem \/ DeliverEnd
           \/ \E r \in Receivers : RecvWait(r) \/ RecvDrain(r) \/ RecvEmpty(r)
                                   \/ RecvReturn(r) \/ ReceivePayload(r)
  <2>1. UNCHANGED <<items, heldItems, returnItems, windows, granted, sent, received,
                    sendPc>>
    BY ZenonT(30), <1>5 DEF ReceiverContext, ReceiverFinish, DeliverItem, Fits,
       DeliverEnd, RecvWait, RecvDrain, RecvEmpty, RecvReturn, ReceivePayload
  <2>2. PipeItems' = PipeItems
    BY <2>1 DEF PipeItems, WritingItems
  <2>3. QED
    BY SMTT(30), <1>3, <1>e, <2>1, <2>2
<1>6. CASE TakeCredit
  <2>1. /\ UNCHANGED <<heldItems, returnItems, windows, granted, sent, received>>
        /\ sendPc = "take"
        /\ \/ items' = items /\ sendPc' # "write"
           \/ items' = items - 1 /\ sendPc' = "write"
    BY <1>0, <1>6 DEF TakeCredit, HasCredit, SpendCredit
  <2>2. items' + WritingItems' = items + WritingItems
    BY <1>a, <2>1 DEF WritingItems
  <2>3. /\ Total(heldItems') = Total(heldItems)
        /\ returnItems' = returnItems /\ ItemsOf(windows') = ItemsOf(windows)
        /\ sent' = sent /\ received' = received
    BY <2>1
  <2>4. PipeItems' = PipeItems
    BY <2>2, <2>3 DEF PipeItems
  <2>5. QED
    BY SMTT(30), <1>3, <1>e, <2>1, <2>4
<1>7. CASE SendWrite
  <2>1. /\ UNCHANGED <<items, heldItems, returnItems, windows, granted, received>>
        /\ sendPc = "write" /\ sendPc' = "idle" /\ sent' = sent + 1
    BY <1>7 DEF SendWrite
  <2>2. WritingItems = 1 /\ WritingItems' = 0
    BY <2>1 DEF WritingItems
  <2>3. /\ items' = items /\ Total(heldItems') = Total(heldItems)
        /\ returnItems' = returnItems /\ ItemsOf(windows') = ItemsOf(windows)
        /\ sent' = sent + 1 /\ received' = received
    BY SMTT(30), <2>1
  <2>4. PipeItems' = PipeItems
    BY SMTT(30), <1>a, <2>2, <2>3 DEF PipeItems
  <2>5. OutstandingItems # 0
    BY <1>a, <2>2 DEF OutstandingItems
  <2>6. granted
    BY <1>d, <2>5
  <2>7. QED
    BY SMTT(30), <1>c, <2>1, <2>4, <2>6 DEF PipeInv
<1>8. CASE AcceptCredit
  <2>1. /\ UNCHANGED <<heldItems, returnItems, granted, sent, received, sendPc>>
        /\ windows # <<>> /\ windows' = Tail(windows)
        /\ items' = items \/ items' = items + Head(windows).items
    BY ZenonT(30), <1>8 DEF AcceptCredit, Notify
  <2>2. windows \in Seq(WindowFrames) /\ Head(windows) \in WindowFrames
    BY SMTT(30), <1>1, <2>1, HeadTailProperties DEF TypeOK
  <2>3. /\ ItemsOf(windows) = Head(windows).items + ItemsOf(windows')
        /\ Head(windows).items \in Nat
    BY ZenonT(30), <2>1, <2>2, FramesCarryCredit, CreditTail DEF WindowFrames
  <2>4. items' + ItemsOf(windows') <= items + ItemsOf(windows)
    <3>1. CASE items' = items
      BY <1>a, <1>b, <2>3, <3>1
    <3>2. CASE items' = items + Head(windows).items
      BY <1>a, <1>b, <2>3, <3>2
    <3>3. QED
      BY <2>1, <3>1, <3>2
  <2>5. /\ WritingItems' = WritingItems /\ Total(heldItems') = Total(heldItems)
        /\ returnItems' = returnItems /\ sent' = sent /\ received' = received
    BY <2>1 DEF WritingItems
  <2>6. PipeItems' <= PipeItems
    BY <1>a, <1>b, <2>4, <2>5 DEF PipeItems
  <2>7. QED
    BY ZenonT(30), <1>3, <2>1, <2>6
<1>9. CASE GrantInitialCredit
  <2>1. /\ UNCHANGED <<items, heldItems, returnItems, sent, received, sendPc>>
        /\ ~granted /\ granted' = TRUE
        /\ windows' = Append(windows, WindowFrame(RecvBuffer, RecvBytes))
    BY ZenonT(30), <1>0, <1>9 DEF GrantInitialCredit
  <2>2. /\ windows \in Seq(WindowFrames)
        /\ WindowFrame(RecvBuffer, RecvBytes) \in WindowFrames
        /\ WindowFrame(RecvBuffer, RecvBytes).items = RecvBuffer
    BY <1>1, StreamAssumption DEF TypeOK, WindowFrame, WindowFrames
  <2>3. ItemsOf(windows') = ItemsOf(windows) + RecvBuffer
    BY <2>1, <2>2, FramesCarryCredit, CreditAppend
  <2>4. /\ items = 0 /\ WritingItems = 0 /\ Total(heldItems) = 0
        /\ returnItems = 0 /\ ItemsOf(windows) = 0
    <3> DEFINE a == items
               b == WritingItems
               c == ItemsOf(wire)
               d == Queued
               e == Total(heldItems)
               f == returnItems
               g == ItemsOf(windows)
    <3>1. a + b + c + d + e + f + g = 0
      BY <1>d, <2>1 DEF OutstandingItems
    <3>2. /\ a \in Nat /\ b \in Nat /\ c \in Nat /\ d \in Nat
          /\ e \in Nat /\ f \in Nat /\ g \in Nat
      BY <1>a
    <3> HIDE DEF a, b, c, d, e, f, g
    <3>3. a = 0 /\ b = 0 /\ e = 0 /\ f = 0 /\ g = 0
      BY <3>1, <3>2
    <3>4. QED
      BY <3>3 DEF a, b, e, f, g
  <2>5. /\ items' = items /\ WritingItems' = WritingItems
        /\ Total(heldItems') = Total(heldItems) /\ returnItems' = returnItems
        /\ sent' = 0 /\ received' = received
    BY <1>c, <2>1 DEF WritingItems
  <2>6. PipeItems' <= RecvBuffer
    BY <1>a, <2>3, <2>4, <2>5 DEF PipeItems
  <2>7. QED
    BY <2>1, <2>6 DEF PipeInv
<1>10. ASSUME NEW r \in Receivers, RecvTake(r)
       PROVE  PipeInv'
  <2>1. /\ UNCHANGED <<items, returnItems, windows, granted, sent, sendPc>>
        /\ received' = received + 1
        /\ heldItems' = [heldItems EXCEPT ![r] = 1]
    BY SMTT(30), <1>10 DEF RecvTake
  <2>2. heldItems[r] = 0
    BY SMTT(30), <1>1, <1>10 DEF RecvTake, HeldInv
  <2>3. Total(heldItems') + 0 = Total(heldItems) + 1
    BY ZenonT(30), <1>1, <2>1, <2>2, HeldUpdate
  <2>4. /\ items' = items /\ WritingItems' = WritingItems /\ sent' = sent
        /\ returnItems' = returnItems /\ ItemsOf(windows') = ItemsOf(windows)
        /\ received' = received + 1
    BY <2>1 DEF WritingItems
  <2>5. PipeItems' <= PipeItems
    BY <1>a, <1>b, <2>3, <2>4 DEF PipeItems
  <2>6. QED
    BY SMTT(30), <1>3, <2>1, <2>5
<1>11. ASSUME NEW r \in Receivers, ReturnCredit(r)
       PROVE  PipeInv'
  <2>1. /\ UNCHANGED <<items, windows, granted, sent, received, sendPc>>
        /\ \/ /\ heldItems' = [heldItems EXCEPT ![r] = 0]
              /\ returnItems' = returnItems \/ returnItems' = returnItems + 1
           \/ /\ heldItems' = [heldItems EXCEPT ![r] = returnItems + 1]
              /\ returnItems' = 0
    BY ZenonT(30), <1>11 DEF ReturnCredit
  <2>2. heldItems[r] = 1
    BY <1>1, <1>11 DEF ReturnCredit, HeldInv
  <2>3. returnItems + 1 \in Nat /\ 0 \in Nat
    BY <1>a
  <2>4. /\ Total([heldItems EXCEPT ![r] = 0]) + 1 = Total(heldItems) + 0
        /\ Total([heldItems EXCEPT ![r] = returnItems + 1]) + 1
             = Total(heldItems) + (returnItems + 1)
    BY ZenonT(30), <1>1, <2>2, <2>3, HeldUpdate
  <2>5. \/ Total(heldItems') + 1 = Total(heldItems) + 0 /\ returnItems' = returnItems
        \/ Total(heldItems') + 1 = Total(heldItems) + 0 /\ returnItems' = returnItems + 1
        \/ Total(heldItems') + 1 = Total(heldItems) + (returnItems + 1) /\ returnItems' = 0
    BY ZenonT(30), <2>1, <2>4
  <2>6. Total(heldItems') + returnItems' <= Total(heldItems) + returnItems
    <3> DEFINE t == Total(heldItems)
               u == Total(heldItems')
               i == returnItems
               j == returnItems'
    <3>1. t \in Nat /\ u \in Nat /\ i \in Nat /\ j \in Nat
      BY SMTT(30), <1>a, <1>b
    <3>2. \/ u + 1 = t + 0 /\ j = i
          \/ u + 1 = t + 0 /\ j = i + 1
          \/ u + 1 = t + (i + 1) /\ j = 0
      BY <2>5
    <3> HIDE DEF t, u, i, j
    <3>3. u + j <= t + i
      BY <3>1, <3>2
    <3>4. QED
      BY <3>3 DEF t, u, i, j
  <2>7. /\ items' = items /\ WritingItems' = WritingItems /\ sent' = sent
        /\ received' = received /\ ItemsOf(windows') = ItemsOf(windows)
    BY SMTT(30), <2>1 DEF WritingItems
  <2>8. PipeItems' <= PipeItems
    BY SMTT(30), <1>a, <1>b, <2>6, <2>7 DEF PipeItems
  <2>9. QED
    BY ZenonT(30), <1>3, <2>1, <2>8
<1>12. ASSUME NEW r \in Receivers, WriteWindow(r)
       PROVE  PipeInv'
  <2> DEFINE h == heldItems[r]
             f == WindowFrame(h, heldBytes[r])
  <2>1. /\ UNCHANGED <<items, returnItems, granted, sent, received, sendPc>>
        /\ heldItems' = [heldItems EXCEPT ![r] = 0]
        /\ windows' = Append(windows, f) \/ windows' = windows
    BY ZenonT(30), <1>12 DEF WriteWindow
  <2>2. h \in Nat /\ heldBytes[r] \in Nat /\ h > 0
    BY ZenonT(30), <1>1, <1>12 DEF WriteWindow, HeldInv, TypeOK
  <2>3. f \in WindowFrames /\ f.items = h /\ windows \in Seq(WindowFrames)
    <3>1. f \in WindowFrames /\ f.items = h
      BY <2>2 DEF WindowFrame, WindowFrames
    <3>2. QED
      BY ZenonT(30), <1>1, <3>1 DEF TypeOK
  <2>4. Total(heldItems') + h = Total(heldItems) + 0
    BY ZenonT(30), <1>1, <2>1, HeldUpdate
  <2> HIDE DEF h, f
  <2>5. ItemsOf(Append(windows, f)) = ItemsOf(windows) + h
    BY <2>3, FramesCarryCredit, CreditAppend
  <2>6. /\ items' = items /\ WritingItems' = WritingItems /\ sent' = sent
        /\ received' = received /\ returnItems' = returnItems
        /\ \/ ItemsOf(windows') = ItemsOf(windows) + h
           \/ ItemsOf(windows') = ItemsOf(windows)
    BY ZenonT(30), <2>1, <2>5 DEF WritingItems
  <2>7. PipeItems' <= PipeItems
    BY <1>a, <1>b, <2>2, <2>4, <2>6 DEF PipeItems
  <2>8. QED
    BY ZenonT(30), <1>3, <2>1, <2>7
<1>13. QED
  BY SMTT(30), <1>4, <1>5, <1>6, <1>7, <1>8, <1>9, <1>10, <1>11, <1>12 DEF Next, Sender,
     Receiver
-----------------------------------------------------------------------------
\* Before the first window no credit exists and nothing is in flight.
LEMMA InitInv == Init => IInv
<1> SUFFICES ASSUME Init PROVE IInv
  OBVIOUS
<1>1. TypeOK
  <2>1. <<>> \in Seq(ItemFrames \cup EndFrames) /\ <<>> \in Seq(WindowFrames)
        /\ <<>> \in Seq(Nat) /\ 0 \in Nat
    OBVIOUS
  <2>2. /\ recvPc \in [Receivers -> {"idle", "wait", "drain", "report",
                                    "taken", "decode", "grant"}]
        /\ heldItems \in [Receivers -> Nat] /\ heldBytes \in [Receivers -> Nat]
    BY DEF Init
  <2>3. QED
    BY ZenonT(30), <2>1, <2>2 DEF Init, TypeOK
<1>2. EndsInv /\ HeldInv /\ WindowInv /\ EndInv /\ EofInv
      /\ NoFlowFault /\ NoLostWakeup /\ NoStrandedCredit
  BY DEF Init, EndsInv, HeldInv, WindowInv, EndInv, EofInv, NoFlowFault,
     NoLostWakeup, NoStrandedCredit, sendClosed, recvClosed
<1>3. Total(heldItems) = 0 /\ Total(heldBytes) = 0 /\ Total(TakenBytes) = 0
  <2>1. ASSUME NEW f \in [Receivers -> Nat], \A r \in Receivers : f[r] = 0
        PROVE  Total(f) = 0
    <3>1. NumReceivers \in Nat /\ Receivers = 1..NumReceivers
      BY StreamAssumption DEF Receivers
    <3>2. f \in Seq(Nat) /\ Len(f) = NumReceivers
      BY <3>1, SeqOfFunction
    <3>3. QED
      BY <2>1, <3>1, <3>2, TotalZero
  <2>2. /\ heldItems \in [Receivers -> Nat] /\ heldBytes \in [Receivers -> Nat]
        /\ TakenBytes \in [Receivers -> Nat]
        /\ \A r \in Receivers : heldItems[r] = 0 /\ heldBytes[r] = 0 /\ TakenBytes[r] = 0
    BY DEF Init, TakenBytes
  <2>3. QED
    BY <2>1, <2>2
<1>4. /\ ItemsOf(wire) = 0 /\ BytesOf(wire) = 0
      /\ ItemsOf(windows) = 0 /\ BytesOf(windows) = 0
  BY ZenonT(30), <1>1, FramesCarryCredit, CreditType DEF Init, TypeOK
<1>5. Total(recvCh) = 0 /\ Queued = 0
  <2>1. recvCh = <<>> /\ recvCh \in Seq(Nat)
    BY <1>1 DEF Init, TypeOK
  <2>2. Len(recvCh) = 0 /\ \A i \in 1..Len(recvCh) : recvCh[i] = 0
    BY <2>1
  <2>3. QED
    BY ZenonT(30), <2>1, <2>2, TotalZero DEF Queued
<1>6. /\ items = 0 /\ bytes = 0 /\ returnItems = 0 /\ returnBytes = 0
      /\ WritingItems = 0 /\ WritingBytes = 0 /\ sent = 0 /\ received = 0
  BY DEF Init, WritingItems, WritingBytes
<1>7. OutstandingItems = 0 /\ OutstandingBytes = 0 /\ PipeItems = 0
  BY <1>3, <1>4, <1>5, <1>6 DEF OutstandingItems, OutstandingBytes, PipeItems
<1>8. RecvBuffer \in Nat /\ RecvBytes \in Nat
  BY StreamAssumption
<1>9. BufferInv
  BY <1>3, <1>5, <1>8 DEF BufferInv, Init
<1>10. CreditInv /\ PipeInv
  BY <1>6, <1>7, <1>8 DEF CreditInv, CreditConserved, PipeInv, Init
<1>11. CountInv
  BY <1>4, <1>5, <1>6 DEF CountInv, Init, recvClosed
<1>12. QED
  BY <1>1, <1>2, <1>9, <1>10, <1>11 DEF IInv

\* Every step of either endpoint, its connection reader or its goroutines
\* preserves the inductive invariant.
LEMMA StepInv == IInv /\ [Next]_vars => IInv'
<1> SUFFICES ASSUME IInv, [Next]_vars PROVE IInv'
  OBVIOUS
<1>1. TypeOK' /\ EndsInv' /\ HeldInv' /\ BufferInv'
  BY TypeStep, EndsStep, HeldStep, BufferStep
<1>2. CreditInv' /\ WindowInv' /\ NoFlowFault'
  BY CreditStep, WindowStep, FaultStep
<1>3. EndInv' /\ CountInv' /\ EofInv' /\ PipeInv'
  BY EndStep, CountStep, EofStep, PipeStep
<1>4. NoLostWakeup' /\ NoStrandedCredit'
  BY WakeupStep, StrandedStep
<1>5. QED
  BY <1>1, <1>2, <1>3, <1>4 DEF IInv

\* IInv is an invariant of the stream, under any interleaving of Send,
\* CloseSend, Recv, Cancel and the two connection readers.
THEOREM Inductive == Spec => []IInv
<1>1. QED
  BY InitInv, StepInv, PTL DEF Spec

\* The fields of both streams and the frames in flight keep their types; the
\* counters of streamFlow and bufferedBytes never go negative.
THEOREM TypeCorrect == Spec => []TypeOK
<1>1. IInv => TypeOK
  BY DEF IInv
<1>2. QED
  BY <1>1, Inductive, PTL

\* takeCredit, deliverItem, returnCredit and acceptCredit conserve credit.
THEOREM CreditIsConserved == Spec => []CreditConserved
<1>1. IInv => CreditConserved
  BY DEF IInv, CreditInv
<1>2. QED
  BY <1>1, Inductive, PTL

\* With stream-credit-v1, deliverItem never answers ErrBackpressure and
\* acceptCredit never answers ErrProtocol.
THEOREM NoFault == Spec => []NoFlowFault
<1>1. IInv => NoFlowFault
  BY DEF IInv
<1>2. QED
  BY <1>1, Inductive, PTL

\* deliverItem keeps the receive queue within both of its limits.
THEOREM BufferIsBounded == Spec => []BufferBounded
<1>1. IInv => BufferBounded
  <2> SUFFICES ASSUME IInv PROVE BufferBounded
    OBVIOUS
  <2>1. TypeOK /\ BufferInv
    BY DEF IInv
  <2>2. Total(recvCh) \in Nat /\ Total(TakenBytes) \in Nat
    BY <2>1, SumTypes DEF SumsOK
  <2>3. QED
    BY <2>1, <2>2 DEF BufferInv, BufferBounded
<1>2. QED
  BY <1>1, Inductive, PTL

\* A parked takeCredit that could proceed has a token waiting for it.
THEOREM WakeupsArrive == Spec => []NoLostWakeup
<1>1. IInv => NoLostWakeup
  BY DEF IInv
<1>2. QED
  BY <1>1, Inductive, PTL

\* returnCredit leaves no credit behind that nobody will return.
THEOREM CreditReturns == Spec => []NoStrandedCredit
<1>1. IInv => NoStrandedCredit
  BY DEF IInv
<1>2. QED
  BY <1>1, Inductive, PTL

\* Once Recv reported io.EOF to a live context, every item sent was received.
THEOREM EOFIsComplete == Spec => []EOFMeansComplete
<1>1. IInv => EOFMeansComplete
  <2> SUFFICES ASSUME IInv, sawEOF, ~receiverCtx PROVE received = sent
    BY DEF EOFMeansComplete
  <2>1. recvErr = "eof" /\ recvCh = <<>>
    BY DEF IInv, EofInv
  <2>2. sent = received + Queued /\ received \in Nat
    BY <2>1 DEF IInv, CountInv, TypeOK
  <2>3. Queued = 0
    BY <2>1 DEF Queued
  <2>4. QED
    BY <2>2, <2>3
<1>2. QED
  BY <1>1, Inductive, PTL
-----------------------------------------------------------------------------
(***************************************************************************)
(* The refinement of the bounded pipe.                                     *)
(***************************************************************************)

\* Every step of the stream is a step of the pipe or leaves it unchanged.
LEMMA PipeRefines ==
  ASSUME IInv, [Next]_vars
  PROVE  [Pipe!Next]_(Pipe!pipeVars)
<1> USE DEF creditVars, callVars, sendEnds, sendVars, readVars, returnVars,
        recvVars, recvEnds
<1>1. TypeOK /\ SumsOK /\ EndInv /\ CountInv /\ EofInv /\ PipeInv
  BY SumTypes DEF IInv
<1>a. /\ items \in Nat /\ Total(heldItems) \in Nat
      /\ returnItems \in Nat /\ ItemsOf(windows) \in Nat /\ ItemsOf(wire) \in Nat
      /\ Queued \in Nat /\ sent \in Nat /\ received \in Nat /\ RecvBuffer \in Nat
  BY <1>1, StreamAssumption DEF SumsOK, TypeOK
<1>2. CASE SendWrite
  <2>1. /\ UNCHANGED <<sendState, received, receiverCtx, sawEOF>>
        /\ sendPc = "write" /\ sent' = sent + 1
    BY <1>2 DEF SendWrite
  <2>2. sendState # "closed" /\ WritingItems = 1
    BY <1>1, <2>1 DEF EndInv, WritingItems
  <2>3. FlowControl => sent - received < RecvBuffer
    <3>1. FlowControl => PipeItems <= RecvBuffer
      BY <1>1 DEF PipeInv
    <3>2. QED
      BY <1>a, <2>2, <3>1 DEF PipeItems
  <2>4. Pipe!Write
    BY <2>1, <2>2, <2>3 DEF Pipe!Write
  <2>5. QED
    BY <2>4 DEF Pipe!Next
<1>3. ASSUME NEW r \in Receivers, RecvTake(r)
      PROVE  Pipe!Take
  <2>1. /\ UNCHANGED <<sendState, sent, receiverCtx, sawEOF>>
        /\ recvCh # <<>> /\ received' = received + 1
    BY <1>3 DEF RecvTake
  <2>2. Queued > 0
    BY <1>1, <2>1 DEF TypeOK, Queued
  <2>3. received < sent
    BY <1>1, <1>a, <2>2 DEF CountInv
  <2>4. QED
    BY <2>1, <2>3 DEF Pipe!Take
<1>4. CASE CloseSendEnd
  <2>1. /\ UNCHANGED <<sent, received, receiverCtx, sawEOF>> /\ sendState' = "closed"
    BY <1>4 DEF CloseSendEnd
  <2>2. Pipe!End
    BY <2>1 DEF Pipe!End
  <2>3. QED
    BY <2>2 DEF Pipe!Next
<1>5. CASE DeliverItem \/ ReceiverContext \/ ReceiverFinish
           \/ \E r \in Receivers : WriteWindow(r)
  <2>1. /\ UNCHANGED <<sent, received, sendState, sawEOF>>
        /\ receiverCtx' = TRUE \/ UNCHANGED receiverCtx
    BY ZenonT(30), <1>5 DEF DeliverItem, Fits, ReceiverContext, ReceiverFinish,
       FinishReceiver, WriteWindow
  <2>2. Pipe!Cancel \/ UNCHANGED Pipe!pipeVars
    BY <2>1 DEF Pipe!Cancel, Pipe!pipeVars
  <2>3. QED
    BY ZenonT(30), <2>2 DEF Pipe!Next
<1>6. ASSUME NEW r \in Receivers, RecvReturn(r)
      PROVE  Pipe!ReportEOF \/ UNCHANGED Pipe!pipeVars
  <2>1. /\ UNCHANGED <<sent, received, sendState, receiverCtx>>
        /\ recvPc[r] = "report"
        /\ sawEOF' = (sawEOF \/ recvErr = "eof")
    BY <1>6 DEF RecvReturn
  <2>2. CASE recvErr = "eof"
    <3>1. sendState = "closed" /\ sent = received + Queued
      BY <1>1, <2>2 DEF CountInv
    <3>2. recvCh = <<>> \/ receiverCtx
      BY <1>1, <2>1 DEF EofInv
    <3>3. received = sent \/ receiverCtx
      BY <1>a, <3>1, <3>2 DEF Queued
    <3>4. sawEOF' = TRUE
      BY ZenonT(30), <2>1, <2>2
    <3>5. QED
      BY <2>1, <3>1, <3>3, <3>4 DEF Pipe!ReportEOF
  <2>3. CASE recvErr # "eof"
    <3>1. sawEOF' = sawEOF
      BY <1>1, <2>1, <2>3 DEF TypeOK
    <3>2. QED
      BY <2>1, <3>1 DEF Pipe!pipeVars
  <2>4. QED
    BY <2>2, <2>3
<1>7. CASE \/ SendBegin \/ TakeCreditCheck \/ TakeCredit \/ SenderWake \/ SendWriteFails
           \/ CloseSend \/ AcceptCredit \/ SenderContext \/ SenderFinish
           \/ GrantInitialCredit \/ DeliverEnd \/ UNCHANGED vars
           \/ \E r \in Receivers : RecvWait(r) \/ RecvDrain(r) \/ RecvEmpty(r)
                                   \/ ReceivePayload(r) \/ ReturnCredit(r)
  <2>1. /\ UNCHANGED <<sent, received, receiverCtx, sawEOF>>
        /\ (sendState = "closed") = (sendState' = "closed")
    BY ZenonT(30), <1>7 DEF SendBegin, TakeCreditCheck, TakeCredit, HasCredit,
       SpendCredit, SenderWake, SendWriteFails, CloseSend, AcceptCredit, Notify,
       SenderContext, SenderFinish, GrantInitialCredit, DeliverEnd, RecvWait, RecvDrain,
       RecvEmpty, ReceivePayload, ReturnCredit, vars
  <2>2. QED
    BY <2>1 DEF Pipe!pipeVars
<1>8. QED
  BY <1>2, <1>3, <1>4, <1>5, <1>6, <1>7 DEF Next, Sender, Receiver, Pipe!Next

\* Send, CloseSend and Recv, with their credit, queue and wakeups, implement
\* the bounded pipe of StreamPipe.
THEOREM Refinement == Spec => ImplementsPipe
<1>1. Init => Pipe!Init
  BY DEF Init, Pipe!Init
<1>2. IInv /\ [Next]_vars => [Pipe!Next]_(Pipe!pipeVars)
  BY PipeRefines
<1>3. QED
  BY <1>1, <1>2, Inductive, PTL DEF Spec, ImplementsPipe, Pipe!Spec
=============================================================================
