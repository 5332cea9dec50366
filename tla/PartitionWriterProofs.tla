------------------------ MODULE PartitionWriterProofs ------------------------
(***************************************************************************)
(* Proofs about PartitionWriter, for every set of messages, every size and *)
(* every configuration: the type invariant, the limits of a batch and the  *)
(* timer; and, when no message has an empty value, the order and the       *)
(* completeness of the answers, the copies that the retries append, and    *)
(* the refinement of PartitionSink.                                        *)
(***************************************************************************)
EXTENDS PartitionWriter, SequenceTheorems, TLAPS

-----------------------------------------------------------------------------
(* Sequences. *)

\* Appending to the right operand of a concatenation appends to the whole.
LEMMA ConcatAppend ==
  \A a, b \in Seq(Msgs), x \in Msgs : a \o Append(b, x) = Append(a \o b, x)
<1> TAKE a, b \in Seq(Msgs), x \in Msgs
<1>1. <<x>> \in Seq(Msgs) /\ a \o b \in Seq(Msgs)
  BY ConcatProperties
<1>2. a \o (b \o <<x>>) = (a \o b) \o <<x>>
  BY <1>1, ConcatAssociative
<1> QED
  BY Zenon, <1>1, <1>2, AppendIsConcat

\* A nonempty sequence is its head before its tail.
LEMMA HeadConcatTail ==
  ASSUME NEW S, NEW s \in Seq(S), s # <<>>
  PROVE  /\ Head(s) \in S
         /\ Tail(s) \in Seq(S)
         /\ s = <<Head(s)>> \o Tail(s)
<1>1. Head(s) \in S /\ Tail(s) \in Seq(S)
  BY Zenon, HeadTailProperties
<1>2. <<Head(s)>> \o Tail(s) \in Seq(S)
  BY <1>1, ConcatProperties
<1>3. Len(<<Head(s)>> \o Tail(s)) = Len(s)
  BY <1>1, ConcatProperties, HeadTailProperties
<1>4. ASSUME NEW i \in 1 .. Len(s)
      PROVE  s[i] = (<<Head(s)>> \o Tail(s))[i]
  BY <1>1
<1> QED
  BY Zenon, <1>1, <1>2, <1>3, <1>4, SeqEqual

\* The head of one sequence moves to the end of the one before it.
LEMMA MoveHead ==
  ASSUME NEW S, NEW a \in Seq(S), NEW s \in Seq(S), s # <<>>
  PROVE  Append(a, Head(s)) \o Tail(s) = a \o s
<1>1. Head(s) \in S /\ Tail(s) \in Seq(S) /\ s = <<Head(s)>> \o Tail(s)
  BY Zenon, HeadConcatTail
<1>2. <<Head(s)>> \in Seq(S)
  BY <1>1
<1>3. (a \o <<Head(s)>>) \o Tail(s) = a \o (<<Head(s)>> \o Tail(s))
  BY <1>1, <1>2, ConcatAssociative
<1> QED
  BY Zenon, <1>1, <1>3, AppendIsConcat

-----------------------------------------------------------------------------
(* Types. *)

USE DEF chanVars, batchVars, timerVars, sendVars, resVars, vars

\* The elements of a sequence over a set are in that set.
LEMMA ElementsOf ==
  ASSUME NEW S, NEW s \in Seq(S)
  PROVE  Elements(s) \subseteq S
  BY DEF Elements

\* The initial state has the types declared.
LEMMA InitTypeOK == Init => TypeOK
<1> SUFFICES ASSUME Init
             PROVE  TypeOK
  BY Zenon
<1>1. closed \in BOOLEAN /\ batchTimerRunning \in BOOLEAN /\ done \in BOOLEAN
  BY Zenon DEF Init
<1>2. attempts \in 0 .. Retries /\ batchSizeBytes \in Nat
  BY PartitionWriterAssumption DEF PartitionWriterAssumption, Init
<1>3. copies \in [Msgs -> Nat]
  BY Zenon DEF Init
<1>4. /\ msgs \in Seq(Msgs) /\ batch \in Seq(Msgs)
      /\ accepted \in Seq(Msgs) /\ answered \in Seq(Msgs)
  BY DEF Init
<1>5. /\ pc \in PCs /\ lastMsg \in Msgs \cup {NoMsg} /\ timer \in {"idle", "armed", "fired"}
      /\ conn \in {"nil", "open", "skewed", "closed"} /\ acked \in SUBSET Msgs
  BY Zenon DEF Init, PCs
<1> QED
  BY Zenon, <1>1, <1>2, <1>3, <1>4, <1>5 DEF TypeOK

\* The two operations on the timer keep its types.
LEMMA TimerTypes ==
  ASSUME TypeOK, ResetTimer \/ StopTimer
  PROVE  batchTimerRunning' \in BOOLEAN /\ timer' \in {"idle", "armed", "fired"}
  BY Zenon DEF TypeOK, ResetTimer, StopTimer

\* Respond empties the batch and extends answered with messages.
LEMMA RespondTypes ==
  ASSUME TypeOK, NEW nil, Respond(nil)
  PROVE  /\ answered' \in Seq(Msgs) /\ acked' \in SUBSET Msgs
         /\ batch' \in Seq(Msgs) /\ batchSizeBytes' \in Nat /\ pc' \in PCs
<1>1. answered' \in Seq(Msgs)
  BY Zenon, ConcatProperties DEF TypeOK, Respond
<1>2. acked' \in SUBSET Msgs
  BY Zenon, ElementsOf DEF TypeOK, Respond
<1> QED
  BY <1>1, <1>2 DEF Respond, PCs

\* The copies of a message in the log of the broker are counted by a number.
LEMMA AppendTypes ==
  ASSUME TypeOK, NEW appended, Append_(appended)
  PROVE  copies' \in [Msgs -> Nat]
  BY SMTT(40) DEF TypeOK, Append_

\* Every step of the goroutine, of its sender and of its timer keeps the types.
LEMMA NextTypeOK == TypeOK /\ [Next]_vars => TypeOK'
<1> SUFFICES ASSUME TypeOK, [Next]_vars
             PROVE  TypeOK'
  BY Zenon
<1> USE PartitionWriterAssumption DEF PartitionWriterAssumption
<1>1. ASSUME NEW m \in Msgs, Send(m)
      PROVE  TypeOK'
  BY <1>1 DEF Send, TypeOK
<1>2. CASE CloseMsgs
  BY Zenon, <1>2 DEF CloseMsgs, TypeOK
<1>3. CASE TimerFires
  BY Zenon, <1>3 DEF TimerFires, TypeOK
<1>4. CASE Top
  <2>1. CASE lastMsg # NoMsg /\ lastMsg \notin EmptyValued
    <3>1. batchTimerRunning' \in BOOLEAN /\ timer' \in {"idle", "armed", "fired"}
      BY Zenon, <1>4, <2>1, TimerTypes DEF Top
    <3>2. lastMsg \in Msgs /\ Size[lastMsg] \in Nat
      BY Zenon, <2>1 DEF TypeOK
    <3>3. batch' = Append(batch, lastMsg) /\ batchSizeBytes' = batchSizeBytes + Size[lastMsg]
      BY Zenon, <1>4, <2>1 DEF Top
    <3>4. batch' \in Seq(Msgs) /\ batchSizeBytes' \in Nat
      BY <3>2, <3>3 DEF TypeOK
    <3> QED
      BY Zenon, <1>4, <2>1, <3>1, <3>4 DEF Top, TypeOK, PCs
  <2>2. CASE ~(lastMsg # NoMsg /\ lastMsg \notin EmptyValued)
    BY Zenon, <1>4, <2>2 DEF Top, TypeOK, PCs
  <2> QED
    BY Zenon, <2>1, <2>2
<1>5. CASE Exit
  BY Zenon, <1>5 DEF Exit, TypeOK, PCs
<1>6. CASE ReceiveOverLimit
  <2>1. Head(msgs) \in Msgs /\ Tail(msgs) \in Seq(Msgs)
    BY Zenon, <1>6, HeadTailProperties DEF ReceiveOverLimit, TypeOK
  <2> QED
    BY Zenon, <1>6, <2>1 DEF ReceiveOverLimit, TypeOK, PCs
<1>7. CASE Receive
  <2>1. Head(msgs) \in Msgs /\ Tail(msgs) \in Seq(Msgs)
    BY Zenon, <1>7, HeadTailProperties DEF Receive, TypeOK
  <2>2. batchTimerRunning' \in BOOLEAN /\ timer' \in {"idle", "armed", "fired"}
    BY Zenon, <1>7, TimerTypes DEF Receive
  <2>3. batch' \in Seq(Msgs) /\ batchSizeBytes' \in Nat
    <3>1. batch \in Seq(Msgs) /\ batch' = Append(batch, Head(msgs))
      BY Zenon, <1>7 DEF Receive, TypeOK
    <3>2. batch' \in Seq(Msgs)
      BY ONLY <2>1, <3>1, AppendProperties, Zenon
    <3>3. batchSizeBytes' = batchSizeBytes + Size[Head(msgs)] /\ batchSizeBytes \in Nat
      BY Zenon, <1>7 DEF Receive, TypeOK
    <3>4. Size[Head(msgs)] \in Nat
      BY Zenon, <2>1, PartitionWriterAssumption DEF PartitionWriterAssumption
    <3> QED
      BY ONLY <3>2, <3>3, <3>4
  <2> QED
    BY Zenon, <1>7, <2>1, <2>2, <2>3 DEF Receive, TypeOK, PCs
<1>8. CASE ReceiveClosed
  BY Zenon, <1>8, TimerTypes DEF ReceiveClosed, TypeOK, PCs
<1>9. CASE ReceiveTick
  BY Zenon, <1>9 DEF ReceiveTick, TypeOK, PCs
<1>10. CASE Flush
  BY <1>10, TimerTypes DEF Flush, TypeOK, PCs
<1>11. CASE DialOK
  BY Zenon, <1>11 DEF DialOK, TypeOK
<1>12. ASSUME NEW reply \in Replies, DialError(reply)
       PROVE  TypeOK'
  <2>1. CASE shouldRetry(reply)
    BY <1>12, <2>1 DEF DialError, shouldRetry, TypeOK
  <2>2. CASE ~shouldRetry(reply)
    BY Zenon, <1>12, <2>2, RespondTypes DEF DialError, TypeOK
  <2> QED
    BY Zenon, <2>1, <2>2
<1>13. CASE ProduceOK
  BY Zenon, <1>13, RespondTypes, AppendTypes DEF ProduceOK, TypeOK
<1>14. CASE ProduceDuplicate
  BY Zenon, <1>14, RespondTypes DEF ProduceDuplicate, TypeOK
<1>15. ASSUME NEW reply \in Replies, NEW appended \in BOOLEAN, ProduceError(reply, appended)
       PROVE  TypeOK'
  <2>1. copies' \in [Msgs -> Nat]
    BY Zenon, <1>15, AppendTypes DEF ProduceError
  <2>2. CASE shouldRetry(reply)
    BY <1>15, <2>1, <2>2 DEF ProduceError, shouldRetry, TypeOK
  <2>3. CASE ~shouldRetry(reply)
    BY Zenon, <1>15, <2>1, <2>3, RespondTypes DEF ProduceError, TypeOK
  <2> QED
    BY Zenon, <2>2, <2>3
<1>16. CASE ProduceSkewed
  BY Zenon, <1>16, AppendTypes DEF ProduceSkewed, TypeOK, PCs
<1>17. CASE UNCHANGED vars
  BY Zenon, <1>17 DEF TypeOK
<1> QED
  BY Zenon, <1>1, <1>2, <1>3, <1>4, <1>5, <1>6, <1>7, <1>8, <1>9, <1>10, <1>11, <1>12,
     <1>13, <1>14, <1>15, <1>16, <1>17 DEF Next, Loop, Dial, Produce

\* TypeOK is an invariant of the goroutine.
THEOREM TypeCorrect == Spec => []TypeOK
  BY InitTypeOK, NextTypeOK, PTL DEF Spec

-----------------------------------------------------------------------------
(* The timer. *)

\* A batch that the loop goes on with has its timer.
TimerInv ==
  /\ batchTimerRunning <=> timer # "idle"
  /\ pc \in {"top", "select"} /\ batch # <<>> => batchTimerRunning

\* After Respond the batch is empty.
LEMMA RespondEmpties ==
  ASSUME NEW nil, Respond(nil)
  PROVE  batch' = <<>> /\ batchSizeBytes' = 0 /\ pc' = "top"
  BY Zenon DEF Respond

\* Every step keeps TimerInv.
LEMMA NextTimerInv == TypeOK /\ TimerInv /\ [Next]_vars => TimerInv'
<1> SUFFICES ASSUME TypeOK, TimerInv, [Next]_vars
             PROVE  TimerInv'
  BY Zenon
<1>1. ASSUME NEW m \in Msgs, Send(m)
      PROVE  TimerInv'
  BY Zenon, <1>1 DEF Send, TimerInv
<1>2. CASE CloseMsgs
  BY Zenon, <1>2 DEF CloseMsgs, TimerInv
<1>3. CASE TimerFires
  BY Zenon, <1>3 DEF TimerFires, TimerInv
<1>4. CASE Top
  BY Zenon, <1>4 DEF Top, ResetTimer, TimerInv
<1>5. CASE Exit
  BY Zenon, <1>5 DEF Exit, TimerInv
<1>6. CASE ReceiveOverLimit
  BY Zenon, <1>6 DEF ReceiveOverLimit, TimerInv
<1>7. CASE Receive
  BY Zenon, <1>7 DEF Receive, ResetTimer, TimerInv
<1>8. CASE ReceiveClosed
  BY Zenon, <1>8 DEF ReceiveClosed, ResetTimer, TimerInv
<1>9. CASE ReceiveTick
  BY Zenon, <1>9 DEF ReceiveTick, TimerInv
<1>10. CASE Flush
  BY Zenon, <1>10 DEF Flush, StopTimer, TimerInv
<1>11. CASE DialOK
  BY Zenon, <1>11 DEF DialOK, TimerInv
<1>12. ASSUME NEW reply \in Replies, DialError(reply)
       PROVE  TimerInv'
  BY Zenon, <1>12, RespondEmpties DEF DialError, TimerInv
<1>13. CASE ProduceOK
  BY Zenon, <1>13, RespondEmpties DEF ProduceOK, TimerInv
<1>14. CASE ProduceDuplicate
  BY Zenon, <1>14, RespondEmpties DEF ProduceDuplicate, TimerInv
<1>15. ASSUME NEW reply \in Replies, NEW appended \in BOOLEAN, ProduceError(reply, appended)
       PROVE  TimerInv'
  BY Zenon, <1>15, RespondEmpties DEF ProduceError, TimerInv
<1>16. CASE ProduceSkewed
  BY Zenon, <1>16 DEF ProduceSkewed, TimerInv
<1>17. CASE UNCHANGED vars
  BY Zenon, <1>17 DEF TimerInv
<1> QED
  BY <1>1, <1>2, <1>3, <1>4, <1>5, <1>6, <1>7, <1>8, <1>9, <1>10, <1>11, <1>12,
     <1>13, <1>14, <1>15, <1>16, <1>17 DEF Next, Loop, Dial, Produce

\* The flag tells the state of the timer, and run never waits on the channel
\* with a batch in hand and no timer set.
THEOREM TimerCorrect == Spec => []TimerCoversBatch
<1>1. Init => TimerInv
  BY Zenon DEF Init, TimerInv
<1>2. TimerInv => TimerCoversBatch
  BY Zenon DEF TimerInv, TimerCoversBatch
<1> QED
  BY <1>1, <1>2, NextTimerInv, TypeCorrect, PTL DEF Spec

-----------------------------------------------------------------------------
(* The limits of a batch. *)

\* The next pass of the loop brings lastMsg back.
Kept == lastMsg # NoMsg /\ lastMsg \notin EmptyValued

\* A message is parked only when the batch will be flushed, so it comes back to
\* an empty batch; and never when every batch has one message.
BatchInv ==
  /\ batch = <<>> => batchSizeBytes = 0
  /\ Len(batch) <= BatchSize
  /\ batchSizeBytes <= BatchBytes
  /\ pc \in {"top", "select"} => Len(batch) < BatchSize
  /\ pc = "top" /\ Kept => batch = <<>>
  /\ pc = "select" => ~Kept
  /\ lastMsg # NoMsg => BatchSize >= 2

\* Respond leaves a batch that is empty and counts no bytes.
LEMMA RespondBatchInv ==
  ASSUME BatchInv, NEW nil, Respond(nil), UNCHANGED lastMsg
  PROVE  BatchInv'
<1>1. Len(<<>>) = 0
  BY Zenon
<1> QED
  BY <1>1, PartitionWriterAssumption DEF PartitionWriterAssumption, Respond, BatchInv, Kept

\* Every step keeps BatchInv: only a receive that passed OverLimit, or the parked
\* message alone, extends the batch.
LEMMA NextBatchInv == TypeOK /\ BatchInv /\ [Next]_vars => BatchInv'
<1> SUFFICES ASSUME TypeOK, BatchInv, [Next]_vars
             PROVE  BatchInv'
  BY Zenon
<1> USE PartitionWriterAssumption, SizeAssumption DEF PartitionWriterAssumption, SizeAssumption
<1>1. ASSUME NEW m \in Msgs, Send(m)
      PROVE  BatchInv'
  BY Zenon, <1>1 DEF Send, BatchInv, Kept
<1>2. CASE CloseMsgs
  BY Zenon, <1>2 DEF CloseMsgs, BatchInv, Kept
<1>3. CASE TimerFires
  BY Zenon, <1>3 DEF TimerFires, BatchInv, Kept
<1>4. CASE Top
  <2>1. CASE Kept
    <3>1. /\ batch' = Append(batch, lastMsg)
          /\ batchSizeBytes' = batchSizeBytes + Size[lastMsg]
          /\ lastMsg' = NoMsg /\ pc' = "select" /\ pc = "top"
      BY Zenon, <1>4, <2>1 DEF Top, Kept
    <3>2. lastMsg \in Msgs /\ Size[lastMsg] <= BatchBytes /\ Size[lastMsg] \in Nat
      BY Zenon, <2>1 DEF Kept, TypeOK
    <3>3. batch = <<>> /\ batchSizeBytes = 0 /\ BatchSize >= 2
      BY Zenon, <2>1, <3>1 DEF BatchInv, Kept
    <3>4. Len(batch') = 1
      BY <3>1, <3>2, <3>3
    <3> QED
      BY <3>1, <3>2, <3>3, <3>4 DEF BatchInv, Kept
  <2>2. CASE ~Kept
    BY Zenon, <1>4, <2>2 DEF Top, BatchInv, Kept
  <2> QED
    BY Zenon, <2>1, <2>2
<1>5. CASE Exit
  BY Zenon, <1>5 DEF Exit, BatchInv, Kept
<1>6. CASE ReceiveOverLimit
  <2>1. Head(msgs) \in Msgs
    BY Zenon, <1>6, HeadTailProperties DEF ReceiveOverLimit, TypeOK
  <2>2. batch # <<>>
    BY <1>6, <2>1 DEF ReceiveOverLimit, OverLimit, BatchInv
  <2>3. Len(batch) >= 1 /\ Len(batch) < BatchSize
    BY <1>6, <2>2, EmptySeq DEF ReceiveOverLimit, BatchInv, TypeOK
  <2> QED
    BY <1>6, <2>3 DEF ReceiveOverLimit, BatchInv, Kept, TypeOK
<1>7. CASE Receive
  <2>1. Head(msgs) \in Msgs
    BY Zenon, <1>7, HeadTailProperties DEF Receive, TypeOK
  <2>2. /\ batch' = Append(batch, Head(msgs))
        /\ batchSizeBytes' = batchSizeBytes + Size[Head(msgs)]
        /\ Size[Head(msgs)] + batchSizeBytes <= BatchBytes
        /\ lastMsg' = lastMsg /\ pc = "select"
        /\ pc' \in {"flush", "top"}
        /\ pc' = "top" => Len(batch') < BatchSize
    <3>1. /\ batch' = Append(batch, Head(msgs))
          /\ batchSizeBytes' = batchSizeBytes + Size[Head(msgs)]
          /\ lastMsg' = lastMsg /\ pc = "select" /\ pc' \in {"flush", "top"}
      BY Zenon, <1>7 DEF Receive
    <3>2. Size[Head(msgs)] + batchSizeBytes <= BatchBytes
      BY SMTT(40), <1>7, <2>1 DEF Receive, OverLimit, TypeOK
    <3>3. Len(batch') \in Nat
      BY <2>1, <3>1 DEF TypeOK
    <3>4. pc' = "top" => Len(batch') < BatchSize
      BY <1>7, <3>3 DEF Receive
    <3> QED
      BY Zenon, <3>1, <3>2, <3>4
  <2>3. batch' # <<>> /\ Len(batch') = Len(batch) + 1
    <3>1. batch \in Seq(Msgs) /\ batch' = Append(batch, Head(msgs))
      BY Zenon, <2>2 DEF TypeOK
    <3> QED
      BY ONLY <2>1, <3>1, AppendProperties, ZenonT(60)
  <2>4. batchSizeBytes' <= BatchBytes
    BY <2>1, <2>2 DEF TypeOK
  <2>5. Len(batch') <= BatchSize
    BY <2>2, <2>3 DEF BatchInv, TypeOK
  <2>6. ~Kept /\ ~Kept' /\ (lastMsg # NoMsg => BatchSize >= 2)
    BY Zenon, <2>2 DEF BatchInv, Kept
  <2> QED
    BY Zenon, <2>2, <2>3, <2>4, <2>5, <2>6 DEF BatchInv
<1>8. CASE ReceiveClosed
  BY Zenon, <1>8 DEF ReceiveClosed, BatchInv, Kept
<1>9. CASE ReceiveTick
  BY Zenon, <1>9 DEF ReceiveTick, BatchInv, Kept
<1>10. CASE Flush
  <2>1. Len(<<>>) = 0
    BY Zenon
  <2> QED
    BY <1>10, <2>1 DEF Flush, BatchInv, Kept
<1>11. CASE DialOK
  BY Zenon, <1>11 DEF DialOK, BatchInv, Kept
<1>12. ASSUME NEW reply \in Replies, DialError(reply)
       PROVE  BatchInv'
  <2>1. CASE shouldRetry(reply)
    BY Zenon, <1>12, <2>1 DEF DialError, BatchInv, Kept
  <2>2. CASE ~shouldRetry(reply)
    BY Zenon, <1>12, <2>2, RespondBatchInv DEF DialError
  <2> QED
    BY Zenon, <2>1, <2>2
<1>13. CASE ProduceOK
  BY Zenon, <1>13, RespondBatchInv DEF ProduceOK
<1>14. CASE ProduceDuplicate
  BY Zenon, <1>14, RespondBatchInv DEF ProduceDuplicate
<1>15. ASSUME NEW reply \in Replies, NEW appended \in BOOLEAN, ProduceError(reply, appended)
       PROVE  BatchInv'
  <2>1. CASE shouldRetry(reply)
    BY Zenon, <1>15, <2>1 DEF ProduceError, BatchInv, Kept
  <2>2. CASE ~shouldRetry(reply)
    BY Zenon, <1>15, <2>2, RespondBatchInv DEF ProduceError
  <2> QED
    BY Zenon, <2>1, <2>2
<1>16. CASE ProduceSkewed
  BY Zenon, <1>16 DEF ProduceSkewed, BatchInv, Kept
<1>17. CASE UNCHANGED vars
  BY Zenon, <1>17 DEF BatchInv, Kept
<1> QED
  BY Zenon, <1>1, <1>2, <1>3, <1>4, <1>5, <1>6, <1>7, <1>8, <1>9, <1>10, <1>11, <1>12,
     <1>13, <1>14, <1>15, <1>16, <1>17 DEF Next, Loop, Dial, Produce

\* BatchInv holds at the start.
LEMMA InitBatchInv == Init => BatchInv
<1>1. Len(<<>>) = 0
  BY Zenon
<1> QED
  BY <1>1, PartitionWriterAssumption DEF PartitionWriterAssumption, Init, BatchInv, Kept

\* No batch is over batchSize messages or maxMessageBytes bytes.
THEOREM LimitsCorrect == Spec => []BatchWithinLimits
<1>1. BatchInv => BatchWithinLimits
  BY Zenon DEF BatchInv, BatchWithinLimits
<1> QED
  BY <1>1, InitBatchInv, NextBatchInv, TypeCorrect, PTL DEF Spec

-----------------------------------------------------------------------------
(* The order of the answers, when no message has an empty value. *)

\* What is parked is a sequence of messages.
LEMMA ParkedType == TypeOK => Parked \in Seq(Msgs)
  BY DEF TypeOK, Parked

\* A pass of the select starts with no message parked.
LEMMA SelectUnparked ==
  ASSUME EmptyValued = {}, BatchInv, pc = "select"
  PROVE  lastMsg = NoMsg /\ Parked = <<>>
  BY Zenon DEF BatchInv, Kept, Parked

\* Respond moves the batch to the end of what is answered, in order.
LEMMA RespondInOrder ==
  ASSUME TypeOK, InOrder, NEW nil, Respond(nil), UNCHANGED <<accepted, lastMsg, msgs>>
  PROVE  InOrder'
<1>1. answered \o batch \in Seq(Msgs)
  BY Zenon, ConcatProperties DEF TypeOK
<1>2. answered' \o batch' = answered \o batch
  BY Zenon, <1>1, ConcatEmptySeq DEF Respond
<1>3. Parked' = Parked
  BY Zenon DEF Parked
<1> QED
  BY Zenon, <1>2, <1>3 DEF InOrder

\* InOrder depends on nothing but the queues it names.
LEMMA SameInOrder ==
  ASSUME InOrder, UNCHANGED <<accepted, answered, batch, lastMsg, msgs>>
  PROVE  InOrder'
  BY Zenon DEF InOrder, Parked

\* Every step keeps InOrder when no message has an empty value.
LEMMA NextInOrder ==
  ASSUME EmptyValued = {}
  PROVE  TypeOK /\ BatchInv /\ InOrder /\ [Next]_vars => InOrder'
<1> SUFFICES ASSUME TypeOK, BatchInv, InOrder, [Next]_vars
             PROVE  InOrder'
  BY Zenon
<1> DEFINE front == answered \o batch
<1>a. front \in Seq(Msgs) /\ Parked \in Seq(Msgs) /\ front \o Parked \in Seq(Msgs)
  BY Zenon, ParkedType, ConcatProperties DEF TypeOK
<1>b. answered \in Seq(Msgs) /\ batch \in Seq(Msgs) /\ msgs \in Seq(Msgs)
  BY Zenon DEF TypeOK
<1>1. ASSUME NEW m \in Msgs, Send(m)
      PROVE  InOrder'
  <2>1. accepted' = Append(accepted, m) /\ msgs' = Append(msgs, m)
    BY Zenon, <1>1 DEF Send
  <2>2. answered' \o batch' \o Parked' = front \o Parked
    BY Zenon, <1>1 DEF Send, Parked
  <2>3. (front \o Parked) \o Append(msgs, m) = Append((front \o Parked) \o msgs, m)
    BY Zenon, <1>a, <1>b, <1>1, ConcatAppend
  <2> QED
    BY Zenon, <2>1, <2>2, <2>3 DEF InOrder
<1>2. CASE CloseMsgs
  BY Zenon, <1>2, SameInOrder DEF CloseMsgs
<1>3. CASE TimerFires
  BY Zenon, <1>3, SameInOrder DEF TimerFires
<1>4. CASE Top
  <2>1. CASE Kept
    <3>1. /\ batch' = Append(batch, lastMsg) /\ lastMsg' = NoMsg
          /\ UNCHANGED <<accepted, answered, msgs>>
      BY Zenon, <1>4, <2>1 DEF Top, Kept
    <3>2. lastMsg \in Msgs /\ Parked = <<lastMsg>> /\ Parked' = <<>>
      BY Zenon, <2>1, <3>1 DEF Kept, TypeOK, Parked
    <3>3. answered \o Append(batch, lastMsg) = Append(front, lastMsg)
      BY Zenon, <3>2, ConcatAppend DEF TypeOK
    <3>4. Append(front, lastMsg) = front \o Parked
      BY Zenon, <1>a, <3>2, AppendIsConcat
    <3>5. (front \o Parked) \o <<>> = front \o Parked
      BY Zenon, <1>a, ConcatEmptySeq
    <3> QED
      BY Zenon, <3>1, <3>2, <3>3, <3>4, <3>5 DEF InOrder
  <2>2. CASE ~Kept
    BY Zenon, <1>4, <2>2, SameInOrder DEF Top, Kept
  <2> QED
    BY Zenon, <2>1, <2>2
<1>5. CASE Exit
  BY Zenon, <1>5, SameInOrder DEF Exit
<1>6. CASE ReceiveOverLimit
  <2>1. /\ lastMsg' = Head(msgs) /\ msgs' = Tail(msgs) /\ msgs # <<>> /\ pc = "select"
        /\ UNCHANGED <<accepted, answered, batch>>
    BY Zenon, <1>6 DEF ReceiveOverLimit
  <2>2. Parked = <<>>
    BY Zenon, <2>1, SelectUnparked
  <2>3. Head(msgs) \in Msgs
    BY Zenon, <2>1, HeadTailProperties DEF TypeOK
  <2>4. Parked' = <<Head(msgs)>>
    BY Zenon, <2>1, <2>3, PartitionWriterAssumption DEF PartitionWriterAssumption, Parked
  <2>5. front \o <<Head(msgs)>> = Append(front, Head(msgs))
    BY Zenon, <1>a, <2>3, AppendIsConcat
  <2>6. Append(front, Head(msgs)) \o Tail(msgs) = front \o msgs
    BY Zenon, <1>a, <2>1, MoveHead DEF TypeOK
  <2>7. front \o Parked = front
    BY Zenon, <1>a, <2>2, ConcatEmptySeq
  <2> QED
    BY Zenon, <2>1, <2>4, <2>5, <2>6, <2>7 DEF InOrder
<1>7. CASE Receive
  <2>1. /\ batch' = Append(batch, Head(msgs)) /\ msgs' = Tail(msgs) /\ msgs # <<>>
        /\ pc = "select" /\ UNCHANGED <<accepted, answered, lastMsg>>
    BY Zenon, <1>7 DEF Receive
  <2>2. Parked = <<>> /\ Parked' = <<>>
    BY Zenon, <2>1, SelectUnparked DEF Parked
  <2>3. Head(msgs) \in Msgs
    BY Zenon, <2>1, HeadTailProperties DEF TypeOK
  <2>4. answered \o Append(batch, Head(msgs)) = Append(front, Head(msgs))
    BY Zenon, <1>b, <2>3, ConcatAppend
  <2>5. Append(front, Head(msgs)) \o Tail(msgs) = front \o msgs
    BY Zenon, <1>a, <2>1, MoveHead DEF TypeOK
  <2>6. Append(front, Head(msgs)) \in Seq(Msgs)
    BY <1>a, <2>3
  <2>7. front \o <<>> = front /\ Append(front, Head(msgs)) \o <<>> = Append(front, Head(msgs))
    BY Zenon, <1>a, <2>6, ConcatEmptySeq
  <2> QED
    BY Zenon, <2>1, <2>2, <2>4, <2>5, <2>7 DEF InOrder
<1>8. CASE ReceiveClosed
  BY Zenon, <1>8, SameInOrder DEF ReceiveClosed
<1>9. CASE ReceiveTick
  BY Zenon, <1>9, SameInOrder DEF ReceiveTick
<1>10. CASE Flush
  BY Zenon, <1>10, SameInOrder DEF Flush
<1>11. CASE DialOK
  BY Zenon, <1>11, SameInOrder DEF DialOK
<1>12. ASSUME NEW reply \in Replies, DialError(reply)
       PROVE  InOrder'
  <2>1. CASE shouldRetry(reply)
    BY Zenon, <1>12, <2>1, SameInOrder DEF DialError
  <2>2. CASE ~shouldRetry(reply)
    BY Zenon, <1>12, <2>2, RespondInOrder DEF DialError
  <2> QED
    BY Zenon, <2>1, <2>2
<1>13. CASE ProduceOK
  BY Zenon, <1>13, RespondInOrder DEF ProduceOK
<1>14. CASE ProduceDuplicate
  BY Zenon, <1>14, RespondInOrder DEF ProduceDuplicate
<1>15. ASSUME NEW reply \in Replies, NEW appended \in BOOLEAN, ProduceError(reply, appended)
       PROVE  InOrder'
  <2>1. CASE shouldRetry(reply)
    BY Zenon, <1>15, <2>1, SameInOrder DEF ProduceError
  <2>2. CASE ~shouldRetry(reply)
    BY Zenon, <1>15, <2>2, RespondInOrder DEF ProduceError
  <2> QED
    BY Zenon, <2>1, <2>2
<1>16. CASE ProduceSkewed
  BY Zenon, <1>16, SameInOrder DEF ProduceSkewed
<1>17. CASE UNCHANGED vars
  BY Zenon, <1>17, SameInOrder
<1> QED
  BY <1>1, <1>2, <1>3, <1>4, <1>5, <1>6, <1>7, <1>8, <1>9, <1>10, <1>11, <1>12,
     <1>13, <1>14, <1>15, <1>16, <1>17 DEF Next, Loop, Dial, Produce

\* InOrder holds at the start.
LEMMA InitInOrder == Init => InOrder
<1>1. <<>> \o <<>> = <<>>
  BY Zenon, ConcatEmptySeq, EmptySeq
<1> QED
  BY Zenon, <1>1 DEF Init, InOrder, Parked

\* When every message has a value, none is lost, answered twice or overtaken.
THEOREM OrderCorrect ==
  ASSUME EmptyValued = {}
  PROVE  Spec => []InOrder
  BY InitInOrder, NextInOrder, InitBatchInv, NextBatchInv, TypeCorrect, PTL DEF Spec

-----------------------------------------------------------------------------
(* The end of run. *)

\* done is set when the channel is closed and drained and nothing is parked; the
\* flush that follows empties the batch before the loop ends.
DoneInv ==
  /\ done => closed /\ msgs = <<>> /\ lastMsg = NoMsg
  /\ pc = "select" => ~done
  /\ done /\ pc = "top" => batch = <<>>
  /\ pc = "exited" => done /\ batch = <<>> /\ conn \notin {"open", "skewed"}

\* Respond keeps DoneInv.
LEMMA RespondDoneInv ==
  ASSUME DoneInv, NEW nil, Respond(nil), UNCHANGED <<done, closed, msgs, lastMsg>>
  PROVE  DoneInv'
  BY Zenon DEF DoneInv, Respond

\* Every step keeps DoneInv when no message has an empty value.
LEMMA NextDoneInv ==
  ASSUME EmptyValued = {}
  PROVE  TypeOK /\ BatchInv /\ DoneInv /\ [Next]_vars => DoneInv'
<1> SUFFICES ASSUME TypeOK, BatchInv, DoneInv, [Next]_vars
             PROVE  DoneInv'
  BY Zenon
<1>1. ASSUME NEW m \in Msgs, Send(m)
      PROVE  DoneInv'
  BY Zenon, <1>1 DEF Send, DoneInv
<1>2. CASE CloseMsgs
  BY Zenon, <1>2 DEF CloseMsgs, DoneInv
<1>3. CASE TimerFires
  BY Zenon, <1>3 DEF TimerFires, DoneInv
<1>4. CASE Top
  BY Zenon, <1>4 DEF Top, DoneInv
<1>5. CASE Exit
  BY Zenon, <1>5 DEF Exit, DoneInv, TypeOK
<1>6. CASE ReceiveOverLimit
  BY Zenon, <1>6 DEF ReceiveOverLimit, DoneInv
<1>7. CASE Receive
  BY Zenon, <1>7 DEF Receive, DoneInv
<1>8. CASE ReceiveClosed
  BY Zenon, <1>8, SelectUnparked DEF ReceiveClosed, DoneInv
<1>9. CASE ReceiveTick
  BY Zenon, <1>9 DEF ReceiveTick, DoneInv
<1>10. CASE Flush
  BY Zenon, <1>10 DEF Flush, DoneInv
<1>11. CASE DialOK
  BY Zenon, <1>11 DEF DialOK, DoneInv
<1>12. ASSUME NEW reply \in Replies, DialError(reply)
       PROVE  DoneInv'
  <2>1. CASE shouldRetry(reply)
    BY Zenon, <1>12, <2>1 DEF DialError, DoneInv
  <2>2. CASE ~shouldRetry(reply)
    BY Zenon, <1>12, <2>2, RespondDoneInv DEF DialError
  <2> QED
    BY Zenon, <2>1, <2>2
<1>13. CASE ProduceOK
  BY Zenon, <1>13, RespondDoneInv DEF ProduceOK
<1>14. CASE ProduceDuplicate
  BY Zenon, <1>14, RespondDoneInv DEF ProduceDuplicate
<1>15. ASSUME NEW reply \in Replies, NEW appended \in BOOLEAN, ProduceError(reply, appended)
       PROVE  DoneInv'
  <2>1. CASE shouldRetry(reply)
    BY Zenon, <1>15, <2>1 DEF ProduceError, DoneInv
  <2>2. CASE ~shouldRetry(reply)
    BY Zenon, <1>15, <2>2, RespondDoneInv DEF ProduceError
  <2> QED
    BY Zenon, <2>1, <2>2
<1>16. CASE ProduceSkewed
  BY Zenon, <1>16 DEF ProduceSkewed, DoneInv
<1>17. CASE UNCHANGED vars
  BY Zenon, <1>17 DEF DoneInv
<1> QED
  BY <1>1, <1>2, <1>3, <1>4, <1>5, <1>6, <1>7, <1>8, <1>9, <1>10, <1>11, <1>12,
     <1>13, <1>14, <1>15, <1>16, <1>17 DEF Next, Loop, Dial, Produce

\* When every message has a value, run ends with every message answered and the
\* connection closed.
THEOREM DrainCorrect ==
  ASSUME EmptyValued = {}
  PROVE  Spec => []ExitDrained
<1>1. Init => DoneInv
  BY Zenon DEF Init, DoneInv
<1>2. TypeOK /\ InOrder /\ DoneInv => ExitDrained
  <2> SUFFICES ASSUME TypeOK, InOrder, DoneInv, pc = "exited"
               PROVE  answered = accepted /\ conn \notin {"open", "skewed"}
    BY Zenon DEF ExitDrained
  <2>1. batch = <<>> /\ Parked = <<>> /\ msgs = <<>>
    BY Zenon DEF DoneInv, Parked
  <2>2. answered \o <<>> = answered
    BY Zenon, ConcatEmptySeq DEF TypeOK
  <2> QED
    BY Zenon, <2>1, <2>2 DEF InOrder, DoneInv
<1> QED
  BY <1>1, <1>2, NextDoneInv, OrderCorrect, InitBatchInv, NextBatchInv, TypeCorrect, PTL DEF Spec

-----------------------------------------------------------------------------
(* The partition writer implements PartitionSink. *)

\* The queue of the sink.
Queue == batch \o Parked \o msgs

\* The queue has room for what the channel has room for, and a batch that is
\* written has messages.
SinkInv ==
  /\ lastMsg # NoMsg => Len(batch) < BatchSize
  /\ pc \in {"write", "spin"} => batch # <<>>

\* Respond keeps SinkInv.
LEMMA RespondSinkInv ==
  ASSUME NEW nil, Respond(nil)
  PROVE  SinkInv'
<1>1. batch' = <<>> /\ pc' = "top" /\ Len(<<>>) = 0
  BY Zenon DEF Respond
<1> QED
  BY <1>1, PartitionWriterAssumption DEF SinkInv

\* Every step keeps SinkInv when no message has an empty value.
LEMMA NextSinkInv ==
  ASSUME EmptyValued = {}
  PROVE  TypeOK /\ BatchInv /\ SinkInv /\ [Next]_vars => SinkInv'
<1> SUFFICES ASSUME TypeOK, BatchInv, SinkInv, [Next]_vars
             PROVE  SinkInv'
  BY Zenon
<1>1. ASSUME UNCHANGED <<batch, lastMsg>>, pc' \in {"write", "spin"} => batch # <<>>
      PROVE  SinkInv'
  BY Zenon, <1>1 DEF SinkInv
<1>2. CASE (\E m \in Msgs : Send(m)) \/ CloseMsgs \/ TimerFires \/ Exit
  BY Zenon, <1>1, <1>2 DEF Send, CloseMsgs, TimerFires, Exit, SinkInv
<1>3. CASE ReceiveClosed \/ ReceiveTick \/ Flush \/ DialOK \/ ProduceSkewed
  BY Zenon, <1>1, <1>3 DEF ReceiveClosed, ReceiveTick, Flush, DialOK, ProduceSkewed, SinkInv
<1>4. CASE Top
  <2>1. CASE Kept
    BY Zenon, <1>4, <2>1 DEF Top, Kept, SinkInv
  <2>2. CASE ~Kept
    BY Zenon, <1>1, <1>4, <2>2 DEF Top, Kept
  <2> QED
    BY Zenon, <2>1, <2>2
<1>5. CASE ReceiveOverLimit
  BY Zenon, <1>5 DEF ReceiveOverLimit, BatchInv, SinkInv
<1>6. CASE Receive
  <2>1. lastMsg' = NoMsg /\ pc' \in {"flush", "top"}
    BY Zenon, <1>6, SelectUnparked DEF Receive
  <2> QED
    BY Zenon, <2>1 DEF SinkInv
<1>7. ASSUME NEW reply \in Replies, DialError(reply)
      PROVE  SinkInv'
  <2>1. CASE shouldRetry(reply)
    BY Zenon, <1>1, <1>7, <2>1 DEF DialError, SinkInv
  <2>2. CASE ~shouldRetry(reply)
    BY Zenon, <1>7, <2>2, RespondSinkInv DEF DialError
  <2> QED
    BY Zenon, <2>1, <2>2
<1>8. CASE ProduceOK \/ ProduceDuplicate
  BY Zenon, <1>8, RespondSinkInv DEF ProduceOK, ProduceDuplicate
<1>9. ASSUME NEW reply \in Replies, NEW appended \in BOOLEAN, ProduceError(reply, appended)
      PROVE  SinkInv'
  <2>1. CASE shouldRetry(reply)
    BY Zenon, <1>1, <1>9, <2>1 DEF ProduceError, SinkInv
  <2>2. CASE ~shouldRetry(reply)
    BY Zenon, <1>9, <2>2, RespondSinkInv DEF ProduceError
  <2> QED
    BY Zenon, <2>1, <2>2
<1>10. CASE UNCHANGED vars
  BY Zenon, <1>1, <1>10 DEF SinkInv
<1> QED
  BY Zenon, <1>2, <1>3, <1>4, <1>5, <1>6, <1>7, <1>8, <1>9, <1>10 DEF Next, Loop, Dial, Produce

\* What the queue of the sink is made of.
LEMMA QueueType ==
  ASSUME TypeOK
  PROVE  /\ batch \in Seq(Msgs) /\ Parked \in Seq(Msgs) /\ msgs \in Seq(Msgs)
         /\ batch \o Parked \in Seq(Msgs) /\ Parked \o msgs \in Seq(Msgs)
         /\ Queue \in Seq(Msgs) /\ Queue = batch \o (Parked \o msgs)
         /\ Len(Queue) = Len(batch) + Len(Parked) + Len(msgs)
<1>1. batch \in Seq(Msgs) /\ Parked \in Seq(Msgs) /\ msgs \in Seq(Msgs)
  BY Zenon, ParkedType DEF TypeOK
<1>2. batch \o Parked \in Seq(Msgs) /\ Parked \o msgs \in Seq(Msgs)
      /\ Len(batch \o Parked) = Len(batch) + Len(Parked)
  BY Zenon, <1>1, ConcatProperties
<1>3. Queue \in Seq(Msgs) /\ Len(Queue) = Len(batch \o Parked) + Len(msgs)
  BY Zenon, <1>1, <1>2, ConcatProperties DEF Queue
<1>4. Queue = batch \o (Parked \o msgs)
  BY SMTT(40), <1>1, ConcatAssociative DEF Queue
<1> QED
  BY Zenon, <1>1, <1>2, <1>3, <1>4

\* The front and the rest of a concatenation.
LEMMA FrontAndRest ==
  ASSUME NEW S, NEW a \in Seq(S), NEW b \in Seq(S)
  PROVE  /\ SubSeq(a \o b, 1, Len(a)) = a
         /\ SubSeq(a \o b, Len(a) + 1, Len(a \o b)) = b
         /\ \A i \in 1 .. Len(a) : (a \o b)[i] = a[i]
<1>1. /\ a \o b \in Seq(S) /\ Len(a \o b) = Len(a) + Len(b) /\ Len(a) \in Nat /\ Len(b) \in Nat
      /\ \A i \in 1 .. Len(a) + Len(b) : (a \o b)[i] = IF i <= Len(a) THEN a[i] ELSE b[i - Len(a)]
  BY Zenon, ConcatProperties, LenProperties
<1>2. \A i \in 1 .. Len(a) + Len(b) : (a \o b)[i] \in S
  BY Zenon, <1>1, ElementOfSeq
<1>3. SubSeq(a \o b, 1, Len(a)) = a
  <2> DEFINE c == SubSeq(a \o b, 1, Len(a))
  <2>1. /\ c \in Seq(S) /\ Len(c) = IF 1 <= Len(a) THEN Len(a) - 1 + 1 ELSE 0
        /\ \A i \in 1 .. Len(a) - 1 + 1 : c[i] = (a \o b)[1 + i - 1]
    BY <1>1, <1>2, SubSeqProperties
  <2> HIDE DEF c
  <2>2. Len(c) = Len(a)
    BY <1>1, <2>1
  <2>3. \A i \in 1 .. Len(a) : c[i] = a[i]
    BY <1>1, <2>1
  <2>4. c = a
    BY Zenon, <2>1, <2>2, <2>3, SeqEqual
  <2> QED
    BY Zenon, <2>4 DEF c
<1>4. SubSeq(a \o b, Len(a) + 1, Len(a \o b)) = b
  <2> DEFINE c == SubSeq(a \o b, Len(a) + 1, Len(a \o b))
  <2>1. \A i \in Len(a) + 1 .. Len(a \o b) : (a \o b)[i] \in S
    BY <1>1, <1>2
  <2>2. /\ c \in Seq(S)
        /\ Len(c) = IF Len(a) + 1 <= Len(a \o b) THEN Len(a \o b) - (Len(a) + 1) + 1 ELSE 0
        /\ \A i \in 1 .. Len(a \o b) - (Len(a) + 1) + 1 : c[i] = (a \o b)[Len(a) + 1 + i - 1]
    BY <1>1, <2>1, SubSeqProperties
  <2> HIDE DEF c
  <2>3. Len(c) = Len(b)
    BY <1>1, <2>2
  <2>4. \A i \in 1 .. Len(b) : c[i] = b[i]
    BY SMTT(40), <1>1, <2>2
  <2>5. c = b
    BY Zenon, <2>2, <2>3, <2>4, SeqEqual
  <2> QED
    BY Zenon, <2>5 DEF c
<1> QED
  BY <1>1, <1>3, <1>4

\* The answer to a batch is one of the sink.
LEMMA RespondAnswers ==
  ASSUME TypeOK, BatchInv, SinkInv, NEW nil \in BOOLEAN, Respond(nil), pc = "write",
         UNCHANGED <<msgs, closed, accepted, lastMsg>>
  PROVE  Sink!AnswerSome
<1>1. /\ batch \in Seq(Msgs) /\ Parked \o msgs \in Seq(Msgs) /\ Parked \in Seq(Msgs)
      /\ Queue \in Seq(Msgs) /\ Queue = batch \o (Parked \o msgs)
  BY Zenon, QueueType
<1>2. Len(batch) \in 1 .. BatchSize /\ Len(batch) \in Nat
  <2>1. batch # <<>>
    BY Zenon DEF SinkInv
  <2>2. Len(batch) \in Nat /\ Len(batch) # 0
    BY Zenon, <1>1, <2>1, LenProperties, EmptySeq
  <2> QED
    BY <2>2, PartitionWriterAssumption DEF BatchInv
<1>3. /\ SubSeq(Queue, 1, Len(batch)) = batch
      /\ SubSeq(Queue, Len(batch) + 1, Len(Queue)) = Parked \o msgs
      /\ \A i \in 1 .. Len(batch) : Queue[i] = batch[i]
  <2>1. ASSUME NEW b \in Seq(Msgs)
        PROVE  /\ SubSeq(batch \o b, 1, Len(batch)) = batch
               /\ SubSeq(batch \o b, Len(batch) + 1, Len(batch \o b)) = b
               /\ \A i \in 1 .. Len(batch) : (batch \o b)[i] = batch[i]
    BY <1>1, FrontAndRest
  <2> QED
    BY ONLY Zenon, <1>1, <2>1
<1>4. Len(batch) <= Len(Queue)
  BY <1>1, <1>2, ConcatProperties, LenProperties
<1>5. Queue' = Parked \o msgs
  <2>1. batch' = <<>> /\ Parked' = Parked /\ msgs' = msgs
    BY Zenon DEF Respond, Parked
  <2>2. <<>> \o Parked = Parked
    BY Zenon, <1>1, ConcatEmptySeq
  <2> QED
    BY Zenon, <2>1, <2>2 DEF Queue
<1>6. Elements(batch) = {Queue[i] : i \in 1 .. Len(batch)}
  <2>1. DOMAIN batch = 1 .. Len(batch)
    BY Zenon, <1>1, LenProperties
  <2> QED
    BY Zenon, <1>3, <2>1 DEF Elements
<1>7. Sink!Answer(Len(batch), nil)
  <2>1. Len(batch) <= Len(Queue) /\ Queue' = SubSeq(Queue, Len(batch) + 1, Len(Queue))
    BY Zenon, <1>3, <1>4, <1>5
  <2>2. answered' = answered \o SubSeq(Queue, 1, Len(batch))
    BY Zenon, <1>3 DEF Respond
  <2>3. acked' = IF nil THEN acked \cup {Queue[i] : i \in 1 .. Len(batch)} ELSE acked
    BY Zenon, <1>6 DEF Respond
  <2>4. (pc' = "exited") = (pc = "exited")
    BY Zenon DEF Respond
  <2> QED
    BY Zenon, <2>1, <2>2, <2>3, <2>4 DEF Queue, Sink!Answer
<1> QED
  BY Zenon, <1>2, <1>7 DEF Sink!AnswerSome

\* A step that moves messages within the queue, or none, is a stutter of the sink.
LEMMA SinkStutters ==
  ASSUME Queue' = Queue, UNCHANGED <<accepted, answered, acked, closed>>,
         pc # "exited", pc' # "exited"
  PROVE  UNCHANGED Sink!vars
  BY Zenon DEF Queue, Sink!vars

\* Every step is a step of the sink, or a stutter.
LEMMA SinkStep ==
  ASSUME EmptyValued = {}
  PROVE  TypeOK /\ BatchInv /\ DoneInv /\ SinkInv /\ [Next]_vars => [Sink!Next]_Sink!vars
<1> SUFFICES ASSUME TypeOK, BatchInv, DoneInv, SinkInv, [Next]_vars
             PROVE  [Sink!Next]_Sink!vars
  BY Zenon
<1> USE PartitionWriterAssumption
<1>a. /\ batch \in Seq(Msgs) /\ Parked \in Seq(Msgs) /\ msgs \in Seq(Msgs)
      /\ batch \o Parked \in Seq(Msgs) /\ Queue \in Seq(Msgs)
      /\ Len(Queue) = Len(batch) + Len(Parked) + Len(msgs)
  BY Zenon, QueueType
<1>1. ASSUME NEW m \in Msgs, Send(m)
      PROVE  Sink!Next
  <2>1. Queue' = Append(Queue, m)
    <3>1. (batch \o Parked) \o Append(msgs, m) = Append((batch \o Parked) \o msgs, m)
      BY ZenonT(60), <1>a, ConcatAppend
    <3>2. batch' \o Parked' = batch \o Parked /\ msgs' = Append(msgs, m)
      BY Zenon, <1>1 DEF Send, Parked
    <3> QED
      BY Zenon, <3>1, <3>2 DEF Queue
  <2>2. Len(Queue) < QueueCapacity + BatchSize
    <3>1. Len(batch) \in Nat /\ Len(msgs) \in Nat /\ Len(msgs) < QueueCapacity /\ Len(batch) <= BatchSize
      BY Zenon, <1>a, <1>1, LenProperties DEF Send, BatchInv
    <3>2. Len(Parked) = 0 \/ (Len(Parked) = 1 /\ Len(batch) < BatchSize)
      BY Zenon DEF Parked, SinkInv
    <3>3. ASSUME NEW b \in Nat, NEW k \in Nat, NEW n \in Nat, n < QueueCapacity, b <= BatchSize,
                 k = 0 \/ (k = 1 /\ b < BatchSize)
          PROVE  b + k + n < QueueCapacity + BatchSize
      BY <3>3 DEF PartitionWriterAssumption
    <3>4. Len(Parked) \in Nat
      BY <3>2
    <3> QED
      BY ONLY Zenon, <1>a, <3>1, <3>2, <3>3, <3>4
  <2>3. \A i \in 1 .. Len(accepted) : accepted[i] # m
    <3>1. DOMAIN accepted = 1 .. Len(accepted)
      BY Zenon, LenProperties DEF TypeOK
    <3> QED
      BY Zenon, <1>1, <3>1 DEF Send, Elements
  <2>4. Sink!Accept(m)
    BY Zenon, <1>1, <2>1, <2>2, <2>3 DEF Send, Queue, Sink!Accept
  <2> QED
    BY Zenon, <2>4 DEF Sink!Next
<1>2. CASE CloseMsgs
  <2>1. Queue' = Queue
    BY Zenon, <1>2 DEF CloseMsgs, Queue, Parked
  <2> QED
    BY Zenon, <1>2, <2>1 DEF CloseMsgs, Queue, Sink!Close, Sink!Next
<1>3. CASE Exit
  <2>1. Queue' = Queue
    BY Zenon, <1>3 DEF Exit, Queue, Parked
  <2>2. batch = <<>> /\ Parked = <<>> /\ msgs = <<>> /\ closed
    BY Zenon, <1>3 DEF Exit, DoneInv, Parked
  <2>3. Queue = <<>>
    BY Zenon, <2>2, ConcatEmptySeq, EmptySeq DEF Queue
  <2>4. Sink!Finish
    BY Zenon, <1>3, <2>1, <2>2, <2>3 DEF Exit, Queue, Sink!Finish
  <2> QED
    BY Zenon, <2>4 DEF Sink!Next
<1>4. ASSUME UNCHANGED <<batch, lastMsg, msgs, accepted, answered, acked, closed>>,
             (pc = "exited") = (pc' = "exited")
      PROVE  UNCHANGED Sink!vars
  BY Zenon, <1>4 DEF Parked, Sink!vars
<1>5. CASE TimerFires \/ ReceiveClosed \/ ReceiveTick \/ Flush \/ DialOK \/ ProduceSkewed
  BY Zenon, <1>4, <1>5 DEF TimerFires, ReceiveClosed, ReceiveTick, Flush, DialOK, ProduceSkewed
<1>6. CASE Top
  <2>1. CASE Kept
    <3>1. /\ batch' = Append(batch, lastMsg) /\ lastMsg' = NoMsg /\ pc = "top" /\ pc' = "select"
          /\ UNCHANGED <<msgs, accepted, answered, acked, closed>>
      BY Zenon, <1>6, <2>1 DEF Top, Kept
    <3>2. lastMsg \in Msgs /\ Parked = <<lastMsg>> /\ Parked' = <<>>
      BY Zenon, <2>1, <3>1 DEF Kept, TypeOK, Parked
    <3>3. Append(batch, lastMsg) = batch \o Parked
      BY Zenon, <1>a, <3>2, AppendIsConcat
    <3>4. (batch \o Parked) \o <<>> = batch \o Parked
      BY Zenon, <1>a, ConcatEmptySeq
    <3>5. Queue' = Queue
      BY Zenon, <3>1, <3>2, <3>3, <3>4 DEF Queue
    <3> QED
      BY Zenon, <3>1, <3>5, SinkStutters
  <2>2. CASE ~Kept
    BY Zenon, <1>4, <1>6, <2>2 DEF Top, Kept
  <2> QED
    BY Zenon, <2>1, <2>2
<1>7. CASE ReceiveOverLimit
  <2>1. /\ lastMsg' = Head(msgs) /\ msgs' = Tail(msgs) /\ msgs # <<>> /\ pc = "select" /\ pc' = "flush"
        /\ UNCHANGED <<accepted, answered, acked, closed, batch>>
    BY Zenon, <1>7 DEF ReceiveOverLimit
  <2>2. Parked = <<>> /\ Head(msgs) \in Msgs
    BY Zenon, <1>a, <2>1, SelectUnparked, HeadTailProperties
  <2>3. Parked' = <<Head(msgs)>>
    BY Zenon, <2>1, <2>2 DEF Parked
  <2>4. batch \o <<Head(msgs)>> = Append(batch, Head(msgs))
    BY Zenon, <1>a, <2>2, AppendIsConcat
  <2>5. Append(batch, Head(msgs)) \o Tail(msgs) = batch \o msgs
    BY ZenonT(60), <1>a, <2>1, MoveHead
  <2>6. batch \o Parked = batch
    BY Zenon, <1>a, <2>2, ConcatEmptySeq
  <2>7. Queue' = Queue
    BY Zenon, <2>1, <2>3, <2>4, <2>5, <2>6 DEF Queue
  <2> QED
    BY Zenon, <2>1, <2>7, SinkStutters
<1>8. CASE Receive
  <2>1. /\ batch' = Append(batch, Head(msgs)) /\ msgs' = Tail(msgs) /\ msgs # <<>>
        /\ pc = "select" /\ pc' # "exited" /\ UNCHANGED <<accepted, answered, acked, closed, lastMsg>>
    BY Zenon, <1>8 DEF Receive
  <2>2. Parked = <<>> /\ Parked' = <<>> /\ Head(msgs) \in Msgs
    BY Zenon, <1>a, <2>1, SelectUnparked, HeadTailProperties DEF Parked
  <2>3. Append(batch, Head(msgs)) \o Tail(msgs) = batch \o msgs
    BY ZenonT(60), <1>a, <2>1, MoveHead
  <2>4. Append(batch, Head(msgs)) \in Seq(Msgs)
    BY <1>a, <2>2
  <2>5. batch \o <<>> = batch /\ Append(batch, Head(msgs)) \o <<>> = Append(batch, Head(msgs))
    BY Zenon, <1>a, <2>4, ConcatEmptySeq
  <2>6. Queue' = Queue
    BY Zenon, <2>1, <2>2, <2>3, <2>5 DEF Queue
  <2> QED
    BY Zenon, <2>1, <2>6, SinkStutters
<1>9. ASSUME NEW reply \in Replies, DialError(reply)
      PROVE  [Sink!Next]_Sink!vars
  <2>1. CASE shouldRetry(reply)
    BY Zenon, <1>4, <1>9, <2>1 DEF DialError
  <2>2. CASE ~shouldRetry(reply)
    BY Zenon, <1>9, <2>2, RespondAnswers DEF DialError, Sink!Next
  <2> QED
    BY Zenon, <2>1, <2>2
<1>10. CASE ProduceOK \/ ProduceDuplicate
  BY Zenon, <1>10, RespondAnswers DEF ProduceOK, ProduceDuplicate, Sink!Next
<1>11. ASSUME NEW reply \in Replies, NEW appended \in BOOLEAN, ProduceError(reply, appended)
       PROVE  [Sink!Next]_Sink!vars
  <2>1. CASE shouldRetry(reply)
    BY Zenon, <1>4, <1>11, <2>1 DEF ProduceError
  <2>2. CASE ~shouldRetry(reply)
    BY Zenon, <1>11, <2>2, RespondAnswers DEF ProduceError, Sink!Next
  <2> QED
    BY Zenon, <2>1, <2>2
<1>12. CASE UNCHANGED vars
  BY Zenon, <1>4, <1>12
<1> QED
  BY SMTT(40), <1>1, <1>2, <1>3, <1>5, <1>6, <1>7, <1>8, <1>9, <1>10, <1>11, <1>12
  DEF Next, Loop, Dial, Produce

\* When every message has a value, the goroutine of a partition writer implements
\* the sink that the rest of the Writer relies on, whatever the broker answers.
THEOREM SinkImplemented ==
  ASSUME EmptyValued = {}
  PROVE  Spec => ImplementsSink
<1>1. Init => DoneInv /\ SinkInv
  BY Zenon DEF Init, DoneInv, SinkInv
<1>2. Init => Sink!Init
  <2>1. <<>> \o <<>> = <<>>
    BY Zenon, ConcatEmptySeq, EmptySeq
  <2> QED
    BY Zenon, <2>1 DEF Init, Parked, Sink!Init
<1> QED
  BY <1>1, <1>2, NextDoneInv, NextSinkInv, SinkStep, InitBatchInv, NextBatchInv, TypeCorrect, PTL
  DEF Spec, ImplementsSink, Sink!Spec

-----------------------------------------------------------------------------
(* How often the leader appends a message. *)

\* Every writerMessage is sent once.
Distinct == \A i, j \in 1 .. Len(accepted) : accepted[i] = accepted[j] => i = j

\* No message is appended before its batch is written, and then at most once for
\* every attempt so far.
CopiesInv ==
  /\ \A m \in Msgs : copies[m] <= Retries + 1
  /\ \A m \in acked : copies[m] >= 1
  /\ \A m \in Msgs \ (Elements(answered) \cup Elements(batch)) : copies[m] = 0
  /\ pc \notin {"write", "spin"} => \A m \in Elements(batch) : copies[m] = 0
  /\ pc = "write" => \A m \in Elements(batch) : copies[m] <= attempts

\* The elements of longer sequences.
LEMMA ElementsConcat ==
  ASSUME NEW S, NEW a \in Seq(S), NEW b \in Seq(S)
  PROVE  Elements(a \o b) = Elements(a) \cup Elements(b)
<1>1. /\ a \o b \in Seq(S) /\ Len(a \o b) = Len(a) + Len(b) /\ Len(a) \in Nat /\ Len(b) \in Nat
      /\ \A i \in 1 .. Len(a) + Len(b) : (a \o b)[i] = IF i <= Len(a) THEN a[i] ELSE b[i - Len(a)]
  BY Zenon, ConcatProperties, LenProperties
<1>2. DOMAIN a = 1 .. Len(a) /\ DOMAIN b = 1 .. Len(b) /\ DOMAIN (a \o b) = 1 .. Len(a) + Len(b)
  BY Zenon, <1>1, LenProperties
<1>3. Elements(a \o b) \subseteq Elements(a) \cup Elements(b)
  <2>1. ASSUME NEW i \in 1 .. Len(a) + Len(b)
        PROVE  (a \o b)[i] \in Elements(a) \cup Elements(b)
    <3>1. CASE i <= Len(a)
      BY <1>1, <1>2, <3>1 DEF Elements
    <3>2. CASE ~(i <= Len(a))
      <4>1. i - Len(a) \in 1 .. Len(b)
        BY <1>1, <3>2
      <4> QED
        BY Zenon, <1>1, <1>2, <3>2, <4>1 DEF Elements
    <3> QED
      BY Zenon, <3>1, <3>2
  <2> QED
    BY Zenon, <1>2, <2>1 DEF Elements
<1>4. ASSUME NEW i \in 1 .. Len(a)
      PROVE  a[i] \in Elements(a \o b)
  <2>1. i \in 1 .. Len(a) + Len(b) /\ (a \o b)[i] = a[i]
    BY <1>1
  <2> QED
    BY Zenon, <1>2, <2>1 DEF Elements
<1>5. ASSUME NEW i \in 1 .. Len(b)
      PROVE  b[i] \in Elements(a \o b)
  <2>1. Len(a) + i \in 1 .. Len(a) + Len(b) /\ ~(Len(a) + i <= Len(a)) /\ (Len(a) + i) - Len(a) = i
    BY <1>1
  <2>2. (a \o b)[Len(a) + i] = b[i]
    BY Zenon, <1>1, <2>1
  <2> QED
    BY Zenon, <1>2, <2>1, <2>2 DEF Elements
<1> QED
  BY Zenon, <1>2, <1>3, <1>4, <1>5 DEF Elements

\* The elements of a sequence of one, and of an appended one.
LEMMA ElementsAppend ==
  ASSUME NEW S, NEW s \in Seq(S), NEW x \in S
  PROVE  Elements(Append(s, x)) = Elements(s) \cup {x}
<1>1. <<x>> \in Seq(S) /\ Elements(<<x>>) = {x} /\ Append(s, x) = s \o <<x>>
  BY AppendIsConcat DEF Elements
<1>2. \A t \in Seq(S) : Elements(s \o t) = Elements(s) \cup Elements(t)
  BY Zenon, ElementsConcat
<1> QED
  BY ONLY <1>1, <1>2, Zenon

\* A message that is not in the batch yet has not been there before.
LEMMA Fresh ==
  ASSUME TypeOK, InOrder, Distinct, NEW m \in Elements(Parked) \cup Elements(msgs)
  PROVE  m \in Msgs \ (Elements(answered) \cup Elements(batch))
<1>1. /\ answered \in Seq(Msgs) /\ batch \in Seq(Msgs) /\ Parked \in Seq(Msgs) /\ msgs \in Seq(Msgs)
  BY Zenon, ParkedType DEF TypeOK
<1>2. answered \o batch \in Seq(Msgs) /\ Parked \o msgs \in Seq(Msgs)
  BY Zenon, <1>1, ConcatProperties
<1>3. accepted = (answered \o batch) \o (Parked \o msgs)
  <2>1. ((answered \o batch) \o Parked) \o msgs = (answered \o batch) \o (Parked \o msgs)
    <3>1. \A a \in Seq(Msgs) : (a \o Parked) \o msgs = a \o (Parked \o msgs)
      BY SMTT(40), <1>1, ConcatAssociative
    <3> QED
      BY ONLY <1>2, <3>1, Zenon
  <2> QED
    BY Zenon, <2>1 DEF InOrder
<1>4. ASSUME NEW a \in Seq(Msgs), NEW b \in Seq(Msgs), accepted = a \o b, m \in Elements(b)
      PROVE  m \notin Elements(a)
  <2>1. /\ Len(accepted) = Len(a) + Len(b) /\ Len(a) \in Nat /\ Len(b) \in Nat
        /\ \A i \in 1 .. Len(a) + Len(b) : accepted[i] = IF i <= Len(a) THEN a[i] ELSE b[i - Len(a)]
        /\ DOMAIN a = 1 .. Len(a) /\ DOMAIN b = 1 .. Len(b)
    BY Zenon, <1>4, ConcatProperties, LenProperties
  <2>2. SUFFICES ASSUME NEW i \in 1 .. Len(a), a[i] = m
                 PROVE  FALSE
    BY Zenon, <2>1 DEF Elements
  <2>3. PICK j \in 1 .. Len(b) : b[j] = m
    BY Zenon, <1>4, <2>1 DEF Elements
  <2>4. /\ i \in 1 .. Len(accepted) /\ Len(a) + j \in 1 .. Len(accepted) /\ i # Len(a) + j
        /\ i <= Len(a) /\ ~(Len(a) + j <= Len(a)) /\ (Len(a) + j) - Len(a) = j
    BY <2>1
  <2>5. accepted[i] = m /\ accepted[Len(a) + j] = m
    BY Zenon, <2>1, <2>2, <2>3, <2>4
  <2> QED
    BY Zenon, <2>4, <2>5 DEF Distinct
<1>5. m \in Elements(Parked \o msgs) /\ m \in Msgs
  BY <1>1, ElementsConcat, ElementsOf
<1>6. m \notin Elements(answered \o batch)
  BY Zenon, <1>2, <1>3, <1>4, <1>5
<1> QED
  BY <1>1, <1>5, <1>6, ElementsConcat

\* Every step keeps accepted without duplicates.
LEMMA NextDistinct == TypeOK /\ Distinct /\ [Next]_vars => Distinct'
<1> SUFFICES ASSUME TypeOK, Distinct, [Next]_vars
             PROVE  Distinct'
  BY Zenon
<1>1. ASSUME NEW m \in Msgs, Send(m)
      PROVE  Distinct'
  <2>1. /\ Len(accepted) \in Nat /\ Len(accepted') = Len(accepted) + 1
        /\ \A i \in 1 .. Len(accepted) : accepted'[i] = accepted[i]
        /\ accepted'[Len(accepted) + 1] = m
    BY <1>1, LenProperties DEF Send, TypeOK
  <2>2. \A i \in 1 .. Len(accepted) : accepted[i] # m
    <3>1. DOMAIN accepted = 1 .. Len(accepted)
      BY Zenon, LenProperties DEF TypeOK
    <3> QED
      BY Zenon, <1>1, <3>1 DEF Send, Elements
  <2>3. \A i \in 1 .. Len(accepted') : i \in 1 .. Len(accepted) \/ i = Len(accepted) + 1
    BY <2>1
  <2> QED
    BY Zenon, <2>1, <2>2, <2>3 DEF Distinct
<1>2. ASSUME UNCHANGED accepted
      PROVE  Distinct'
  BY Zenon, <1>2 DEF Distinct
<1>3. (\E m \in Msgs : Send(m)) \/ UNCHANGED accepted
  BY Zenon DEF Next, CloseMsgs, TimerFires, Loop, Top, Exit, ReceiveOverLimit, Receive, ReceiveClosed,
         ReceiveTick, Flush, Dial, DialOK, DialError, Produce, ProduceOK, ProduceDuplicate,
         ProduceError, ProduceSkewed
<1> QED
  BY Zenon, <1>1, <1>2, <1>3

\* What the leader appends to the copies of a message.
LEMMA AppendCopies ==
  ASSUME TypeOK, NEW appended \in BOOLEAN, Append_(appended)
  PROVE  /\ \A m \in Msgs : copies[m] \in Nat /\ copies'[m] \in Nat /\ copies[m] <= copies'[m]
         /\ \A m \in Elements(batch) : m \in Msgs /\ copies'[m] <= copies[m] + 1
         /\ appended => \A m \in Elements(batch) : copies'[m] >= 1
         /\ \A m \in Msgs \ Elements(batch) : copies'[m] = copies[m]
<1>1. Elements(batch) \subseteq Msgs
  BY Zenon, ElementsOf DEF TypeOK
<1> QED
  BY SMTT(40), <1>1 DEF Append_, TypeOK

\* The end of a write keeps CopiesInv.
LEMMA RespondCopies ==
  ASSUME TypeOK, CopiesInv, pc = "write", NEW nil \in BOOLEAN, Respond(nil),
         \A m \in Msgs : copies'[m] \in Nat /\ copies[m] <= copies'[m],
         \A m \in Elements(batch) : copies'[m] <= attempts + 1,
         nil => \A m \in Elements(batch) : copies'[m] >= 1,
         \A m \in Msgs \ Elements(batch) : copies'[m] = copies[m]
  PROVE  CopiesInv'
<1>1. answered \in Seq(Msgs) /\ batch \in Seq(Msgs) /\ attempts \in 0 .. Retries /\ acked \subseteq Msgs
      /\ copies \in [Msgs -> Nat] /\ Retries \in Nat
  BY Zenon, PartitionWriterAssumption DEF TypeOK, PartitionWriterAssumption
<1>2. Elements(answered') = Elements(answered) \cup Elements(batch) /\ Elements(batch') = {}
  <2>1. answered' = answered \o batch /\ batch' = <<>>
    BY Zenon DEF Respond
  <2>2. Elements(<<>>) = {}
    BY DEF Elements
  <2> QED
    BY <1>1, <2>1, <2>2, ElementsConcat
<1>3. pc' = "top" /\ acked' \subseteq acked \cup Elements(batch) /\ (~nil => acked' = acked)
  BY Zenon DEF Respond
<1>4. \A m \in Msgs : copies'[m] <= Retries + 1
  BY <1>1 DEF CopiesInv
<1>5. \A m \in acked' : copies'[m] >= 1
  BY <1>1, <1>3 DEF CopiesInv
<1>6. \A m \in Msgs \ (Elements(answered') \cup Elements(batch')) : copies'[m] = 0
  BY Zenon, <1>2 DEF CopiesInv
<1> QED
  BY Zenon, <1>2, <1>3, <1>4, <1>5, <1>6 DEF CopiesInv

\* A step outside of write keeps CopiesInv: what joins the batch is fresh.
LEMMA GatherCopies ==
  ASSUME TypeOK, CopiesInv, pc \notin {"write", "spin"}, pc' # "spin",
         UNCHANGED <<answered, acked, copies>>,
         attempts' \in Nat, batch' = batch \/ (\E m \in Msgs \ (Elements(answered) \cup Elements(batch)) :
                                                  batch' = Append(batch, m))
  PROVE  CopiesInv'
<1>1. \A m \in Elements(batch') : copies[m] = 0 /\ m \in Msgs
  <2>1. CASE batch' = batch
    BY Zenon, <2>1, ElementsOf DEF CopiesInv, TypeOK
  <2>2. ASSUME NEW m \in Msgs \ (Elements(answered) \cup Elements(batch)), batch' = Append(batch, m)
        PROVE  \A n \in Elements(batch') : copies[n] = 0 /\ n \in Msgs
    <3>1. Elements(batch') = Elements(batch) \cup {m} /\ Elements(batch) \subseteq Msgs
      BY <2>2, ElementsAppend, ElementsOf DEF TypeOK
    <3> QED
      BY Zenon, <2>2, <3>1 DEF CopiesInv
  <2> QED
    BY Zenon, <2>1, <2>2
<1>2. Elements(batch) \subseteq Elements(batch')
  <2>1. \A m \in Msgs : Elements(Append(batch, m)) = Elements(batch) \cup {m}
    BY Zenon, ElementsAppend DEF TypeOK
  <2> QED
    BY Zenon, <2>1
<1> QED
  BY <1>1, <1>2 DEF CopiesInv

\* Every step keeps CopiesInv when no message has an empty value.
LEMMA NextCopiesInv ==
  ASSUME EmptyValued = {}
  PROVE  TypeOK /\ BatchInv /\ InOrder /\ Distinct /\ CopiesInv /\ [Next]_vars => CopiesInv'
<1> SUFFICES ASSUME TypeOK, BatchInv, InOrder, Distinct, CopiesInv, [Next]_vars
             PROVE  CopiesInv'
  BY Zenon
<1>a. attempts \in Nat /\ Retries \in Nat /\ attempts <= Retries
  BY PartitionWriterAssumption DEF TypeOK, PartitionWriterAssumption
<1>b. msgs # <<>> => Head(msgs) \in Elements(msgs)
  <2>1. ASSUME msgs # <<>>
        PROVE  Head(msgs) = msgs[1] /\ 1 \in DOMAIN msgs
    BY <2>1, HeadTailProperties, EmptySeq, LenProperties DEF TypeOK
  <2> QED
    BY Zenon, <2>1 DEF Elements
<1>1. ASSUME UNCHANGED <<pc, answered, acked, copies, batch, attempts>>
      PROVE  CopiesInv'
  BY Zenon, <1>1 DEF CopiesInv
<1>2. CASE (\E m \in Msgs : Send(m)) \/ CloseMsgs \/ TimerFires \/ DialOK \/ UNCHANGED vars
  BY Zenon, <1>1, <1>2 DEF Send, CloseMsgs, TimerFires, DialOK
<1>3. CASE Exit \/ ReceiveOverLimit \/ ReceiveClosed \/ ReceiveTick \/ Flush
  BY <1>3, <1>a, GatherCopies DEF Exit, ReceiveOverLimit, ReceiveClosed, ReceiveTick, Flush
<1>4. CASE Top
  <2>1. CASE Kept
    <3>1. lastMsg \in Elements(Parked)
      BY <2>1 DEF Kept, Parked, Elements
    <3>2. lastMsg \in Msgs \ (Elements(answered) \cup Elements(batch))
      BY Zenon, <3>1, Fresh
    <3> QED
      BY Zenon, <1>4, <1>a, <2>1, <3>2, GatherCopies DEF Top, Kept
  <2>2. CASE ~Kept
    BY Zenon, <1>4, <1>a, <2>2, GatherCopies DEF Top, Kept
  <2> QED
    BY Zenon, <2>1, <2>2
<1>5. CASE Receive
  <2>1. Head(msgs) \in Msgs \ (Elements(answered) \cup Elements(batch))
    BY Zenon, <1>5, <1>b, Fresh DEF Receive
  <2>2. /\ pc = "select" /\ pc' \in {"flush", "top"} /\ batch' = Append(batch, Head(msgs))
        /\ UNCHANGED <<answered, acked, copies, attempts>>
    BY Zenon, <1>5 DEF Receive
  <2> QED
    BY Zenon, <1>a, <2>1, <2>2, GatherCopies
<1>6. ASSUME NEW reply \in Replies, DialError(reply)
      PROVE  CopiesInv'
  <2>1. CASE shouldRetry(reply)
    <3>1. UNCHANGED <<pc, batch, answered, acked, copies>> /\ attempts' = attempts + 1 /\ pc = "write"
      BY Zenon, <1>6, <2>1 DEF DialError
    <3>2. \A m \in Elements(batch) : copies[m] <= attempts + 1
      <4>1. \A m \in Elements(batch) : m \in Msgs /\ copies[m] \in Nat /\ copies[m] <= attempts
        BY Zenon, <3>1, ElementsOf DEF CopiesInv, TypeOK
      <4> QED
        BY <1>a, <4>1
    <3> QED
      BY Zenon, <3>1, <3>2 DEF CopiesInv
  <2>2. CASE ~shouldRetry(reply)
    <3>1. Respond(FALSE) /\ UNCHANGED copies /\ pc = "write"
      BY Zenon, <1>6, <2>2 DEF DialError
    <3>2. \A m \in Elements(batch) : m \in Msgs /\ copies[m] \in Nat /\ copies[m] <= attempts
      BY Zenon, <3>1, ElementsOf DEF CopiesInv, TypeOK
    <3>3. \A m \in Elements(batch) : copies'[m] <= attempts + 1
      BY <1>a, <3>1, <3>2
    <3>4. \A m \in Msgs : copies'[m] \in Nat /\ copies[m] <= copies'[m]
      BY <3>1 DEF TypeOK
    <3> QED
      BY Zenon, <3>1, <3>3, <3>4, RespondCopies
  <2> QED
    BY Zenon, <2>1, <2>2
<1>7. ASSUME pc = "write"
      PROVE  \A m \in Elements(batch) : m \in Msgs /\ copies[m] \in Nat /\ copies[m] <= attempts
  BY Zenon, <1>7, ElementsOf DEF CopiesInv, TypeOK
<1>8. CASE ProduceOK
  <2>1. pc = "write" /\ Append_(TRUE) /\ Respond(TRUE)
    BY Zenon, <1>8 DEF ProduceOK
  <2>2. /\ \A m \in Msgs : copies[m] \in Nat /\ copies'[m] \in Nat /\ copies[m] <= copies'[m]
        /\ \A m \in Elements(batch) : m \in Msgs /\ copies'[m] <= copies[m] + 1 /\ copies'[m] >= 1
        /\ \A m \in Msgs \ Elements(batch) : copies'[m] = copies[m]
    BY <2>1, AppendCopies, Zenon
  <2>3. \A m \in Elements(batch) : copies'[m] <= attempts + 1
    BY <1>7, <1>a, <2>1, <2>2
  <2> QED
    BY Zenon, <2>1, <2>2, <2>3, RespondCopies
<1>9. CASE ProduceDuplicate
  <2>1. pc = "write" /\ UNCHANGED copies /\ Respond(TRUE) /\ \A m \in Elements(batch) : copies[m] > 0
    BY Zenon, <1>9 DEF ProduceDuplicate
  <2>2. \A m \in Elements(batch) : copies'[m] <= attempts + 1 /\ copies'[m] >= 1
    BY <1>7, <1>a, <2>1
  <2>3. \A m \in Msgs : copies'[m] \in Nat /\ copies[m] <= copies'[m]
    BY <2>1 DEF TypeOK
  <2> QED
    BY Zenon, <2>1, <2>2, <2>3, RespondCopies
<1>10. ASSUME NEW reply \in Replies, NEW appended \in BOOLEAN, ProduceError(reply, appended)
       PROVE  CopiesInv'
  <2>1. pc = "write" /\ Append_(appended)
    BY Zenon, <1>10 DEF ProduceError
  <2>2. \A m \in Elements(batch) : copies'[m] \in Nat /\ copies'[m] <= attempts + 1
    BY <1>7, <1>a, <2>1, AppendCopies
  <2>3. CASE shouldRetry(reply)
    <3>1. UNCHANGED <<pc, batch, answered, acked>> /\ attempts' = attempts + 1 /\ attempts < Retries
      BY Zenon, <1>10, <2>3 DEF ProduceError, shouldRetry
    <3>2. \A m \in Msgs : copies'[m] <= Retries + 1
      BY <1>a, <2>1, <2>2, <3>1, AppendCopies DEF CopiesInv
    <3>3. \A m \in acked : copies'[m] >= 1
      <4>1. acked \subseteq Msgs
        BY Zenon DEF TypeOK
      <4> QED
        BY <2>1, <4>1, AppendCopies DEF CopiesInv
    <3>4. \A m \in Msgs \ (Elements(answered) \cup Elements(batch)) : copies'[m] = 0
      BY Zenon, <2>1, AppendCopies DEF CopiesInv
    <3> QED
      BY Zenon, <2>1, <2>2, <3>1, <3>2, <3>3, <3>4 DEF CopiesInv
  <2>4. CASE ~shouldRetry(reply)
    BY Zenon, <1>10, <2>1, <2>2, <2>4, AppendCopies, RespondCopies DEF ProduceError
  <2> QED
    BY Zenon, <2>3, <2>4
<1>11. CASE ProduceSkewed
  <2>1. pc = "write" /\ pc' = "spin" /\ Append_(TRUE) /\ UNCHANGED <<batch, answered, acked>>
    BY Zenon, <1>11 DEF ProduceSkewed
  <2>2. /\ \A m \in Msgs : copies[m] \in Nat /\ copies'[m] \in Nat /\ copies[m] <= copies'[m]
        /\ \A m \in Elements(batch) : m \in Msgs /\ copies'[m] <= copies[m] + 1
        /\ \A m \in Msgs \ Elements(batch) : copies'[m] = copies[m]
    BY <2>1, AppendCopies, Zenon
  <2>3. \A m \in Msgs : copies'[m] <= Retries + 1
    BY <1>7, <1>a, <2>1, <2>2 DEF CopiesInv
  <2>4. \A m \in acked : copies'[m] >= 1
    <3>1. acked \subseteq Msgs
      BY Zenon DEF TypeOK
    <3> QED
      BY <2>2, <3>1 DEF CopiesInv
  <2>5. \A m \in Msgs \ (Elements(answered) \cup Elements(batch)) : copies'[m] = 0
    BY Zenon, <2>2 DEF CopiesInv
  <2> QED
    BY Zenon, <2>1, <2>3, <2>4, <2>5 DEF CopiesInv
<1> QED
  BY Zenon, <1>2, <1>3, <1>4, <1>5, <1>6, <1>8, <1>9, <1>10, <1>11 DEF Next, Loop, Dial, Produce

\* When every message has a value, a message answered with nil is in the
\* partition, and the retries of write append none more than Retries + 1 times.
THEOREM AckCorrect ==
  ASSUME EmptyValued = {}
  PROVE  Spec => []AckedIsWritten
<1>1. Init => Distinct /\ CopiesInv
  BY PartitionWriterAssumption DEF PartitionWriterAssumption, Init, Distinct, CopiesInv, Elements
<1>2. TypeOK /\ CopiesInv => AckedIsWritten
  BY Zenon DEF CopiesInv, AckedIsWritten
<1> QED
  BY <1>1, <1>2, NextDistinct, NextCopiesInv, OrderCorrect, InitBatchInv, NextBatchInv, TypeCorrect, PTL
  DEF Spec
=============================================================================
