----------------------------- MODULE WriterProofs -----------------------------
(***************************************************************************)
(* Proofs about Writer, for any number of callers, of calls to Close, of   *)
(* partitions and of rebalances: no goroutine sends on a closed channel, a *)
(* Close that has returned has left nothing buffered, every message sent   *)
(* is answered once, and a nil from WriteMessages means that its messages  *)
(* are stored.                                                             *)
(*                                                                         *)
(* For the first two the argument is about join.  It counts run and the    *)
(* partition writers that are being closed, also those that a rebalance    *)
(* has let go, and run knows every one that is open: when join is 0 none   *)
(* is left.  The third counts the places where the messages of a call are. *)
(* The fourth follows each message from the call to res and back; it needs *)
(* the third, to know that nothing is on its way when a call has collected *)
(* what it awaits.                                                         *)
(***************************************************************************)
EXTENDS Writer, FiniteSetTheorems, TLAPS

\* The types of the variables that the argument is about.
Types ==
  /\ closed \in BOOLEAN
  /\ readers \in SUBSET Callers
  /\ join \in Int
  /\ pc \in [Callers -> CallPCs]
  /\ closer \in [Closers -> {"idle", "lock", "wait", "returned"}]
  /\ rpc \in {"rebalance", "select", "forward", "exited"}
  /\ writers \in [Partitions -> Instances \cup {NoInst}]
  /\ rebalances \in 0 .. MaxRebalances
  /\ phase \in [Instances -> {"unborn", "open", "closing", "finished"}]
  /\ DOMAIN queue = Instances

\* A call that sends holds the mutex, and the writer is not closed.
Senders ==
  /\ \A c \in Callers : pc[c] = "send" <=> c \in readers
  /\ readers # {} => ~closed

\* The partition writers that are open are those that run knows, each for its
\* partition.
Known ==
  /\ \A p \in Partitions : writers[p] # NoInst =>
       writers[p][1] = p /\ phase[writers[p]] = "open"
  /\ \A i \in Instances : phase[i] = "open" => writers[i[1]] = i

\* The instances of the rebalances to come are unborn.
Unborn ==
  \A i \in Instances :
    i[2] > rebalances \/ (i[2] = rebalances /\ rpc = "rebalance") => phase[i] = "unborn"

\* Only a partition writer that is open, or drains, has messages.
Drained == \A i \in Instances : queue[i] # <<>> => phase[i] \in {"open", "closing"}

Closing == {i \in Instances : phase[i] = "closing"}

\* What join counts.
JoinCounts == join = Cardinality(Closing) + (IF rpc = "exited" THEN 0 ELSE 1)

\* When run has returned, the writer is closed and nothing is left for run.
RunOver ==
  /\ rpc # "forward" => current = NoItem
  /\ rpc = "exited" => closed /\ msgs = <<>> /\ \A p \in Partitions : writers[p] = NoInst

\* What Close waits for.
CloseOver == \A k \in Closers : closer[k] = "returned" => rpc = "exited" /\ Closing = {}

\* The inductive invariant.
IInv == Types /\ Senders /\ Known /\ Unborn /\ Drained /\ JoinCounts /\ RunOver /\ CloseOver

\* What the calls do not touch.
Inside == <<join, closer, rpc, current, writers, rebalances, queue, phase>>

-----------------------------------------------------------------------------
(* The steps, by goroutine. *)

\* A call to WriteMessages keeps to the mutex.
LEMMA CallStep ==
  ASSUME IInv, NEW c \in Callers, Call(c) \/ WriteMessages(c) \/ CtxDone(c)
  PROVE  IInv'
PROOF
  <1>1. UNCHANGED Inside /\ UNCHANGED closed
    BY Zenon DEF Call, WriteMessages, RLock, Skip, Sending, SendMsg, RUnlock, Collect, Collected,
       BackoffElapsed,
           BackoffClosed, CtxDone, Inside, runVars, sinkVars
  <1>2. /\ readers' \in SUBSET Callers /\ pc' \in [Callers -> CallPCs]
        /\ Senders'
    <2>1. CASE Call(c) \/ BackoffElapsed(c) \/ BackoffClosed(c) \/ Collected(c)
      BY <2>1
         DEF Call, BackoffElapsed, BackoffClosed, Collected, Goto, Return, IInv, Types, Senders,
                 CallPCs
    <2>2. CASE RLock(c)
      BY <2>2 DEF RLock, Goto, Return, IInv, Types, Senders, CallPCs
    <2>3. CASE Skip(c) \/ SendMsg(c) \/ Collect(c)
      BY <2>3 DEF Skip, SendMsg, Collect, IInv, Types, Senders
    <2>4. CASE RUnlock(c) \/ CtxDone(c)
      BY <2>4 DEF RUnlock, CtxDone, Sending, Goto, Return, IInv, Types, Senders, CallPCs
    <2> QED BY Zenon, <2>1, <2>2, <2>3, <2>4 DEF WriteMessages
  <1>3. Types'
    BY Zenon, <1>1, <1>2 DEF IInv, Types, Inside
  <1>4. RunOver'
    <2>1. CASE SendMsg(c)
      <3>1. ~closed
        BY Zenon, <2>1 DEF Sending, SendMsg, IInv, Senders
      <3> QED BY Zenon, <1>1, <3>1 DEF IInv, RunOver, Inside
    <2>2. CASE msgs' = msgs
      BY Zenon, <1>1, <2>2 DEF IInv, RunOver, Inside
    <2> QED BY Zenon, <2>1, <2>2 DEF Call, WriteMessages, RLock, Skip, RUnlock, Collect, Collected,
                              BackoffElapsed, BackoffClosed, CtxDone
  <1>5. Known' /\ Unborn' /\ Drained' /\ JoinCounts' /\ CloseOver'
    BY <1>1 DEF IInv, Inside, Known, Unborn, Drained, JoinCounts, Closing, CloseOver
  <1> QED BY Zenon, <1>2, <1>3, <1>4, <1>5 DEF IInv

\* There are finitely many partition writers.
LEMMA InstancesFinite == \A S \in SUBSET Instances : IsFiniteSet(S)
PROOF
  <1>1. IsFiniteSet(Partitions) /\ MaxRebalances \in Int
    BY WriterAssumption
  <1>2. IsFiniteSet(0 .. MaxRebalances)
    BY <1>1, FS_Interval
  <1>3. IsFiniteSet(Partitions \X (0 .. MaxRebalances))
    BY Zenon, <1>1, <1>2, FS_Product
  <1> QED BY Zenon, <1>3, FS_Subset DEF Instances

\* Join is 0 when run has returned and no partition writer is closing.
LEMMA JoinZero ==
  ASSUME IInv, join = 0
  PROVE  rpc = "exited" /\ Closing = {}
PROOF
  <1>2. IsFiniteSet(Closing)
    BY Zenon, InstancesFinite DEF Closing
  <1>3. Cardinality(Closing) \in Nat
    BY Zenon, <1>2, FS_CardinalityType
  <1>4. rpc = "exited" /\ Cardinality(Closing) = 0
    BY <1>3 DEF IInv, JoinCounts
  <1> QED BY Zenon, <1>2, <1>4, FS_EmptySet

\* A call to Close.
LEMMA CloseStep ==
  ASSUME IInv, NEW k \in Closers, CloseCall(k) \/ CloseLocked(k) \/ CloseReturn(k)
  PROVE  IInv'
PROOF
  <1>1. UNCHANGED <<msgs, readers, join, pc, rpc, current, writers, rebalances, queue, phase>>
    BY Zenon DEF CloseCall, CloseLocked, CloseReturn, callVars, runVars, sinkVars
  <1>2. Types'
    BY Zenon, <1>1 DEF CloseCall, CloseLocked, CloseReturn, IInv, Types
  <1>3. Senders' /\ RunOver'
    BY <1>1 DEF CloseCall, CloseLocked, CloseReturn, IInv, Senders, RunOver
  <1>4. Known' /\ Unborn' /\ Drained' /\ JoinCounts'
    BY Zenon, <1>1 DEF IInv, Known, Unborn, Drained, JoinCounts, Closing
  <1>5. CloseOver'
    <2>1. CASE CloseReturn(k)
      BY Zenon, <1>1, <2>1, JoinZero DEF CloseReturn, IInv, Types, CloseOver, Closing
    <2>2. CASE CloseCall(k) \/ CloseLocked(k)
      BY Zenon, <1>1, <2>2 DEF CloseCall, CloseLocked, IInv, Types, CloseOver, Closing
    <2> QED BY Zenon, <2>1, <2>2
  <1> QED BY Zenon, <1>2, <1>3, <1>4, <1>5 DEF IInv

\* The writers that run knows are for different partitions.
LEMMA WritersDiffer ==
  ASSUME Types, Known
  PROVE  /\ \A p \in Open : writers[p] \in Instances /\ writers[p][1] = p
         /\ \A p, q \in Open : writers[p] = writers[q] => p = q
         /\ Open \subseteq Partitions
PROOF
  BY DEF Types, Known, Open

\* The partition writers of S are closed, each counted by join.
LEMMA CloseSome ==
  ASSUME IInv, NEW S \in SUBSET Instances, \A i \in S : phase[i] = "open",
         \A i \in Instances : phase'[i] = "closing" <=> i \in S \/ phase[i] = "closing"
  PROVE  Cardinality(Closing') = Cardinality(Closing) + Cardinality(S)
         /\ Cardinality(Closing) \in Nat /\ Cardinality(S) \in Nat
PROOF
  <1>1. IsFiniteSet(Closing) /\ IsFiniteSet(S)
    BY Zenon, InstancesFinite DEF Closing
  <1>2. Closing' = Closing \cup S /\ Closing \cap S = {}
    BY Zenon DEF Closing
  <1>3. Cardinality(Closing \cup S) =
          Cardinality(Closing) + Cardinality(S) - Cardinality(Closing \cap S)
    BY Zenon, <1>1, FS_Union
  <1>4. Cardinality(Closing) \in Nat /\ Cardinality(S) \in Nat
    BY Zenon, <1>1, FS_CardinalityType
  <1>5. Cardinality(Closing \cap S) = 0
    BY Zenon, <1>2, FS_EmptySet
  <1> QED BY <1>2, <1>3, <1>4, <1>5

\* Run opens and closes partition writers.
LEMMA RebalanceStep ==
  ASSUME IInv, NEW topology \in Topologies, Rebalance(topology)
  PROVE  IInv'
PROOF
  <1> DEFINE D == diffp(Open, topology)
             B == diffp(topology, Open)
             gone == {writers[p] : p \in D}
             born == {<<p, rebalances>> : p \in B}
  <1>1. /\ rpc = "rebalance" /\ rpc' = "select"
        /\ writers' = [p \in Partitions |-> IF p \in B THEN <<p, rebalances>>
                                            ELSE IF p \in D THEN NoInst ELSE writers[p]]
        /\ phase' = [i \in Instances |-> IF i \in gone THEN "closing"
                                         ELSE IF i \in born THEN "open" ELSE phase[i]]
        /\ join' = join + Cardinality(gone)
        /\ UNCHANGED <<msgs, closed, readers, pc, closer, current, rebalances, queue>>
    BY Zenon DEF Rebalance, callVars
  <1>2. topology \subseteq Partitions
    BY Zenon DEF Partitions
  <1>3. D \subseteq Open /\ B \subseteq Partitions /\ B \cap Open = {} /\ Open \subseteq Partitions
    BY Zenon, <1>2 DEF diffp, Open
  <1>4. rebalances \in 0 .. MaxRebalances
    BY Zenon DEF IInv, Types
  <1>5. \A p \in B : <<p, rebalances>> \in Instances /\ phase[<<p, rebalances>>] = "unborn"
    BY Zenon, <1>1, <1>3, <1>4 DEF IInv, Unborn, Instances
  <1>6. \A p \in Open : writers[p] # NoInst /\ writers[p] \in Instances /\ writers[p][1] = p
                        /\ phase[writers[p]] = "open"
    BY DEF IInv, Types, Known, Open
  <1>7. gone \subseteq Instances /\ \A i \in gone : phase[i] = "open"
    BY <1>3, <1>6
  <1>8. born \subseteq Instances /\ \A i \in born : phase[i] = "unborn"
    BY Zenon, <1>5
  <1>9. \A i \in Instances : phase'[i] = IF i \in gone THEN "closing"
                                         ELSE IF i \in born THEN "open" ELSE phase[i]
    BY Zenon, <1>1
  <1>10. \A p \in Partitions : writers'[p] = IF p \in B THEN <<p, rebalances>>
                                             ELSE IF p \in D THEN NoInst ELSE writers[p]
    BY Zenon, <1>1
  <1> HIDE DEF gone, born, D, B
  <1>11. Types'
    <2>1. writers' \in [Partitions -> Instances \cup {NoInst}]
      BY Zenon, <1>1, <1>5 DEF IInv, Types
    <2>2. phase' \in [Instances -> {"unborn", "open", "closing", "finished"}]
      BY Zenon, <1>1 DEF IInv, Types
    <2>3. gone \in SUBSET Instances
      BY Zenon, <1>7
    <2>4. \A i \in Instances : phase'[i] = "closing" <=> i \in gone \/ phase[i] = "closing"
      BY Zenon, <1>8, <1>9
    <2>5. Cardinality(gone) \in Nat
      BY Zenon, <1>7, <2>3, <2>4, CloseSome
    <2> QED BY <1>1, <2>1, <2>2, <2>5 DEF IInv, Types
  <1>12. Senders' /\ RunOver' /\ CloseOver'
    BY Zenon, <1>1 DEF IInv, Senders, RunOver, CloseOver
  <1>13. Known'
    <2>1. ASSUME NEW p \in Partitions, writers'[p] # NoInst
          PROVE  writers'[p][1] = p /\ phase'[writers'[p]] = "open"
      <3>1. CASE p \in B
        <4>1. writers'[p] = <<p, rebalances>> /\ <<p, rebalances>> \in born
          BY Zenon, <1>10, <3>1 DEF born
        <4> QED BY <1>7, <1>8, <1>9, <4>1
      <3>2. CASE p \notin B
        <4>1. p \in Open /\ p \notin D /\ writers'[p] = writers[p]
          BY Zenon, <1>10, <2>1, <3>2 DEF Open
        <4>2. writers[p] \notin gone
          BY <1>3, <1>6, <4>1 DEF gone
        <4> QED BY ZenonT(60), <1>6, <1>9, <4>1, <4>2
      <3> QED BY Zenon, <3>1, <3>2
    <2>2. ASSUME NEW i \in Instances, phase'[i] = "open"
          PROVE  writers'[i[1]] = i
      <3>1. CASE i \in born
        <4>1. PICK p \in B : i = <<p, rebalances>>
          BY Zenon, <3>1 DEF born
        <4> QED BY Zenon, <1>3, <1>10, <4>1
      <3>2. CASE i \notin born
        <4>1. phase[i] = "open" /\ i \notin gone
          BY Zenon, <1>9, <2>2, <3>2
        <4>2. i[1] \in Partitions /\ writers[i[1]] = i /\ i # NoInst
          BY <4>1 DEF IInv, Known, Instances, NoInst
        <4>3. i[1] \in Open
          BY Zenon, <4>2 DEF Open
        <4>4. i[1] \notin D /\ i[1] \notin B
          BY Zenon, <1>3, <4>1, <4>2, <4>3 DEF gone
        <4> QED BY Zenon, <1>10, <4>2, <4>4
      <3> QED BY Zenon, <3>1, <3>2
    <2> QED BY Zenon, <2>1, <2>2 DEF Known
  <1>14. Unborn'
    <2> SUFFICES ASSUME NEW i \in Instances, i[2] > rebalances
                 PROVE  phase'[i] = "unborn"
      BY Zenon, <1>1 DEF Unborn
    <2>1. phase[i] = "unborn"
      BY Zenon DEF IInv, Unborn
    <2>2. i \notin gone
      BY Zenon, <1>7, <2>1
    <2>3. i \notin born
      BY <1>4 DEF born
    <2> QED BY Zenon, <1>9, <2>1, <2>2, <2>3
  <1>15. Drained'
    BY Zenon, <1>1, <1>8, <1>9 DEF IInv, Drained
  <1>16. JoinCounts'
    <2>1. gone \in SUBSET Instances
      BY Zenon, <1>7
    <2>2. \A i \in Instances : phase'[i] = "closing" <=> i \in gone \/ phase[i] = "closing"
      BY Zenon, <1>8, <1>9
    <2>3. /\ Cardinality(Closing') = Cardinality(Closing) + Cardinality(gone)
          /\ Cardinality(Closing) \in Nat /\ Cardinality(gone) \in Nat
      BY Zenon, <1>7, <2>1, <2>2, CloseSome
    <2> QED BY <1>1, <2>3 DEF IInv, JoinCounts
  <1> QED BY Zenon, <1>11, <1>12, <1>13, <1>14, <1>15, <1>16 DEF IInv

\* Run returns: every partition writer that is open is closed, and counted.
LEMMA ReceiveClosedStep ==
  ASSUME IInv, ReceiveClosed
  PROVE  IInv'
PROOF
  <1> DEFINE G == {writers[p] : p \in Open}
  <1>1. /\ rpc = "select" /\ closed /\ msgs = <<>> /\ rpc' = "exited"
        /\ phase' = [i \in Instances |-> IF \E p \in Open : i = writers[p] THEN "closing"
                                         ELSE phase[i]]
        /\ join' = (join + Cardinality(Open)) - 1
        /\ writers' = [p \in Partitions |-> NoInst]
        /\ UNCHANGED <<msgs, closed, readers, pc, closer, current, rebalances, queue>>
    BY Zenon DEF ReceiveClosed, callVars
  <1>2. \A p \in Open : writers[p] \in Instances /\ phase[writers[p]] = "open"
    BY DEF IInv, Types, Known, Open
  <1>3. \A p, q \in Open : writers[p] = writers[q] => p = q
    BY Zenon, WritersDiffer DEF IInv
  <1>4. G \in SUBSET Instances /\ \A i \in G : phase[i] = "open"
    BY Zenon, <1>2
  <1>5. \A i \in Instances : phase'[i] = IF i \in G THEN "closing" ELSE phase[i]
    BY Zenon, <1>1
  <1>6. Cardinality(G) = Cardinality(Open)
    <2>1. [p \in Open |-> writers[p]] \in Bijection(Open, G)
      BY Zenon, <1>3 DEF Bijection, Injection, Surjection, IsInjective
    <2>2. ExistsBijection(Open, G)
      BY Zenon, <2>1 DEF ExistsBijection
    <2>3. IsFiniteSet(Open)
      BY Zenon, WriterAssumption, FS_Subset DEF Open
    <2> QED BY Zenon, <2>2, <2>3, FS_Bijection
  <1> HIDE DEF G
  <1>7. /\ Cardinality(Closing') = Cardinality(Closing) + Cardinality(G)
        /\ Cardinality(Closing) \in Nat /\ Cardinality(G) \in Nat
    <2>1. \A i \in Instances : phase'[i] = "closing" <=> i \in G \/ phase[i] = "closing"
      BY Zenon, <1>5
    <2> QED BY Zenon, <1>4, <2>1, CloseSome
  <1>8. Types'
    BY <1>1, <1>6, <1>7 DEF IInv, Types
  <1>9. Senders' /\ RunOver' /\ CloseOver'
    BY Zenon, <1>1 DEF IInv, Senders, RunOver, CloseOver
  <1>10. Known'
    <2>1. ASSUME NEW i \in Instances, phase'[i] = "open"
          PROVE  FALSE
      <3>1. phase[i] = "open" /\ i \notin G
        BY Zenon, <1>5, <2>1
      <3>2. i[1] \in Partitions /\ writers[i[1]] = i /\ i # NoInst
        BY <3>1 DEF IInv, Known, Instances, NoInst
      <3> QED BY Zenon, <3>1, <3>2 DEF G, Open
    <2> QED BY Zenon, <1>1, <2>1 DEF Known
  <1>11. Unborn'
    BY Zenon, <1>1, <1>4, <1>5 DEF IInv, Unborn
  <1>12. Drained'
    BY Zenon, <1>1, <1>5 DEF IInv, Drained
  <1>13. JoinCounts'
    BY <1>1, <1>6, <1>7 DEF IInv, JoinCounts
  <1> QED BY Zenon, <1>8, <1>9, <1>10, <1>11, <1>12, <1>13 DEF IInv

\* The other steps of run.
LEMMA RunStep ==
  ASSUME IInv,
         \/ RebalanceError \/ Tick \/ ReceiveMsg \/ ReceiveNoPartition
         \/ \E p \in Partitions : Forward(p)
  PROVE  IInv'
PROOF
  <1>1. UNCHANGED <<closed, readers, join, pc, closer, writers, phase>>
    BY Zenon
       DEF RebalanceError, Tick, ReceiveMsg, ReceiveNoPartition, Forward, callVars, runVars,
           sinkVars
  <1>2. Senders' /\ Known' /\ Closing' = Closing
    BY Zenon, <1>1 DEF IInv, Senders, Known, Closing
  <1>3. CASE RebalanceError \/ ReceiveMsg \/ ReceiveNoPartition
    <2>1. UNCHANGED <<rebalances, queue>> /\ rpc # "exited"
          /\ rpc' \in {"select", "forward"} /\ (rpc' = "select" => current' = current)
          /\ rpc # "forward"
      BY Zenon, <1>3 DEF RebalanceError, ReceiveMsg, ReceiveNoPartition, runVars, sinkVars
    <2>2. Types'
      BY Zenon, <1>1, <2>1 DEF IInv, Types
    <2>3. Unborn' /\ Drained' /\ JoinCounts' /\ RunOver' /\ CloseOver'
      BY Zenon, <1>1, <1>2, <2>1 DEF IInv, Unborn, Drained, JoinCounts, RunOver, CloseOver
    <2> QED BY Zenon, <1>2, <2>2, <2>3 DEF IInv
  <1>4. CASE Tick
    <2>1. /\ rpc = "select" /\ rpc' = "rebalance" /\ UNCHANGED <<current, queue>>
          /\ rebalances < MaxRebalances /\ rebalances' = rebalances + 1
          /\ rebalances \in 0 .. MaxRebalances /\ MaxRebalances \in Nat
      BY Zenon, <1>4, WriterAssumption DEF Tick, sinkVars, IInv, Types
    <2>2. Types'
      BY <1>1, <2>1 DEF IInv, Types
    <2>3. Unborn'
      <3>1. \A i \in Instances : i[2] \in 0 .. MaxRebalances
        BY Zenon DEF Instances
      <3> QED BY <1>1, <2>1, <3>1 DEF IInv, Unborn
    <2>4. Drained' /\ JoinCounts' /\ RunOver' /\ CloseOver'
      BY Zenon, <1>1, <1>2, <2>1 DEF IInv, Drained, JoinCounts, RunOver, CloseOver
    <2> QED BY Zenon, <1>2, <2>2, <2>3, <2>4 DEF IInv
  <1>5. ASSUME NEW p \in Partitions, Forward(p)
        PROVE  IInv'
    <2>1. /\ rpc = "forward" /\ rpc' = "select" /\ current' = NoItem /\ UNCHANGED rebalances
          /\ queue' = [queue EXCEPT ![writers[p]] = Append(@, current)]
          /\ p \in Open
      BY Zenon, <1>5 DEF Forward
    <2>2. writers[p] \in Instances /\ phase[writers[p]] = "open"
      BY <2>1 DEF IInv, Types, Known, Open
    <2>3. DOMAIN queue' = DOMAIN queue
      BY Zenon, <2>1
    <2>4. \A i \in Instances : i # writers[p] => queue'[i] = queue[i]
      BY Zenon, <2>1 DEF IInv, Types
    <2>5. Types'
      BY Zenon, <1>1, <2>1, <2>3 DEF IInv, Types
    <2>6. Drained'
      BY Zenon, <1>1, <2>2, <2>4 DEF IInv, Drained
    <2>7. Unborn' /\ JoinCounts' /\ RunOver' /\ CloseOver'
      BY Zenon, <1>1, <1>2, <2>1 DEF IInv, Unborn, JoinCounts, RunOver, CloseOver
    <2> QED BY Zenon, <1>2, <2>5, <2>6, <2>7 DEF IInv
  <1> QED BY Zenon, <1>3, <1>4, <1>5

\* A partition writer answers, or has drained its queue.
LEMMA SinkStep ==
  ASSUME IInv, NEW i \in Instances, AnswerSome(i) \/ Finish(i)
  PROVE  IInv'
PROOF
  <1>1. UNCHANGED <<msgs, closed, readers, pc, closer, rpc, current, writers, rebalances>>
    BY Zenon DEF AnswerSome, Answer, Finish, callVars, runVars
  <1>2. Senders'
    BY Zenon, <1>1 DEF IInv, Senders
  <1>3. RunOver'
    BY Zenon, <1>1 DEF IInv, RunOver
  <1>4. CASE AnswerSome(i)
    <2>1. PICK nil \in BOOLEAN : Answer(i, nil)
      BY Zenon, <1>4 DEF AnswerSome
    <2>2. /\ UNCHANGED <<join, phase>> /\ phase[i] \in {"open", "closing"}
          /\ queue' = [queue EXCEPT ![i] = Tail(@)]
      BY Zenon, <2>1 DEF Answer
    <2>3. DOMAIN queue' = DOMAIN queue
      BY Zenon, <2>2
    <2>4. \A j \in Instances : j # i => queue'[j] = queue[j]
      BY Zenon, <2>2 DEF IInv, Types
    <2>5. Types'
      BY Zenon, <1>1, <2>2, <2>3 DEF IInv, Types
    <2>6. Drained'
      BY Zenon, <2>2, <2>4 DEF IInv, Drained
    <2>7. Known' /\ Unborn' /\ JoinCounts' /\ CloseOver'
      BY <1>1, <2>2 DEF IInv, Known, Unborn, JoinCounts, CloseOver, Closing
    <2> QED BY Zenon, <1>2, <1>3, <2>5, <2>6, <2>7 DEF IInv
  <1>5. CASE Finish(i)
    <2>1. /\ phase[i] = "closing" /\ queue[i] = <<>> /\ UNCHANGED queue
          /\ phase' = [phase EXCEPT ![i] = "finished"] /\ join' = join - 1
      BY Zenon, <1>5 DEF Finish
    <2>2. \A j \in Instances : phase'[j] = IF j = i THEN "finished" ELSE phase[j]
      BY Zenon, <2>1 DEF IInv, Types
    <2>3. Types'
      BY <1>1, <2>1 DEF IInv, Types
    <2>4. Known' /\ Unborn' /\ Drained'
      BY <1>1, <2>1, <2>2 DEF IInv, Known, Unborn, Drained
    <2>5. Closing' = Closing \ {i} /\ i \in Closing
      BY <2>1, <2>2 DEF Closing
    <2>6. CloseOver'
      BY Zenon, <1>1, <2>5 DEF IInv, CloseOver
    <2>7. JoinCounts'
      <3>1. IsFiniteSet(Closing)
        BY Zenon, InstancesFinite DEF Closing
      <3>2. Cardinality(Closing') = Cardinality(Closing) - 1 /\ Cardinality(Closing) \in Nat
        BY Zenon, <2>5, <3>1, FS_RemoveElement, FS_CardinalityType
      <3> QED BY <1>1, <2>1, <3>2 DEF IInv, JoinCounts
    <2> QED BY Zenon, <1>2, <1>3, <2>3, <2>4, <2>6, <2>7 DEF IInv
  <1> QED BY Zenon, <1>4, <1>5

-----------------------------------------------------------------------------
(* The theorems. *)

\* NewWriter establishes the invariant.
LEMMA InitInv == Init => IInv
PROOF
  <1> SUFFICES ASSUME Init PROVE IInv
    BY Zenon
  <1>1. Types
    <2>1. 0 \in 0 .. MaxRebalances
      BY WriterAssumption
    <2>2. pc \in [Callers -> CallPCs] /\ closer \in [Closers -> {"idle", "lock", "wait", "returned"}]
      BY Zenon DEF Init, CallPCs
    <2>3. /\ writers \in [Partitions -> Instances \cup {NoInst}]
          /\ phase \in [Instances -> {"unborn", "open", "closing", "finished"}]
          /\ DOMAIN queue = Instances
      BY Zenon DEF Init
    <2>4. closed = FALSE /\ readers = {} /\ join = 1 /\ rpc = "rebalance" /\ rebalances = 0
      BY Zenon DEF Init
    <2>5. closed \in BOOLEAN /\ readers \in SUBSET Callers /\ join \in Int
      <3>1. closed \in BOOLEAN
        BY <2>4, Zenon
      <3>2. readers \in SUBSET Callers
        BY Zenon, <2>4
      <3>3. join \in Int
        BY <2>4
      <3> QED BY Zenon, <3>1, <3>2, <3>3
    <2>6. rpc \in {"rebalance", "select", "forward", "exited"} /\ rebalances \in 0 .. MaxRebalances
      BY Zenon, <2>1, <2>4
    <2> QED BY Zenon, <2>2, <2>3, <2>5, <2>6 DEF Types
  <1>2. Senders /\ Known /\ Unborn /\ Drained /\ RunOver /\ CloseOver
    BY Zenon DEF Init, Senders, Known, Unborn, Drained, RunOver, CloseOver
  <1>3. Closing = {}
    BY Zenon DEF Init, Closing
  <1>4. JoinCounts
    BY <1>3, FS_EmptySet DEF Init, JoinCounts
  <1> QED BY Zenon, <1>1, <1>2, <1>4 DEF IInv

\* Every step keeps it.
LEMMA NextInv == IInv /\ [Next]_vars => IInv'
PROOF
  <1> SUFFICES ASSUME IInv, [Next]_vars PROVE IInv'
    BY Zenon
  <1>1. CASE UNCHANGED vars
    <2> USE <1>1 DEF vars, callVars, runVars, sinkVars, IInv
    <2>1. Types' /\ Senders'
      BY Zenon DEF Types, Senders
    <2>2. Known' /\ Unborn' /\ Drained'
      BY Zenon DEF Known, Unborn, Drained
    <2>3. JoinCounts' /\ RunOver' /\ CloseOver'
      BY Zenon DEF JoinCounts, Closing, RunOver, CloseOver
    <2> QED BY Zenon, <2>1, <2>2, <2>3
  <1> QED BY Zenon, <1>1, CallStep, CloseStep, RebalanceStep, ReceiveClosedStep, RunStep, SinkStep
          DEF Next, Run

\* No goroutine sends on a closed channel: a call to WriteMessages never on
\* w.msgs, run never to a partition writer that is being closed.
THEOREM NeverSendsOnClosed == Spec => []NoSendOnClosedChannel
PROOF
  <1>1. IInv => NoSendOnClosedChannel
    BY Zenon DEF IInv, Senders, Known, NoSendOnClosedChannel
  <1> QED BY <1>1, InitInv, NextInv, PTL DEF Spec

\* Once Close has returned nothing is buffered any more, in w.msgs, by run or in
\* a partition writer, and every partition writer is finished.
THEOREM CloseHasFlushed == Spec => []CloseFlushes
PROOF
  <1>1. IInv => CloseFlushes
    <2> SUFFICES ASSUME IInv, NEW k \in Closers, closer[k] = "returned"
                 PROVE  /\ msgs = <<>> /\ current = NoItem
                        /\ \A i \in Instances : queue[i] = <<>> /\ phase[i] \in {"unborn", "finished"}
      BY Zenon DEF CloseFlushes
    <2>1. rpc = "exited" /\ Closing = {}
      BY Zenon DEF IInv, CloseOver
    <2>2. msgs = <<>> /\ current = NoItem /\ \A p \in Partitions : writers[p] = NoInst
      BY Zenon, <2>1 DEF IInv, RunOver
    <2>3. ASSUME NEW i \in Instances
          PROVE  phase[i] \in {"unborn", "finished"}
      <3>1. phase[i] # "closing" /\ i[1] \in Partitions /\ i # NoInst
        <4>1. phase[i] # "closing"
          BY Zenon, <2>1 DEF Closing
        <4>2. i[1] \in Partitions /\ i # NoInst
          BY DEF Instances, NoInst
        <4> QED BY Zenon, <4>1, <4>2
      <3>2. writers[i[1]] = NoInst
        BY Zenon, <2>2, <3>1
      <3>3. phase[i] = "open" => writers[i[1]] = i
        BY Zenon DEF IInv, Known
      <3> QED BY Zenon, <3>1, <3>2, <3>3 DEF IInv, Types
    <2> QED BY Zenon, <2>2, <2>3 DEF IInv, Drained
  <1> QED BY <1>1, InitInv, NextInv, PTL DEF Spec

-----------------------------------------------------------------------------
(* Counting the messages that have still to be answered. *)

\* What is in the channels, and how far the calls are.
Counts ==
  /\ msgs \in Seq(Item)
  /\ rpc = "forward" => current \in Item
  /\ queue \in [Instances -> Seq(Item)]
  /\ \A i \in Instances : Len(queue[i]) <= Depth
  /\ todo \in [Callers -> Seq(Msgs)] /\ retry \in [Callers -> Seq(Msgs)]
  /\ sent \in [Callers -> Nat] /\ skipped \in [Callers -> Nat] /\ got \in [Callers -> Nat]
  /\ res \in [Callers -> Seq([msg : Msgs, nil : BOOLEAN])]

\* A call has no more messages to send than it was given, none to retry that it
\* has no response for, and what ResponsesAccounted says of it.
Accounted(c) ==
  /\ Len(todo[c]) <= Len(Payload[c])
  /\ pc[c] \in {"send", "collect"} => sent[c] <= Len(todo[c]) /\ Len(retry[c]) <= got[c]
  /\ pc[c] = "collect" => sent[c] = Len(todo[c])
  /\ Len(res[c]) + Owed(c) <= Len(Payload[c])
  /\ pc[c] \in {"send", "collect"} => sent[c] - skipped[c] = got[c] + Len(res[c]) + Owed(c)
  /\ pc[c] \in {"idle", "lock", "backoff"} => Len(res[c]) + Owed(c) = 0

\* The inductive invariant behind ResponsesAccounted.
AccountInv == Counts /\ \A c \in Callers : Accounted(c)

-----------------------------------------------------------------------------
(* Facts about numbers, sequences and functions. *)

In(x, s) == \E j \in 1 .. Len(s) : s[j] = x

LEMMA Element ==
  ASSUME NEW S, NEW s \in Seq(S), NEW n \in Nat, n < Len(s)
  PROVE  s[n + 1] \in S
PROOF
  OBVIOUS

LEMMA NextIndex ==
  ASSUME NEW n \in Nat, NEW l \in Nat, NEW j \in n + 1 .. l, j # n + 1
  PROVE  j \in (n + 1) + 1 .. l
PROOF
  OBVIOUS

LEMMA Bit == \A p \in BOOLEAN : (IF p THEN 1 ELSE 0) \in Nat
PROOF
  BY Zenon

LEMMA Successor == \A n \in Nat : n + 1 \in Nat
PROOF
  OBVIOUS

LEMMA AppendOne ==
  ASSUME NEW S, NEW s \in Seq(S), NEW x \in S, NEW n \in Nat, Len(s) < n
  PROVE  Append(s, x) \in Seq(S) /\ Len(Append(s, x)) <= n
PROOF
  OBVIOUS

LEMMA NothingIn == \A x : ~In(x, <<>>)
PROOF
  BY DEF In

\* One message joins a sequence.
LEMMA PlacesAppend ==
  ASSUME NEW c \in Callers, NEW s \in Seq(Item), NEW x \in Item
  PROVE  /\ Cardinality(PlacesFor(c, s)) \in Nat
         /\ Cardinality(PlacesFor(c, Append(s, x))) =
              Cardinality(PlacesFor(c, s)) + (IF x.caller = c THEN 1 ELSE 0)
PROOF
  <1> DEFINE P == PlacesFor(c, s)
             n == Len(s)
  <1>1. n \in Nat /\ Len(Append(s, x)) = n + 1 /\ Append(s, x)[n + 1] = x
        /\ \A j \in 1 .. n : Append(s, x)[j] = s[j]
    OBVIOUS
  <1>2. P \subseteq 1 .. n
    BY Zenon DEF PlacesFor
  <1>3. IsFiniteSet(P) /\ Cardinality(P) \in Nat
    <2>1. IsFiniteSet(1 .. n)
      BY <1>1, FS_Interval
    <2> QED BY Zenon, <1>2, <2>1, FS_Subset, FS_CardinalityType
  <1>4. n + 1 \notin P
    BY <1>1, <1>2
  <1>5. CASE x.caller = c
    <2>1. PlacesFor(c, Append(s, x)) = P \cup {n + 1}
      BY <1>1, <1>5 DEF PlacesFor
    <2> QED BY ZenonT(60), <1>3, <1>4, <1>5, <2>1, FS_AddElement
  <1>6. CASE x.caller # c
    <2>1. PlacesFor(c, Append(s, x)) = P
      BY <1>1, <1>6 DEF PlacesFor
    <2> QED BY <1>3, <1>6, <2>1
  <1> QED BY Zenon, <1>5, <1>6

\* The first message leaves a sequence.
LEMMA PlacesTail ==
  ASSUME NEW c \in Callers, NEW s \in Seq(Item), s # <<>>
  PROVE  /\ Cardinality(PlacesFor(c, Tail(s))) \in Nat
         /\ Cardinality(PlacesFor(c, s)) =
              Cardinality(PlacesFor(c, Tail(s))) + (IF Head(s).caller = c THEN 1 ELSE 0)
PROOF
  <1> DEFINE P == PlacesFor(c, s)
             T == PlacesFor(c, Tail(s))
             n == Len(s)
             f == [j \in T |-> j + 1]
  <1>1. n \in Nat \ {0} /\ Len(Tail(s)) = n - 1 /\ Head(s) = s[1]
        /\ \A j \in 1 .. n - 1 : Tail(s)[j] = s[j + 1]
    OBVIOUS
  <1>2. T \subseteq 1 .. n - 1 /\ P \subseteq 1 .. n
    BY Zenon, <1>1 DEF PlacesFor
  <1>3. IsFiniteSet(T) /\ Cardinality(T) \in Nat /\ IsFiniteSet(P)
    <2>1. IsFiniteSet(1 .. n - 1) /\ IsFiniteSet(1 .. n)
      BY <1>1, FS_Interval
    <2> QED BY Zenon, <1>2, <2>1, FS_Subset, FS_CardinalityType
  <1>4. Cardinality(P \ {1}) = Cardinality(T)
    <2>1. \A j \in T : j + 1 \in P \ {1}
      BY <1>1 DEF PlacesFor
    <2>2. \A k \in P \ {1} : k - 1 \in T /\ (k - 1) + 1 = k
      BY <1>1 DEF PlacesFor
    <2>3. \A j, k \in T : j + 1 = k + 1 => j = k
      BY <1>2
    <2> HIDE DEF P, T
    <2>4. f \in Bijection(T, P \ {1})
      BY Zenon, <2>1, <2>2, <2>3 DEF Bijection, Injection, Surjection, IsInjective
    <2> QED BY Zenon, <1>3, <2>4, FS_Bijection DEF ExistsBijection
  <1>5. 1 \in P <=> Head(s).caller = c
    BY <1>1 DEF PlacesFor
  <1>6. CASE 1 \in P
    <2>1. Cardinality(P \ {1}) = Cardinality(P) - 1 /\ Cardinality(P) \in Nat
      BY Zenon, <1>3, <1>6, FS_RemoveElement, FS_CardinalityType
    <2> QED BY <1>3, <1>4, <1>5, <1>6, <2>1
  <1>7. CASE 1 \notin P
    <2>1. P \ {1} = P /\ Cardinality(T) + 0 = Cardinality(T)
      BY <1>3, <1>7
    <2> QED BY ZenonT(60), <1>3, <1>4, <1>5, <1>7, <2>1
  <1> QED BY Zenon, <1>6, <1>7

\* There are finitely many places in the queues.
LEMMA QueuedType ==
  ASSUME NEW S \in SUBSET (Instances \X (1 .. Depth))
  PROVE  IsFiniteSet(S) /\ Cardinality(S) \in Nat
PROOF
  <1>1. IsFiniteSet(Instances)
    BY Zenon, InstancesFinite
  <1>2. IsFiniteSet(1 .. Depth)
    BY WriterAssumption, FS_Interval
  <1>3. IsFiniteSet(Instances \X (1 .. Depth))
    BY Zenon, <1>1, <1>2, FS_Product
  <1> QED BY Zenon, <1>3, FS_Subset, FS_CardinalityType

\* A message joins the queue of a partition writer.
LEMMA QueuedAppend ==
  ASSUME NEW c \in Callers, NEW i \in Instances, NEW x \in Item, Counts,
         Len(queue[i]) < Depth, queue' = [queue EXCEPT ![i] = Append(@, x)]
  PROVE  Cardinality(QueuedFor(c)') = Cardinality(QueuedFor(c)) + (IF x.caller = c THEN 1 ELSE 0)
PROOF
  <1> DEFINE n == Len(queue[i])
  <1>1. queue[i] \in Seq(Item) /\ n \in Nat /\ Depth \in Nat
    BY WriterAssumption DEF Counts
  <1>2. /\ queue'[i] = Append(queue[i], x)
        /\ \A k \in Instances : k # i => queue'[k] = queue[k]
    BY Zenon DEF Counts
  <1>3. PlacesFor(c, queue'[i]) = PlacesFor(c, queue[i]) \cup (IF x.caller = c THEN {n + 1} ELSE {})
    BY <1>1, <1>2 DEF PlacesFor
  <1>4. <<i, n + 1>> \in Instances \X (1 .. Depth) /\ <<i, n + 1>> \notin QueuedFor(c)
    BY <1>1 DEF QueuedFor, PlacesFor
  <1>7. IsFiniteSet(QueuedFor(c)) /\ Cardinality(QueuedFor(c)) \in Nat
    BY Zenon, QueuedType DEF QueuedFor
  <1>5. CASE x.caller = c
    <2>1. QueuedFor(c)' = QueuedFor(c) \cup {<<i, n + 1>>}
      BY <1>2, <1>3, <1>4, <1>5 DEF QueuedFor
    <2> QED BY ZenonT(60), <1>4, <1>5, <1>7, <2>1, FS_AddElement
  <1>6. CASE x.caller # c
    <2>1. QueuedFor(c)' = QueuedFor(c)
      BY Zenon, <1>2, <1>3, <1>6 DEF QueuedFor
    <2> QED BY <1>6, <1>7, <2>1
  <1> QED BY Zenon, <1>5, <1>6

\* The first message leaves the queue of a partition writer.
LEMMA QueuedTail ==
  ASSUME NEW c \in Callers, NEW i \in Instances, Counts,
         queue[i] # <<>>, queue' = [queue EXCEPT ![i] = Tail(@)]
  PROVE  /\ Cardinality(QueuedFor(c)') \in Nat
         /\ Cardinality(QueuedFor(c)) =
              Cardinality(QueuedFor(c)') + (IF Head(queue[i]).caller = c THEN 1 ELSE 0)
PROOF
  <1> DEFINE n == Len(queue[i])
             Q == QueuedFor(c)
             R == QueuedFor(c)'
             f == [at \in R |-> IF at[1] = i THEN <<i, at[2] + 1>> ELSE at]
  <1>1. /\ queue[i] \in Seq(Item) /\ n \in Nat \ {0} /\ n <= Depth /\ Depth \in Nat
        /\ Len(Tail(queue[i])) = n - 1 /\ Head(queue[i]) = queue[i][1]
        /\ \A j \in 1 .. n - 1 : Tail(queue[i])[j] = queue[i][j + 1]
    BY WriterAssumption DEF Counts
  <1>2. /\ queue'[i] = Tail(queue[i])
        /\ \A k \in Instances : k # i => queue'[k] = queue[k]
    BY Zenon DEF Counts
  <1>3. /\ \A j \in 1 .. n - 1 : j \in PlacesFor(c, queue'[i]) <=> j + 1 \in PlacesFor(c, queue[i])
        /\ PlacesFor(c, queue'[i]) \subseteq 1 .. n - 1
    <2>1. Len(queue'[i]) = n - 1 /\ \A j \in 1 .. n - 1 : queue'[i][j] = queue[i][j + 1]
      BY Zenon, <1>1, <1>2
    <2>2. \A j \in 1 .. n - 1 : j + 1 \in 1 .. n
      BY <1>1
    <2> QED BY Zenon, <2>1, <2>2 DEF PlacesFor
  <1>4. \A j \in PlacesFor(c, queue[i]) : j \in 1 .. n
    BY Zenon DEF PlacesFor
  <1>5. \A k \in Instances, j \in 1 .. Depth : <<k, j>> \in Q <=> j \in PlacesFor(c, queue[k])
    BY Zenon DEF QueuedFor
  <1>6. \A k \in Instances, j \in 1 .. Depth : <<k, j>> \in R <=> j \in PlacesFor(c, queue'[k])
    BY Zenon DEF QueuedFor
  <1>7. /\ \A at \in Q : at[1] \in Instances /\ at[2] \in 1 .. Depth /\ at = <<at[1], at[2]>>
        /\ \A at \in R : at[1] \in Instances /\ at[2] \in 1 .. Depth /\ at = <<at[1], at[2]>>
    BY DEF QueuedFor
  <1> HIDE DEF Q, R
  <1>8. \A at \in R : f[at] \in Q \ {<<i, 1>>}
    <2> SUFFICES ASSUME NEW at \in R PROVE f[at] \in Q \ {<<i, 1>>}
      BY Zenon
    <2>1. CASE at[1] = i
      <3>1. at[2] \in 1 .. n - 1 /\ at[2] + 1 \in PlacesFor(c, queue[i])
        BY <1>3, <1>6, <1>7, <2>1
      <3>2. at[2] + 1 \in 1 .. Depth /\ at[2] + 1 # 1
        BY <1>1, <3>1
      <3>3. f[at] = <<i, at[2] + 1>>
        BY Zenon, <2>1
      <3> QED BY <1>5, <3>1, <3>2, <3>3
    <2>2. CASE at[1] # i
      <3>1. f[at] = at
        BY Zenon, <2>2
      <3>2. <<at[1], at[2]>> \in Q
        BY ZenonT(60), <1>2, <1>5, <1>6, <1>7, <2>2
      <3>3. at # <<i, 1>>
        BY <2>2
      <3> QED BY Zenon, <1>7, <3>1, <3>2, <3>3
    <2> QED BY Zenon, <2>1, <2>2
  <1>9. \A at \in Q \ {<<i, 1>>} : \E b \in R : f[b] = at
    <2> SUFFICES ASSUME NEW at \in Q, at # <<i, 1>> PROVE \E b \in R : f[b] = at
      BY Zenon
    <2>1. CASE at[1] = i
      <3>1. at[2] \in PlacesFor(c, queue[i]) /\ at[2] \in 1 .. n /\ at[2] # 1
        BY Zenon, <1>4, <1>5, <1>7, <2>1
      <3>2. /\ at[2] - 1 \in 1 .. n - 1 /\ at[2] - 1 \in 1 .. Depth /\ (at[2] - 1) + 1 = at[2]
        BY SMTT(40), <1>1, <3>1
      <3>3. <<i, at[2] - 1>> \in R
        BY Zenon, <1>3, <1>6, <3>1, <3>2
      <3>4. f[<<i, at[2] - 1>>] = <<i, at[2]>>
        BY Zenon, <3>2, <3>3
      <3> QED BY Zenon, <1>7, <2>1, <3>3, <3>4
    <2>2. CASE at[1] # i
      <3>1. <<at[1], at[2]>> \in R
        BY Zenon, <1>2, <1>5, <1>6, <1>7, <2>2
      <3>2. at \in R
        BY Zenon, <1>7, <3>1
      <3> QED BY Zenon, <2>2, <3>2
    <2> QED BY Zenon, <2>1, <2>2
  <1>10. \A a, b \in R : f[a] = f[b] => a = b
    <2> SUFFICES ASSUME NEW a \in R, NEW b \in R, f[a] = f[b] PROVE a = b
      BY Zenon
    <2>1. f[a] = IF a[1] = i THEN <<i, a[2] + 1>> ELSE a
      BY Zenon
    <2>2. f[b] = IF b[1] = i THEN <<i, b[2] + 1>> ELSE b
      BY Zenon
    <2>3. a[1] = b[1]
      BY <2>1, <2>2
    <2>4. a[2] = b[2]
      BY <1>7, <2>1, <2>2, <2>3
    <2> QED BY Zenon, <1>7, <2>3, <2>4
  <1>11. Cardinality(Q \ {<<i, 1>>}) = Cardinality(R)
         /\ IsFiniteSet(Q) /\ Cardinality(Q) \in Nat /\ Cardinality(R) \in Nat
    <2>1. IsFiniteSet(Q) /\ Cardinality(Q) \in Nat /\ IsFiniteSet(R) /\ Cardinality(R) \in Nat
      BY Zenon, QueuedType DEF Q, R, QueuedFor
    <2>2. f \in Bijection(R, Q \ {<<i, 1>>})
      <3> HIDE DEF f
      <3>1. f \in [R -> Q \ {<<i, 1>>}]
        BY Zenon, <1>8 DEF f
      <3> QED BY Zenon, <1>9, <1>10, <3>1 DEF Bijection, Injection, Surjection, IsInjective
    <2>3. ExistsBijection(R, Q \ {<<i, 1>>})
      BY Zenon, <2>2 DEF ExistsBijection
    <2> QED BY Zenon, <2>1, <2>3, FS_Bijection
  <1>12. <<i, 1>> \in Q <=> Head(queue[i]).caller = c
    BY <1>1, <1>5 DEF PlacesFor
  <1>13. CASE <<i, 1>> \in Q
    <2>1. Cardinality(Q \ {<<i, 1>>}) = Cardinality(Q) - 1
      BY Zenon, <1>11, <1>13, FS_RemoveElement
    <2>2. Cardinality(Q) # 0
      BY Zenon, <1>11, <1>13, FS_EmptySet
    <2> QED BY <1>11, <1>12, <1>13, <2>1, <2>2 DEF Q, R
  <1>14. CASE <<i, 1>> \notin Q
    <2>1. Q \ {<<i, 1>>} = Q
      BY Zenon, <1>14
    <2>2. Cardinality(R) + 0 = Cardinality(R)
      BY <1>11
    <2> QED BY Zenon, <1>11, <1>12, <1>14, <2>1, <2>2 DEF Q, R
  <1> QED BY Zenon, <1>13, <1>14

\* The numbers in ResponsesAccounted.
LEMMA OwedType ==
  ASSUME Counts, NEW c \in Callers
  PROVE  /\ Cardinality(PlacesFor(c, msgs)) \in Nat /\ Cardinality(QueuedFor(c)) \in Nat
         /\ Owed(c) \in Nat /\ Len(res[c]) \in Nat
PROOF
  <1>1. Len(msgs) \in Nat
    BY DEF Counts
  <1>2. IsFiniteSet(1 .. Len(msgs))
    BY <1>1, FS_Interval
  <1>3. Cardinality(PlacesFor(c, msgs)) \in Nat
    BY Zenon, <1>2, FS_Subset, FS_CardinalityType DEF PlacesFor
  <1>4. Cardinality(QueuedFor(c)) \in Nat
    BY Zenon, QueuedType DEF QueuedFor
  <1>5. Len(res[c]) \in Nat
    BY DEF Counts
  <1> QED BY <1>3, <1>4, <1>5 DEF Owed

\* A step that leaves the messages where they are.
LEMMA OwedSame ==
  ASSUME UNCHANGED <<msgs, queue>>,
         UNCHANGED <<rpc, current>> \/ (rpc # "forward" /\ rpc' # "forward"),
         NEW c \in Callers
  PROVE  Owed(c)' = Owed(c)
PROOF
  BY Zenon DEF Owed, QueuedFor

\* A call that has as much in res or owed as before.
LEMMA AccountedKept ==
  ASSUME Counts, NEW c \in Callers, Accounted(c),
         /\ pc'[c] = pc[c] /\ todo'[c] = todo[c] /\ sent'[c] = sent[c] /\ skipped'[c] = skipped[c]
         /\ got'[c] = got[c] /\ retry'[c] = retry[c],
         /\ Len(res'[c]) \in Nat /\ Owed(c)' \in Nat
         /\ Len(res'[c]) + Owed(c)' = Len(res[c]) + Owed(c)
  PROVE  Accounted(c)'
PROOF
  <1> DEFINE g == got[c] r == Len(res'[c]) o == Owed(c)' u == Len(res[c]) v == Owed(c)
  <1>1. g \in Nat /\ r \in Nat /\ o \in Nat /\ u \in Nat /\ v \in Nat /\ r + o = u + v
    BY Zenon, OwedType DEF Counts
  <1> HIDE DEF g, r, o, u, v
  <1>2. g + r + o = g + u + v
    BY ONLY <1>1
  <1> QED BY Zenon, <1>1, <1>2 DEF Accounted, g, r, o, u, v

\* A step of run or of a partition writer, after which as much is owed or in res.
LEMMA AccountKept ==
  ASSUME AccountInv, Counts', UNCHANGED <<pc, todo, sent, skipped, got, retry>>,
         \A c \in Callers : /\ Len(res'[c]) \in Nat /\ Owed(c)' \in Nat
                            /\ Len(res'[c]) + Owed(c)' = Len(res[c]) + Owed(c)
  PROVE  AccountInv'
PROOF
  BY Zenon, AccountedKept DEF AccountInv

\* A response joins res, and its message was owed.
LEMMA RespondStep ==
  ASSUME Counts, NEW item \in Item, NEW nil \in BOOLEAN, Respond(item, nil)
  PROVE  /\ res' \in [Callers -> Seq([msg : Msgs, nil : BOOLEAN])]
         /\ \A c \in Callers : /\ Len(res'[c]) = Len(res[c]) + (IF item.caller = c THEN 1 ELSE 0)
                               /\ Len(res[c]) \in Nat
PROOF
  <1>1. item.caller \in Callers /\ item.msg \in Msgs
    BY Zenon DEF Item
  <1>2. [msg |-> item.msg, nil |-> nil] \in [msg : Msgs, nil : BOOLEAN]
    BY Zenon, <1>1
  <1>3. res' = [res EXCEPT ![item.caller] = Append(@, [msg |-> item.msg, nil |-> nil])]
    BY Zenon DEF Respond
  <1> DEFINE R == [msg : Msgs, nil : BOOLEAN]
             r == [msg |-> item.msg, nil |-> nil]
  <1>4. r \in R /\ res \in [Callers -> Seq(R)] /\ res' = [res EXCEPT ![item.caller] = Append(@, r)]
    BY Zenon, <1>2, <1>3 DEF Counts
  <1> HIDE DEF R, r
  <1>5. res' \in [Callers -> Seq(R)]
    BY <1>1, <1>4
  <1>6. \A c \in Callers : /\ Len(res'[c]) = Len(res[c]) + (IF item.caller = c THEN 1 ELSE 0)
                           /\ Len(res[c]) \in Nat
    BY <1>1, <1>4
  <1> QED BY Zenon, <1>5, <1>6 DEF R

\* The steps of run.
LEMMA RunAccount ==
  ASSUME IInv, AccountInv, Run \/ Tick
  PROVE  AccountInv'
PROOF
  <1>1. Counts
    BY Zenon DEF AccountInv
  <1>2. UNCHANGED <<pc, todo, sent, skipped, got, retry>>
    BY Zenon DEF Run, Rebalance, RebalanceError, Tick, ReceiveMsg, ReceiveNoPartition, Forward,
           ReceiveClosed, callVars
  <1>3. CASE (\E t \in Topologies : Rebalance(t)) \/ RebalanceError \/ Tick \/ ReceiveClosed
    <2>1. UNCHANGED <<msgs, queue, res>> /\ rpc # "forward" /\ rpc' # "forward"
      BY Zenon, <1>3 DEF Rebalance, RebalanceError, Tick, ReceiveClosed, sinkVars
    <2>2. Counts'
      BY Zenon, <1>1, <1>2, <2>1 DEF Counts
    <2>3. \A c \in Callers : Owed(c)' = Owed(c)
      BY Zenon, <2>1, OwedSame
    <2> QED BY Zenon, <1>1, <1>2, <2>1, <2>2, <2>3, OwedType, AccountKept
  <1>4. ASSUME msgs # <<>>, msgs' = Tail(msgs)
        PROVE  /\ Head(msgs) \in Item /\ msgs' \in Seq(Item)
               /\ \A c \in Callers :
                    /\ Cardinality(PlacesFor(c, msgs')) \in Nat
                    /\ Cardinality(PlacesFor(c, msgs)) =
                         Cardinality(PlacesFor(c, msgs')) + (IF Head(msgs).caller = c THEN 1 ELSE 0)
    <2>1. msgs \in Seq(Item) /\ Head(msgs) \in Item /\ Tail(msgs) \in Seq(Item)
      BY <1>1, <1>4 DEF Counts
    <2> QED BY Zenon, <1>4, <2>1, PlacesTail
  <1>5. CASE ReceiveMsg
    <2>1. /\ msgs # <<>> /\ msgs' = Tail(msgs) /\ current' = Head(msgs) /\ UNCHANGED <<queue, res>>
          /\ rpc # "forward" /\ rpc' = "forward"
      BY Zenon, <1>5 DEF ReceiveMsg, sinkVars
    <2>2. Counts'
      BY ZenonT(60), <1>1, <1>2, <1>4, <2>1 DEF Counts
    <2>3. ASSUME NEW c \in Callers
          PROVE  Owed(c)' = Owed(c)
      <3>1. QueuedFor(c)' = QueuedFor(c)
        BY Zenon, <2>1 DEF QueuedFor
      <3> QED BY <1>1, <1>4, <2>1, <3>1, OwedType DEF Owed
    <2> QED BY Zenon, <1>1, <1>2, <2>1, <2>2, <2>3, OwedType, AccountKept
  <1>6. CASE ReceiveNoPartition
    <2>1. /\ msgs # <<>> /\ msgs' = Tail(msgs) /\ Respond(Head(msgs), FALSE)
          /\ UNCHANGED <<queue, rpc, current>> /\ rpc # "forward"
      BY Zenon, <1>6 DEF ReceiveNoPartition, runVars, sinkVars
    <2>2. /\ res' \in [Callers -> Seq([msg : Msgs, nil : BOOLEAN])]
          /\ \A c \in Callers : /\ Len(res'[c]) = Len(res[c]) + (IF Head(msgs).caller = c THEN 1 ELSE 0)
                                /\ Len(res[c]) \in Nat
      BY Zenon, <1>1, <1>4, <2>1, RespondStep
    <2>3. Counts'
      BY Zenon, <1>1, <1>2, <1>4, <2>1, <2>2 DEF Counts
    <2>4. ASSUME NEW c \in Callers
          PROVE  /\ Len(res'[c]) \in Nat /\ Owed(c)' \in Nat
                 /\ Len(res'[c]) + Owed(c)' = Len(res[c]) + Owed(c)
      <3>1. QueuedFor(c)' = QueuedFor(c)
        BY Zenon, <2>1 DEF QueuedFor
      <3>2. Owed(c)' = Cardinality(PlacesFor(c, msgs')) + 0 + Cardinality(QueuedFor(c))
        BY Zenon, <2>1, <3>1 DEF Owed
      <3>3. Owed(c) = Cardinality(PlacesFor(c, msgs)) + 0 + Cardinality(QueuedFor(c))
        BY Zenon, <2>1 DEF Owed
      <3>4. Cardinality(QueuedFor(c)) \in Nat /\ 0 \in Nat /\ 1 \in Nat
        BY Zenon, <1>1, OwedType
      <3> DEFINE r == Len(res[c]) d == IF Head(msgs).caller = c THEN 1 ELSE 0
                 a == Cardinality(PlacesFor(c, msgs')) q == Cardinality(QueuedFor(c))
      <3>5. /\ r \in Nat /\ d \in Nat /\ a \in Nat /\ q \in Nat
            /\ Len(res'[c]) = r + d /\ Owed(c)' = a + 0 + q /\ Owed(c) = (a + d) + 0 + q
        BY Zenon, <1>4, <2>1, <2>2, <3>2, <3>3, <3>4
      <3> HIDE DEF r, d, a, q
      <3>6. r + d \in Nat /\ a + 0 + q \in Nat /\ (r + d) + (a + 0 + q) = r + ((a + d) + 0 + q)
        BY <3>5
      <3> QED BY Zenon, <3>5, <3>6 DEF r
    <2> QED BY Zenon, <1>2, <2>3, <2>4, AccountKept
  <1>7. ASSUME NEW p \in Partitions, Forward(p)
        PROVE  AccountInv'
    <2>1. /\ rpc = "forward" /\ rpc' = "select" /\ UNCHANGED <<msgs, res>> /\ p \in Open
          /\ Len(queue[writers[p]]) < Depth
          /\ queue' = [queue EXCEPT ![writers[p]] = Append(@, current)]
      BY Zenon, <1>7 DEF Forward
    <2>2. writers[p] \in Instances /\ current \in Item
      BY Zenon, <1>1, <2>1 DEF Counts, IInv, Types, Open
    <2>3. Counts'
      <3>1. queue \in [Instances -> Seq(Item)] /\ Depth \in Nat
        BY Zenon, <1>1, WriterAssumption DEF Counts
      <3>2. /\ Append(queue[writers[p]], current) \in Seq(Item)
            /\ Len(Append(queue[writers[p]], current)) <= Depth
        BY Zenon, <2>1, <2>2, <3>1, AppendOne
      <3>3. queue' \in [Instances -> Seq(Item)]
        BY Zenon, <2>1, <2>2, <3>1, <3>2
      <3>4. \A i \in Instances : Len(queue'[i]) <= Depth
        BY Zenon, <1>1, <2>1, <2>2, <3>1, <3>2 DEF Counts
      <3> QED BY Zenon, <1>1, <1>2, <2>1, <3>3, <3>4 DEF Counts
    <2>4. ASSUME NEW c \in Callers
          PROVE  Owed(c)' = Owed(c)
      <3>1. Cardinality(QueuedFor(c)') = Cardinality(QueuedFor(c)) + (IF current.caller = c THEN 1 ELSE 0)
        BY Zenon, <1>1, <2>1, <2>2, QueuedAppend
      <3>2. Cardinality(PlacesFor(c, msgs')) = Cardinality(PlacesFor(c, msgs))
        BY Zenon, <2>1
      <3> DEFINE a == Cardinality(PlacesFor(c, msgs)) q == Cardinality(QueuedFor(c))
                 e == IF current.caller = c THEN 1 ELSE 0
      <3>3. a \in Nat /\ q \in Nat /\ e \in Nat
        BY Zenon, <1>1, OwedType, Bit
      <3>4. Owed(c)' = a + 0 + (q + e) /\ Owed(c) = a + e + q
        BY Zenon, <2>1, <3>1, <3>2 DEF Owed
      <3> HIDE DEF a, q, e
      <3>5. a + 0 + (q + e) = a + e + q
        BY ONLY <3>3
      <3> QED BY Zenon, <3>4, <3>5
    <2> QED BY Zenon, <1>1, <1>2, <2>1, <2>3, <2>4, OwedType, AccountKept
  <1> QED BY Zenon, <1>3, <1>5, <1>6, <1>7 DEF Run

\* A partition writer answers, or is finished.
LEMMA SinkAccount ==
  ASSUME AccountInv, NEW i \in Instances, AnswerSome(i) \/ Finish(i)
  PROVE  AccountInv'
PROOF
  <1>1. Counts
    BY Zenon DEF AccountInv
  <1>2. UNCHANGED <<pc, todo, sent, skipped, got, retry, msgs, rpc, current>>
    BY Zenon DEF AnswerSome, Answer, Finish, callVars, runVars
  <1>3. CASE Finish(i)
    <2>1. UNCHANGED <<queue, res>>
      BY Zenon, <1>3 DEF Finish
    <2>2. Counts'
      BY Zenon, <1>1, <1>2, <2>1 DEF Counts
    <2>3. \A c \in Callers : Owed(c)' = Owed(c)
      BY Zenon, <1>2, <2>1, OwedSame
    <2> QED BY Zenon, <1>1, <1>2, <2>1, <2>2, <2>3, OwedType, AccountKept
  <1>4. ASSUME NEW nil \in BOOLEAN, Answer(i, nil)
        PROVE  AccountInv'
    <2>1. /\ queue[i] # <<>> /\ Respond(Head(queue[i]), nil)
          /\ queue' = [queue EXCEPT ![i] = Tail(@)]
      BY Zenon, <1>4 DEF Answer
    <2>2. Head(queue[i]) \in Item
      BY <1>1, <2>1 DEF Counts
    <2>3. /\ res' \in [Callers -> Seq([msg : Msgs, nil : BOOLEAN])]
          /\ \A c \in Callers :
               /\ Len(res'[c]) = Len(res[c]) + (IF Head(queue[i]).caller = c THEN 1 ELSE 0)
               /\ Len(res[c]) \in Nat
      BY Zenon, <1>1, <2>1, <2>2, RespondStep
    <2>4. Counts'
      <3>1. queue' \in [Instances -> Seq(Item)]
        BY <1>1, <2>1 DEF Counts
      <3>2. \A k \in Instances : Len(queue'[k]) <= Depth
        BY <1>1, <2>1, WriterAssumption DEF Counts
      <3> QED BY Zenon, <1>1, <1>2, <2>3, <3>1, <3>2 DEF Counts
    <2>5. ASSUME NEW c \in Callers
          PROVE  /\ Len(res'[c]) \in Nat /\ Owed(c)' \in Nat
                 /\ Len(res'[c]) + Owed(c)' = Len(res[c]) + Owed(c)
      <3> DEFINE k == IF rpc = "forward" /\ current.caller = c THEN 1 ELSE 0
                 a == Cardinality(PlacesFor(c, msgs))
      <3>1. /\ Cardinality(QueuedFor(c)') \in Nat
            /\ Cardinality(QueuedFor(c)) =
                 Cardinality(QueuedFor(c)') + (IF Head(queue[i]).caller = c THEN 1 ELSE 0)
        BY Zenon, <1>1, <2>1, QueuedTail
      <3>2. k \in Nat /\ a \in Nat
        BY Zenon, <1>1, OwedType
      <3>3. Owed(c)' = a + k + Cardinality(QueuedFor(c)') /\ Owed(c) = a + k + Cardinality(QueuedFor(c))
        BY Zenon, <1>2 DEF Owed
      <3> DEFINE r == Len(res[c]) d == IF Head(queue[i]).caller = c THEN 1 ELSE 0
                 q == Cardinality(QueuedFor(c)')
      <3>4. 0 \in Nat /\ 1 \in Nat
        BY Zenon
      <3>5. /\ r \in Nat /\ d \in Nat /\ a \in Nat /\ q \in Nat /\ k \in Nat
            /\ Len(res'[c]) = r + d /\ Owed(c)' = a + k + q /\ Owed(c) = a + k + (q + d)
        BY Zenon, <2>3, <3>1, <3>2, <3>3, <3>4
      <3> HIDE DEF r, d, a, q, k
      <3>6. r + d \in Nat /\ a + k + q \in Nat /\ (r + d) + (a + k + q) = r + (a + k + (q + d))
        BY <3>5
      <3> QED BY Zenon, <3>5, <3>6 DEF r
    <2> QED BY Zenon, <1>2, <2>4, <2>5, AccountKept
  <1> QED BY Zenon, <1>3, <1>4 DEF AnswerSome

\* A call to Close.
LEMMA CloseAccount ==
  ASSUME AccountInv, NEW k \in Closers, CloseCall(k) \/ CloseLocked(k) \/ CloseReturn(k)
  PROVE  AccountInv'
PROOF
  <1>1. UNCHANGED <<pc, todo, sent, skipped, got, retry, msgs, rpc, current, queue, res>>
    BY Zenon DEF CloseCall, CloseLocked, CloseReturn, callVars, runVars, sinkVars
  <1>2. Counts /\ Counts'
    BY Zenon, <1>1 DEF AccountInv, Counts
  <1>3. \A c \in Callers : Owed(c)' = Owed(c)
    BY Zenon, <1>1, OwedSame
  <1> QED BY Zenon, <1>1, <1>2, <1>3, OwedType, AccountKept

\* A step of call c leaves the other calls alone.
LEMMA OthersAccounted ==
  ASSUME AccountInv, NEW c \in Callers, Counts', Accounted(c)',
         \A d \in Callers : d # c =>
           /\ pc'[d] = pc[d] /\ todo'[d] = todo[d] /\ sent'[d] = sent[d] /\ skipped'[d] = skipped[d]
           /\ got'[d] = got[d] /\ retry'[d] = retry[d] /\ res'[d] = res[d] /\ Owed(d)' = Owed(d)
  PROVE  AccountInv'
PROOF
  <1>1. Counts
    BY Zenon DEF AccountInv
  <1>2. ASSUME NEW d \in Callers, d # c
        PROVE  Accounted(d)'
    <2>1. Len(res[d]) \in Nat /\ Owed(d) \in Nat /\ Accounted(d)
      BY Zenon, <1>1, OwedType DEF AccountInv
    <2> QED BY Zenon, <1>1, <1>2, <2>1, AccountedKept
  <1> QED BY ZenonT(60), <1>2 DEF AccountInv

\* When the responses awaited are collected, nothing is left behind them.
LEMMA CollectedAll ==
  ASSUME Counts, NEW c \in Callers, Accounted(c), Collected(c)
  PROVE  /\ res[c] = <<>> /\ Owed(c) = 0 /\ Len(res[c]) + Owed(c) = 0
         /\ Len(retry[c]) <= Len(Payload[c])
PROOF
  <1> DEFINE n == Len(Payload[c]) t == Len(todo[c]) y == Len(retry[c]) b == skipped[c] g == got[c]
             r == Len(res[c]) o == Owed(c)
  <1>1. n \in Nat /\ t \in Nat /\ y \in Nat /\ b \in Nat /\ g \in Nat
    BY WriterAssumption DEF Counts
  <1>2. pc[c] = "collect" /\ g = t - b
    BY Zenon DEF Collected, Awaited
  <1>3. /\ n \in Nat /\ t \in Nat /\ y \in Nat /\ b \in Nat /\ g \in Nat /\ r \in Nat /\ o \in Nat
        /\ g = t - b /\ t <= n /\ y <= g /\ t - b = g + r + o
    BY Zenon, <1>1, <1>2, OwedType DEF Accounted
  <1> HIDE DEF n, t, y, b, g, r, o
  <1>4. r = 0 /\ o = 0 /\ r + o = 0 /\ y <= n
    BY ONLY <1>3
  <1>5. res[c] = <<>>
    <2> DEFINE R == [msg : Msgs, nil : BOOLEAN]
    <2>1. res[c] \in Seq(R)
      BY Zenon DEF Counts
    <2> HIDE DEF R
    <2> QED BY <1>4, <2>1 DEF r
  <1> QED BY Zenon, <1>4, <1>5 DEF n, y, r, o

\* A step of a call that moves no message and no response.
LEMMA QuietAccount ==
  ASSUME IInv, AccountInv, NEW c \in Callers,
         \/ Call(c) \/ RLock(c) \/ Skip(c) \/ RUnlock(c) \/ Collected(c)
         \/ BackoffElapsed(c) \/ BackoffClosed(c) \/ CtxDone(c)
  PROVE  AccountInv'
PROOF
  <1>1. Counts /\ Accounted(c) /\ pc \in [Callers -> CallPCs]
    BY Zenon DEF AccountInv, IInv, Types
  <1>2. UNCHANGED <<msgs, rpc, current, queue, res>>
    BY Zenon DEF Call, RLock, Skip, RUnlock, Collected, BackoffElapsed, BackoffClosed, CtxDone,
                 runVars, sinkVars
  <1>3. \A d \in Callers : Owed(d)' = Owed(d)
    BY Zenon, <1>2, OwedSame
  <1>4. Owed(c) \in Nat /\ Len(res[c]) \in Nat
    BY Zenon, <1>1, OwedType
  <1>5. /\ Len(todo[c]) \in Nat /\ Len(retry[c]) \in Nat /\ retry[c] \in Seq(Msgs)
        /\ sent[c] \in Nat /\ skipped[c] \in Nat /\ got[c] \in Nat
    BY <1>1 DEF Counts
  <1>6. CASE Call(c) \/ BackoffElapsed(c) \/ BackoffClosed(c) \/ CtxDone(c)
    <2>1. UNCHANGED <<todo, sent, skipped, got, retry>>
      BY Zenon, <1>6 DEF Call, BackoffElapsed, BackoffClosed, CtxDone, Goto, Return
    <2>2. /\ pc'[c] \in {"lock", "returned"} /\ pc[c] # "returned"
          /\ pc'[c] = "lock" => pc[c] \in {"idle", "backoff"}
          /\ \A d \in Callers : d # c => pc'[d] = pc[d]
      BY Zenon, <1>1, <1>6 DEF Call, BackoffElapsed, BackoffClosed, CtxDone, Sending, Goto, Return
    <2>3. Accounted(c)'
      BY Zenon, <1>1, <1>2, <1>3, <2>1, <2>2 DEF Accounted
    <2>4. Counts'
      BY Zenon, <1>1, <1>2, <2>1 DEF Counts
    <2> QED BY Zenon, <1>2, <1>3, <2>1, <2>2, <2>3, <2>4, OthersAccounted
  <1>7. CASE RLock(c)
    <2>1. UNCHANGED todo /\ pc[c] = "lock"
      BY Zenon, <1>7 DEF RLock, Goto, Return
    <2>2. Counts'
      <3>1. sent \in [Callers -> Nat] /\ skipped \in [Callers -> Nat] /\ got \in [Callers -> Nat]
        BY Zenon, <1>1 DEF Counts
      <3>2. sent' \in [Callers -> Nat] /\ skipped' \in [Callers -> Nat] /\ got' \in [Callers -> Nat]
        <4>1. CASE UNCHANGED <<sent, skipped, got>>
          BY Zenon, <3>1, <4>1
        <4>2. CASE /\ sent' = [sent EXCEPT ![c] = 0] /\ skipped' = [skipped EXCEPT ![c] = 0]
                   /\ got' = [got EXCEPT ![c] = 0]
          BY Zenon, <3>1, <4>2
        <4> QED BY Zenon, <1>7, <4>1, <4>2 DEF RLock, Goto, Return
      <3>3. retry \in [Callers -> Seq(Msgs)]
        BY Zenon, <1>1 DEF Counts
      <3>4. retry' \in [Callers -> Seq(Msgs)]
        <4>1. CASE UNCHANGED retry
          BY Zenon, <3>3, <4>1
        <4>2. CASE retry' = [retry EXCEPT ![c] = <<>>]
          BY <3>3, <4>2
        <4> QED BY Zenon, <1>7, <4>1, <4>2 DEF RLock, Goto, Return
      <3> QED BY Zenon, <1>1, <1>2, <2>1, <3>2, <3>4 DEF Counts
    <2>3. \A d \in Callers : d # c =>
            /\ pc'[d] = pc[d] /\ sent'[d] = sent[d] /\ skipped'[d] = skipped[d]
            /\ got'[d] = got[d] /\ retry'[d] = retry[d]
      BY ZenonT(60), <1>1, <1>7 DEF RLock, Counts, Goto, Return
    <2>4. \/ pc'[c] = "returned"
          \/ pc'[c] = "send" /\ sent'[c] = 0 /\ skipped'[c] = 0 /\ got'[c] = 0 /\ retry'[c] = <<>>
      BY ZenonT(60), <1>1, <1>7 DEF RLock, Counts, Goto, Return
    <2>5. Accounted(c)'
      <3> DEFINE r == Len(res[c]) o == Owed(c) t == Len(todo[c])
      <3>1. r \in Nat /\ o \in Nat /\ t \in Nat /\ r + o = 0
        BY Zenon, <1>1, <1>4, <1>5, <2>1 DEF Accounted
      <3> HIDE DEF r, o, t
      <3>2. 0 <= t /\ Len(<<>>) <= 0 /\ 0 - 0 = 0 + r + o
        BY ONLY <3>1
      <3>3. 0 <= Len(todo[c]) /\ Len(<<>>) <= 0 /\ 0 - 0 = 0 + Len(res[c]) + Owed(c)
        BY Zenon, <3>2 DEF r, o, t
      <3> QED BY Zenon, <1>1, <1>2, <1>3, <2>1, <2>4, <3>3 DEF Accounted
    <2> QED BY ZenonT(60), <1>2, <1>3, <2>1, <2>2, <2>3, <2>5, OthersAccounted
  <1>8. CASE Skip(c)
    <2>1. /\ UNCHANGED <<pc, todo, got, retry>> /\ pc[c] = "send"
          /\ sent[c] < Len(todo[c])
          /\ sent'[c] = sent[c] + 1 /\ skipped'[c] = skipped[c] + 1
          /\ \A d \in Callers : d # c => sent'[d] = sent[d] /\ skipped'[d] = skipped[d]
      BY Zenon, <1>1, <1>8 DEF Skip, Counts
    <2>2. Counts'
      <3>1. sent \in [Callers -> Nat] /\ skipped \in [Callers -> Nat]
        BY Zenon, <1>1 DEF Counts
      <3>2. sent' \in [Callers -> Nat] /\ skipped' \in [Callers -> Nat]
        BY Zenon, <1>8, <3>1, Successor DEF Skip
      <3> QED BY Zenon, <1>1, <1>2, <2>1, <3>2 DEF Counts
    <2>3. Accounted(c)'
      <3> DEFINE t == Len(todo[c]) a == sent[c] b == skipped[c]
      <3>1. t \in Nat /\ a \in Nat /\ b \in Nat /\ a < t
        BY Zenon, <1>5, <2>1
      <3> HIDE DEF t, a, b
      <3>2. a + 1 <= t /\ (a + 1) - (b + 1) = a - b
        BY ONLY <3>1
      <3>3. sent'[c] <= Len(todo[c]) /\ sent'[c] - skipped'[c] = sent[c] - skipped[c]
        BY Zenon, <2>1, <3>2 DEF t, a, b
      <3> QED BY Zenon, <1>1, <1>2, <1>3, <2>1, <3>3 DEF Accounted
    <2> QED BY Zenon, <1>2, <1>3, <2>1, <2>2, <2>3, OthersAccounted
  <1>9. CASE RUnlock(c)
    <2>1. /\ UNCHANGED <<todo, sent, skipped, got, retry>> /\ pc[c] = "send"
          /\ sent[c] = Len(todo[c]) /\ pc'[c] \in {"collect", "returned"}
          /\ \A d \in Callers : d # c => pc'[d] = pc[d]
      BY Zenon, <1>1, <1>9 DEF RUnlock, Goto, Return
    <2>2. Counts'
      BY ZenonT(60), <1>1, <1>2, <2>1 DEF Counts
    <2>3. Accounted(c)'
      BY Zenon, <1>1, <1>2, <1>3, <2>1 DEF Accounted
    <2> QED BY Zenon, <1>2, <1>3, <2>1, <2>2, <2>3, OthersAccounted
  <1>10. CASE Collected(c)
    <2>1. /\ UNCHANGED <<sent, skipped, got, retry>> /\ pc[c] = "collect"
          /\ got[c] = Len(todo[c]) - skipped[c] /\ todo'[c] = retry[c]
          /\ pc'[c] \in {"backoff", "returned"}
          /\ \A d \in Callers : d # c => pc'[d] = pc[d] /\ todo'[d] = todo[d]
      BY Zenon, <1>1, <1>10 DEF Collected, Awaited, Counts, Goto, Return
    <2>2. Counts'
      <3>1. todo \in [Callers -> Seq(Msgs)]
        BY Zenon, <1>1 DEF Counts
      <3>2. todo' \in [Callers -> Seq(Msgs)]
        BY Zenon, <1>5, <1>10, <3>1 DEF Collected, Goto, Return
      <3> QED BY Zenon, <1>1, <1>2, <2>1, <3>2 DEF Counts
    <2>3. Len(res[c]) + Owed(c) = 0 /\ Len(retry[c]) <= Len(Payload[c])
      BY ZenonT(60), <1>1, <1>10, CollectedAll
    <2>4. Accounted(c)'
      BY Zenon, <1>1, <1>2, <1>3, <2>1, <2>3 DEF Accounted
    <2> QED BY Zenon, <1>2, <1>3, <2>1, <2>2, <2>4, OthersAccounted
  <1> QED BY Zenon, <1>6, <1>7, <1>8, <1>9, <1>10

\* A call sends a message.
LEMMA SendAccount ==
  ASSUME IInv, AccountInv, NEW c \in Callers, SendMsg(c)
  PROVE  AccountInv'
PROOF
  <1>1. Counts /\ Accounted(c)
    BY Zenon DEF AccountInv
  <1>2. UNCHANGED <<pc, todo, skipped, got, retry, res, rpc, current, queue>>
    BY Zenon DEF SendMsg, runVars, sinkVars
  <1> DEFINE x == [caller |-> c, msg |-> todo[c][sent[c] + 1]]
  <1>3. pc[c] = "send" /\ sent[c] < Len(todo[c]) /\ msgs' = Append(msgs, x)
    BY Zenon DEF SendMsg, Sending
  <1>4. todo[c] \in Seq(Msgs) /\ sent[c] \in Nat /\ sent \in [Callers -> Nat] /\ msgs \in Seq(Item)
    BY Zenon, <1>1 DEF Counts
  <1>5. x \in Item /\ x.caller = c
    <2>1. todo[c][sent[c] + 1] \in Msgs
      BY <1>3, <1>4
    <2> QED BY Zenon, <2>1 DEF Item
  <1> HIDE DEF x
  <1>6. /\ sent' \in [Callers -> Nat] /\ sent'[c] = sent[c] + 1
        /\ \A d \in Callers : d # c => sent'[d] = sent[d]
    BY <1>4 DEF SendMsg
  <1>7. Counts'
    <2>1. msgs' \in Seq(Item)
      BY <1>3, <1>4, <1>5
    <2> QED BY ZenonT(60), <1>1, <1>2, <1>6, <2>1 DEF Counts
  <1>8. ASSUME NEW d \in Callers
        PROVE  Owed(d)' = Owed(d) + (IF d = c THEN 1 ELSE 0)
    <2> DEFINE a == Cardinality(PlacesFor(d, msgs)) q == Cardinality(QueuedFor(d))
               k == IF rpc = "forward" /\ current.caller = d THEN 1 ELSE 0
               e == IF d = c THEN 1 ELSE 0
    <2>1. Cardinality(PlacesFor(d, msgs')) = a + e
      BY Zenon, <1>3, <1>4, <1>5, PlacesAppend
    <2>2. Owed(d)' = (a + e) + k + q /\ Owed(d) = a + k + q
      BY Zenon, <1>2, <2>1 DEF Owed, QueuedFor
    <2>3. a \in Nat /\ q \in Nat /\ k \in Nat /\ e \in Nat
      BY Zenon, <1>1, OwedType
    <2> HIDE DEF a, q, k, e
    <2>4. (a + e) + k + q = (a + k + q) + e
      BY ONLY <2>3
    <2> QED BY Zenon, <2>2, <2>4 DEF e
  <1>9. Accounted(c)'
    <2> DEFINE n == Len(Payload[c]) t == Len(todo[c]) a == sent[c] b == skipped[c] g == got[c]
               r == Len(res[c]) o == Owed(c)
    <2>1. n \in Nat /\ t \in Nat /\ b \in Nat /\ g \in Nat
      BY <1>1, WriterAssumption DEF Counts
    <2>2. /\ n \in Nat /\ t \in Nat /\ a \in Nat /\ b \in Nat /\ g \in Nat /\ r \in Nat /\ o \in Nat
          /\ a < t /\ t <= n /\ a - b = g + r + o
      BY Zenon, <1>1, <1>3, <1>4, <2>1, OwedType DEF Accounted
    <2> HIDE DEF n, t, a, b, g, r, o
    <2>3. a + 1 <= t /\ r + (o + 1) <= n /\ (a + 1) - b = g + r + (o + 1)
      BY ONLY <2>2
    <2>4. /\ sent'[c] <= Len(todo[c]) /\ Len(res[c]) + Owed(c)' <= Len(Payload[c])
          /\ sent'[c] - skipped[c] = got[c] + Len(res[c]) + Owed(c)'
      BY Zenon, <1>6, <1>8, <2>3 DEF n, t, a, b, g, r, o
    <2> QED BY Zenon, <1>1, <1>2, <1>3, <2>4 DEF Accounted
  <1>10. \A d \in Callers : d # c => Owed(d)' = Owed(d)
    BY <1>1, <1>8, OwedType
  <1> QED BY Zenon, <1>2, <1>6, <1>7, <1>9, <1>10, OthersAccounted

\* A call collects a response.
LEMMA CollectAccount ==
  ASSUME IInv, AccountInv, NEW c \in Callers, Collect(c)
  PROVE  AccountInv'
PROOF
  <1> DEFINE R == [msg : Msgs, nil : BOOLEAN]
  <1>1. Counts /\ Accounted(c)
    BY Zenon DEF AccountInv
  <1>2. UNCHANGED <<pc, todo, sent, skipped, msgs, rpc, current, queue>> /\ pc[c] = "collect" /\ res[c] # <<>>
    BY Zenon DEF Collect, runVars, sinkVars
  <1>3. \A d \in Callers : Owed(d)' = Owed(d)
    BY Zenon, <1>2, OwedSame
  <1>4. /\ res \in [Callers -> Seq(R)] /\ retry \in [Callers -> Seq(Msgs)] /\ got \in [Callers -> Nat]
    BY Zenon, <1>1 DEF Counts
  <1>5. Head(res[c]) \in R
    <2> HIDE DEF R
    <2> QED BY <1>2, <1>4
  <1>6. Head(res[c]).msg \in Msgs
    BY Zenon, <1>5
  <1> HIDE DEF R
  <1>7. /\ res' \in [Callers -> Seq(R)] /\ Len(res[c]) \in Nat \ {0} /\ Len(res'[c]) = Len(res[c]) - 1
        /\ \A d \in Callers : d # c => res'[d] = res[d]
    BY <1>2, <1>4 DEF Collect
  <1>8. /\ got' \in [Callers -> Nat] /\ got'[c] = got[c] + 1 /\ got[c] \in Nat
        /\ \A d \in Callers : d # c => got'[d] = got[d]
    BY <1>4 DEF Collect
  <1>9. /\ retry' \in [Callers -> Seq(Msgs)] /\ Len(retry[c]) \in Nat
        /\ Len(retry'[c]) \in {Len(retry[c]), Len(retry[c]) + 1}
        /\ \A d \in Callers : d # c => retry'[d] = retry[d]
    <2>1. CASE UNCHANGED retry
      BY <1>4, <2>1
    <2>2. CASE retry' = [retry EXCEPT ![c] = Append(@, Head(res[c]).msg)]
      <3> DEFINE h == Head(res[c]).msg
      <3>1. h \in Msgs /\ retry' = [retry EXCEPT ![c] = Append(@, h)]
        BY Zenon, <1>6, <2>2
      <3> HIDE DEF h
      <3> QED BY <1>4, <3>1
    <2> QED BY Zenon, <2>1, <2>2 DEF Collect
  <1>10. Counts'
    BY ZenonT(60), <1>1, <1>2, <1>7, <1>8, <1>9 DEF Counts, R
  <1>11. Accounted(c)'
    <2> DEFINE n == Len(Payload[c]) g == got[c] r == Len(res[c]) s == Len(res'[c]) o == Owed(c)
               y == Len(retry[c]) z == Len(retry'[c])
    <2>1. n \in Nat
      BY WriterAssumption
    <2>2. /\ n \in Nat /\ g \in Nat /\ r \in Nat \ {0} /\ o \in Nat /\ y \in Nat
          /\ s = r - 1 /\ z \in {y, y + 1} /\ y <= g /\ r + o <= n
      BY Zenon, <1>1, <1>2, <1>7, <1>8, <1>9, <2>1, OwedType DEF Accounted
    <2> HIDE DEF n, g, r, s, o, y, z
    <2>3. s + o <= n /\ z <= g + 1 /\ (g + 1) + s + o = g + r + o
      BY ONLY <2>2
    <2>4. /\ Len(res'[c]) + Owed(c)' <= Len(Payload[c]) /\ Len(retry'[c]) <= got'[c]
          /\ got'[c] + Len(res'[c]) + Owed(c)' = got[c] + Len(res[c]) + Owed(c)
      BY Zenon, <1>3, <1>8, <2>3 DEF n, g, r, s, o, y, z
    <2> QED BY Zenon, <1>1, <1>2, <2>4 DEF Accounted
  <1> QED BY Zenon, <1>2, <1>3, <1>7, <1>8, <1>9, <1>10, <1>11, OthersAccounted

\* Initially nothing is owed.
LEMMA InitAccount == Init => AccountInv
PROOF
  <1> SUFFICES ASSUME Init PROVE AccountInv
    BY Zenon
  <1>1. Payload \in [Callers -> Seq(Msgs)] /\ Depth \in Nat
    BY Zenon, WriterAssumption
  <1>2. /\ msgs = <<>> /\ queue = [i \in Instances |-> <<>>] /\ rpc = "rebalance"
        /\ todo = Payload /\ retry = [c \in Callers |-> <<>>]
        /\ sent = [c \in Callers |-> 0] /\ skipped = [c \in Callers |-> 0] /\ got = [c \in Callers |-> 0]
        /\ res = [c \in Callers |-> <<>>] /\ pc = [c \in Callers |-> "idle"]
    BY Zenon DEF Init
  <1>3. Counts
    <2>1. msgs \in Seq(Item) /\ queue \in [Instances -> Seq(Item)] /\ \A i \in Instances : Len(queue[i]) <= Depth
      BY <1>1, <1>2
    <2>2. /\ todo \in [Callers -> Seq(Msgs)] /\ retry \in [Callers -> Seq(Msgs)]
          /\ res \in [Callers -> Seq([msg : Msgs, nil : BOOLEAN])]
      BY <1>1, <1>2
    <2>3. sent \in [Callers -> Nat] /\ skipped \in [Callers -> Nat] /\ got \in [Callers -> Nat]
      BY Zenon, <1>2
    <2>4. rpc # "forward"
      BY Zenon, <1>2
    <2> QED BY Zenon, <2>1, <2>2, <2>3, <2>4 DEF Counts
  <1>4. ASSUME NEW c \in Callers
        PROVE  Accounted(c)
    <2>1. PlacesFor(c, msgs) = {} /\ QueuedFor(c) = {}
      BY <1>2 DEF PlacesFor, QueuedFor
    <2>2. Owed(c) = 0
      BY SMTT(40), <1>2, <2>1, FS_EmptySet DEF Owed
    <2>3. Len(res[c]) = 0 /\ pc[c] = "idle" /\ todo[c] = Payload[c] /\ Len(Payload[c]) \in Nat
      BY <1>1, <1>2
    <2> QED BY <2>2, <2>3 DEF Accounted
  <1> QED BY Zenon, <1>3, <1>4 DEF AccountInv

\* Every step keeps the account.
LEMMA NextAccount == IInv /\ AccountInv /\ [Next]_vars => AccountInv'
PROOF
  <1> SUFFICES ASSUME IInv, AccountInv, [Next]_vars PROVE AccountInv'
    BY Zenon
  <1>1. CASE UNCHANGED vars
    <2>1. UNCHANGED <<pc, todo, sent, skipped, got, retry, msgs, rpc, current, queue, res>>
      BY Zenon, <1>1 DEF vars, callVars, runVars, sinkVars
    <2>2. Counts /\ Counts'
      BY Zenon, <2>1 DEF AccountInv, Counts
    <2>3. \A c \in Callers : Owed(c)' = Owed(c)
      BY Zenon, <2>1, OwedSame
    <2> QED BY Zenon, <2>1, <2>2, <2>3, OwedType, AccountKept
  <1> QED BY Zenon, <1>1, QuietAccount, SendAccount, CollectAccount, CloseAccount, RunAccount,
             SinkAccount
          DEF Next, WriteMessages

\* Every message that a call has sent is in one place and is answered once, and
\* every response finds room in res.
THEOREM EachAnsweredOnce == Spec => []ResponsesAccounted
PROOF
  <1>1. AccountInv => ResponsesAccounted
    <2> SUFFICES ASSUME AccountInv, NEW c \in Callers
                 PROVE  /\ Len(res[c]) + Owed(c) <= Len(Payload[c])
                        /\ pc[c] \in {"send", "collect"} =>
                             sent[c] - skipped[c] = got[c] + Len(res[c]) + Owed(c)
                        /\ pc[c] \in {"lock", "backoff"} => res[c] = <<>> /\ Owed(c) = 0
      BY Zenon DEF ResponsesAccounted
    <2>1. Counts /\ Accounted(c)
      BY Zenon DEF AccountInv
    <2>2. ASSUME Len(res[c]) + Owed(c) = 0
          PROVE  res[c] = <<>> /\ Owed(c) = 0
      <3>1. Len(res[c]) = 0 /\ Owed(c) = 0
        <4> DEFINE r == Len(res[c]) o == Owed(c)
        <4>1. r \in Nat /\ o \in Nat /\ r + o = 0
          BY Zenon, <2>1, <2>2, OwedType
        <4> HIDE DEF r, o
        <4>2. r = 0 /\ o = 0
          BY ONLY <4>1
        <4> QED BY Zenon, <4>2 DEF r, o
      <3> DEFINE R == [msg : Msgs, nil : BOOLEAN]
      <3>2. res[c] \in Seq(R)
        BY Zenon, <2>1 DEF Counts
      <3> HIDE DEF R
      <3> QED BY <3>1, <3>2
    <2> QED BY ZenonT(60), <2>1, <2>2 DEF Accounted
  <1> QED BY <1>1, InitInv, NextInv, InitAccount, NextAccount, PTL DEF Spec

-----------------------------------------------------------------------------
(* What has become of the messages of a call. *)

\* A message of c is in the hands of run or of a partition writer.
Pending(c, m) ==
  LET x == [caller |-> c, msg |-> m]
  IN  \/ In(x, msgs)
      \/ rpc = "forward" /\ current = x
      \/ \E i \in Instances : In(x, queue[i])

\* The response that says that it failed waits in res.
Failed(c, m) == In([msg |-> m, nil |-> FALSE], res[c])

\* A message that is not stored has still to be sent, or answered, or sent again.
Kept(c, m) ==
  \/ [caller |-> c, msg |-> m] \in written
  \/ pc[c] \in {"idle", "lock", "backoff"} /\ In(m, todo[c])
  \/ pc[c] = "send" /\ \E j \in sent[c] + 1 .. Len(todo[c]) : todo[c][j] = m
  \/ pc[c] \in {"send", "collect"} /\ (In(m, retry[c]) \/ Failed(c, m) \/ Pending(c, m))

Wanted(c) == {m \in Msgs \ Oversized : In(m, Payload[c])}

\* What the call of c returns is nil only if nothing is left to send again.
Honest(c) ==
  /\ pc[c] # "returned" => \A m \in Wanted(c) : Kept(c, m)
  /\ pc[c] = "returned" /\ err[c] = "nil" =>
       \A m \in Wanted(c) : [caller |-> c, msg |-> m] \in written
  /\ pc[c] = "backoff" => err[c] # "nil"
  /\ pc[c] \in {"send", "collect"} /\ retry[c] # <<>> => err[c] # "nil"

\* The inductive invariant behind NilMeansWritten.
NilInv ==
  /\ err \in [Callers -> {"nil", "failed", "closedpipe", "ctx"}]
  /\ ~async => \A c \in Callers : Honest(c)

LEMMA InAppend ==
  ASSUME NEW S, NEW s \in Seq(S), NEW y \in S
  PROVE  In(y, Append(s, y)) /\ \A x : In(x, s) => In(x, Append(s, y))
PROOF
  <1>1. Len(s) \in Nat /\ Len(Append(s, y)) = Len(s) + 1 /\ Append(s, y)[Len(s) + 1] = y
        /\ \A j \in 1 .. Len(s) : Append(s, y)[j] = s[j]
    OBVIOUS
  <1>2. Len(s) + 1 \in 1 .. Len(Append(s, y)) /\ \A j \in 1 .. Len(s) : j \in 1 .. Len(Append(s, y))
    BY <1>1
  <1> QED BY Zenon, <1>1, <1>2 DEF In

LEMMA InTail ==
  ASSUME NEW S, NEW s \in Seq(S), s # <<>>
  PROVE  \A x : In(x, s) => x = Head(s) \/ In(x, Tail(s))
PROOF
  <1>1. /\ Len(s) \in Nat \ {0} /\ Len(Tail(s)) = Len(s) - 1 /\ Head(s) = s[1]
        /\ \A j \in 1 .. Len(s) - 1 : Tail(s)[j] = s[j + 1]
    OBVIOUS
  <1> SUFFICES ASSUME NEW x, NEW j \in 1 .. Len(s), s[j] = x, x # Head(s)
               PROVE  In(x, Tail(s))
    BY Zenon DEF In
  <1>2. j # 1
    BY Zenon, <1>1
  <1>3. j - 1 \in 1 .. Len(s) - 1 /\ (j - 1) + 1 = j
    BY <1>1, <1>2
  <1>4. Tail(s)[j - 1] = x /\ j - 1 \in 1 .. Len(Tail(s))
    BY Zenon, <1>1, <1>3
  <1> QED BY Zenon, <1>4 DEF In

\* A call that does not move, while no message of it is lost.
LEMMA HonestKept ==
  ASSUME NEW c \in Callers, Honest(c),
         pc'[c] = pc[c], todo'[c] = todo[c], sent'[c] = sent[c], retry'[c] = retry[c], err'[c] = err[c],
         written \subseteq written',
         \A m \in Msgs : Failed(c, m) \/ Pending(c, m) =>
           [caller |-> c, msg |-> m] \in written' \/ Failed(c, m)' \/ Pending(c, m)'
  PROVE  Honest(c)'
PROOF
  <1>1. ASSUME NEW m \in Wanted(c), Kept(c, m)
        PROVE  Kept(c, m)'
    <2>1. m \in Msgs
      BY Zenon DEF Wanted
    <2>2. CASE [caller |-> c, msg |-> m] \in written
      BY Zenon, <2>2 DEF Kept
    <2>3. CASE pc[c] \in {"idle", "lock", "backoff"} /\ In(m, todo[c])
      BY Zenon, <2>3 DEF Kept
    <2>4. CASE pc[c] = "send" /\ \E j \in sent[c] + 1 .. Len(todo[c]) : todo[c][j] = m
      BY Zenon, <2>4 DEF Kept
    <2>5. CASE pc[c] \in {"send", "collect"} /\ (In(m, retry[c]) \/ Failed(c, m) \/ Pending(c, m))
      BY Zenon, <2>1, <2>5 DEF Kept
    <2> QED BY ZenonT(60), <1>1, <2>2, <2>3, <2>4, <2>5 DEF Kept
  <1> QED BY Zenon, <1>1 DEF Honest, Wanted

\* A step of run or of a partition writer.
LEMMA NilKept ==
  ASSUME NilInv, UNCHANGED <<async, pc, todo, sent, retry, err>>, written \subseteq written',
         \A c \in Callers, m \in Msgs : Failed(c, m) \/ Pending(c, m) =>
           [caller |-> c, msg |-> m] \in written' \/ Failed(c, m)' \/ Pending(c, m)'
  PROVE  NilInv'
PROOF
  <1> SUFFICES ASSUME ~async, NEW c \in Callers PROVE Honest(c)'
    BY Zenon DEF NilInv
  <1>1. Honest(c)
    BY Zenon DEF NilInv
  <1> QED BY Zenon, <1>1, HonestKept

\* A response joins res.
LEMMA RespondFailed ==
  ASSUME Counts, NEW item \in Item, NEW nil \in BOOLEAN, Respond(item, nil), NEW c \in Callers,
         NEW m \in Msgs
  PROVE  /\ Failed(c, m) => Failed(c, m)'
         /\ item = [caller |-> c, msg |-> m] /\ ~nil => Failed(c, m)'
PROOF
  <1> DEFINE R == [msg : Msgs, nil : BOOLEAN]
             r == [msg |-> item.msg, nil |-> nil]
  <1>1. item.caller \in Callers /\ item.msg \in Msgs
    BY Zenon DEF Item
  <1>2. r \in R /\ res \in [Callers -> Seq(R)] /\ res' = [res EXCEPT ![item.caller] = Append(@, r)]
    BY Zenon, <1>1 DEF Counts, Respond
  <1>3. item = [caller |-> c, msg |-> m] => item.caller = c /\ item.msg = m
    OBVIOUS
  <1>4. item = [caller |-> c, msg |-> m] /\ ~nil => item.caller = c /\ r = [msg |-> m, nil |-> FALSE]
    BY Zenon, <1>3
  <1> HIDE DEF R, r
  <1>5. res[c] \in Seq(R) /\ (item.caller = c => res'[c] = Append(res[c], r))
        /\ (item.caller # c => res'[c] = res[c])
    BY Zenon, <1>1, <1>2
  <1> QED BY Zenon, <1>2, <1>4, <1>5, InAppend DEF Failed

\* The steps of run lose no message.
LEMMA RunNil ==
  ASSUME IInv, Counts, NilInv, Run \/ Tick
  PROVE  NilInv'
PROOF
  <1>1. UNCHANGED <<async, pc, todo, sent, retry, err, written>>
    BY Zenon DEF Run, Rebalance, RebalanceError, Tick, ReceiveMsg, ReceiveNoPartition, Forward,
           ReceiveClosed, callVars, sinkVars
  <1>2. ASSUME NEW c \in Callers, NEW m \in Msgs, Failed(c, m) \/ Pending(c, m)
        PROVE  Failed(c, m)' \/ Pending(c, m)'
    <2> DEFINE x == [caller |-> c, msg |-> m]
    <2>1. CASE (\E t \in Topologies : Rebalance(t)) \/ RebalanceError \/ Tick \/ ReceiveClosed
      <3>1. UNCHANGED <<msgs, queue, res>> /\ rpc # "forward"
        BY Zenon, <2>1 DEF Rebalance, RebalanceError, Tick, ReceiveClosed, sinkVars
      <3> QED BY Zenon, <1>2, <3>1 DEF Failed, Pending
    <2>2. ASSUME msgs # <<>>, msgs' = Tail(msgs)
          PROVE  In(x, msgs) => x = Head(msgs) \/ In(x, msgs')
      BY Zenon, <2>2, InTail DEF Counts
    <2>3. CASE ReceiveMsg
      <3>1. /\ msgs # <<>> /\ msgs' = Tail(msgs) /\ current' = Head(msgs) /\ UNCHANGED <<queue, res>>
            /\ rpc # "forward" /\ rpc' = "forward"
        BY Zenon, <2>3 DEF ReceiveMsg, sinkVars
      <3> QED BY Zenon, <1>2, <2>2, <3>1 DEF Failed, Pending
    <2>4. CASE ReceiveNoPartition
      <3>1. /\ msgs # <<>> /\ msgs' = Tail(msgs) /\ Respond(Head(msgs), FALSE)
            /\ UNCHANGED <<queue, rpc, current>>
        BY Zenon, <2>4 DEF ReceiveNoPartition, runVars, sinkVars
      <3>2. Head(msgs) \in Item /\ FALSE \in BOOLEAN
        BY <3>1 DEF Counts
      <3>3. /\ Failed(c, m) => Failed(c, m)'
            /\ Head(msgs) = x => Failed(c, m)'
        BY Zenon, <3>1, <3>2, RespondFailed
      <3> QED BY Zenon, <1>2, <2>2, <3>1, <3>3 DEF Pending
    <2>5. ASSUME NEW p \in Partitions, Forward(p)
          PROVE  Failed(c, m)' \/ Pending(c, m)'
      <3>1. /\ rpc = "forward" /\ UNCHANGED <<msgs, res>> /\ p \in Open
            /\ queue' = [queue EXCEPT ![writers[p]] = Append(@, current)]
        BY Zenon, <2>5 DEF Forward
      <3>2. writers[p] \in Instances /\ current \in Item
        BY Zenon, <3>1 DEF Counts, IInv, Types, Open
      <3>3. queue \in [Instances -> Seq(Item)]
        BY Zenon DEF Counts
      <3>4. /\ queue'[writers[p]] = Append(queue[writers[p]], current)
            /\ queue[writers[p]] \in Seq(Item)
            /\ \A i \in Instances : i # writers[p] => queue'[i] = queue[i]
        BY Zenon, <3>1, <3>2, <3>3
      <3>5. In(current, queue'[writers[p]]) /\ \A i \in Instances : In(x, queue[i]) => In(x, queue'[i])
        BY Zenon, <3>2, <3>4, InAppend
      <3> QED BY Zenon, <1>2, <3>1, <3>2, <3>5 DEF Failed, Pending
    <2> QED BY Zenon, <2>1, <2>3, <2>4, <2>5 DEF Run
  <1> QED BY Zenon, <1>1, <1>2, NilKept

\* A partition writer stores a message before it answers nil.
LEMMA SinkNil ==
  ASSUME Counts, NilInv, NEW i \in Instances, AnswerSome(i) \/ Finish(i)
  PROVE  NilInv'
PROOF
  <1>1. UNCHANGED <<async, pc, todo, sent, retry, err, msgs, rpc, current>>
    BY Zenon DEF AnswerSome, Answer, Finish, callVars, runVars
  <1>2. CASE Finish(i)
    <2>1. UNCHANGED <<queue, res, written>>
      BY Zenon, <1>2 DEF Finish
    <2>2. \A c \in Callers, m \in Msgs : Failed(c, m) \/ Pending(c, m) => Failed(c, m)' \/ Pending(c, m)'
      BY Zenon, <1>1, <2>1 DEF Failed, Pending
    <2> QED BY Zenon, <1>1, <2>1, <2>2, NilKept
  <1>3. ASSUME NEW nil \in BOOLEAN, Answer(i, nil)
        PROVE  NilInv'
    <2>1. /\ queue[i] # <<>> /\ Respond(Head(queue[i]), nil)
          /\ queue' = [queue EXCEPT ![i] = Tail(@)]
          /\ written' = IF nil THEN written \cup {Head(queue[i])} ELSE written
      BY Zenon, <1>3 DEF Answer
    <2>2. Head(queue[i]) \in Item /\ queue[i] \in Seq(Item) /\ queue \in [Instances -> Seq(Item)]
      BY <2>1 DEF Counts
    <2>3. queue'[i] = Tail(queue[i]) /\ \A k \in Instances : k # i => queue'[k] = queue[k]
      BY Zenon, <2>1, <2>2
    <2>4. ASSUME NEW c \in Callers, NEW m \in Msgs, Failed(c, m) \/ Pending(c, m)
          PROVE  [caller |-> c, msg |-> m] \in written' \/ Failed(c, m)' \/ Pending(c, m)'
      <3> DEFINE x == [caller |-> c, msg |-> m]
      <3>1. /\ Failed(c, m) => Failed(c, m)'
            /\ Head(queue[i]) = x /\ ~nil => Failed(c, m)'
        BY Zenon, <2>1, <2>2, RespondFailed
      <3>2. \A k \in Instances : In(x, queue[k]) => In(x, queue'[k]) \/ Head(queue[i]) = x
        BY Zenon, <2>1, <2>2, <2>3, InTail
      <3>3. Head(queue[i]) = x => x \in written' \/ Failed(c, m)'
        BY Zenon, <2>1, <3>1
      <3> QED BY Zenon, <1>1, <2>4, <3>1, <3>2, <3>3 DEF Pending
    <2>5. written \subseteq written'
      BY Zenon, <2>1
    <2> QED BY Zenon, <1>1, <2>4, <2>5, NilKept
  <1> QED BY Zenon, <1>2, <1>3 DEF AnswerSome

\* Nothing of c is pending when nothing is owed to it.
LEMMA OwedNone ==
  ASSUME Counts, NEW c \in Callers, Owed(c) = 0, NEW m \in Msgs
  PROVE  ~Pending(c, m)
PROOF
  <1> DEFINE x == [caller |-> c, msg |-> m]
             a == Cardinality(PlacesFor(c, msgs)) q == Cardinality(QueuedFor(c))
             k == IF rpc = "forward" /\ current.caller = c THEN 1 ELSE 0
  <1>1. a \in Nat /\ q \in Nat /\ a + k + q = 0
    BY Zenon, OwedType DEF Owed
  <1>2. a = 0 /\ q = 0 /\ ~(rpc = "forward" /\ current.caller = c)
    <2>1. k \in Nat
      BY Zenon
    <2> HIDE DEF a, q, k
    <2>2. a = 0 /\ q = 0 /\ k = 0
      BY ONLY <1>1, <2>1
    <2> QED BY <2>2 DEF k
  <1>3. PlacesFor(c, msgs) = {}
    <2>1. Len(msgs) \in Nat
      BY DEF Counts
    <2>2. IsFiniteSet(1 .. Len(msgs))
      BY <2>1, FS_Interval
    <2>3. IsFiniteSet(PlacesFor(c, msgs))
      BY Zenon, <2>2, FS_Subset DEF PlacesFor
    <2> QED BY Zenon, <1>2, <2>3, FS_EmptySet
  <1>4. QueuedFor(c) = {}
    <2>1. IsFiniteSet(QueuedFor(c))
      BY Zenon, QueuedType DEF QueuedFor
    <2> QED BY Zenon, <1>2, <2>1, FS_EmptySet
  <1>5. x.caller = c
    BY Zenon
  <1> HIDE DEF x
  <1>6. ~In(x, msgs)
    BY Zenon, <1>3, <1>5 DEF In, PlacesFor
  <1>7. ASSUME NEW i \in Instances, In(x, queue[i])
        PROVE  FALSE
    <2>1. PICK j \in 1 .. Len(queue[i]) : queue[i][j] = x
      BY Zenon, <1>7 DEF In
    <2>2. Len(queue[i]) \in Nat /\ Len(queue[i]) <= Depth /\ Depth \in Nat
      BY WriterAssumption DEF Counts
    <2>3. j \in 1 .. Depth
      BY <2>2
    <2>4. j \in PlacesFor(c, queue[i])
      BY Zenon, <1>5, <2>1 DEF PlacesFor
    <2>5. <<i, j>> \in QueuedFor(c)
      BY Zenon, <2>3, <2>4 DEF QueuedFor
    <2> QED BY Zenon, <1>4, <2>5
  <1> QED BY Zenon, <1>2, <1>5, <1>6, <1>7 DEF Pending, x

\* A step of call c leaves the other calls alone.
LEMMA OthersHonest ==
  ASSUME NilInv, NEW c \in Callers, UNCHANGED <<async, written>>, ~async => Honest(c)',
         err' \in [Callers -> {"nil", "failed", "closedpipe", "ctx"}],
         \A d \in Callers : d # c =>
           /\ pc'[d] = pc[d] /\ todo'[d] = todo[d] /\ sent'[d] = sent[d]
           /\ retry'[d] = retry[d] /\ err'[d] = err[d]
           /\ \A m \in Msgs : Failed(d, m) \/ Pending(d, m) => Failed(d, m)' \/ Pending(d, m)'
  PROVE  NilInv'
PROOF
  <1> SUFFICES ASSUME ~async, NEW d \in Callers, d # c PROVE Honest(d)'
    BY Zenon DEF NilInv
  <1>1. Honest(d) /\ written \subseteq written'
    BY Zenon DEF NilInv
  <1> QED BY Zenon, <1>1, HonestKept

CallTypes ==
  /\ pc \in [Callers -> CallPCs]
  /\ todo \in [Callers -> Seq(Msgs)] /\ retry \in [Callers -> Seq(Msgs)] /\ sent \in [Callers -> Nat]
  /\ err \in [Callers -> {"nil", "failed", "closedpipe", "ctx"}]

\* What no step has moved is still there.
LEMMA StillThere ==
  ASSUME UNCHANGED <<msgs, rpc, current, queue, res>>, NEW c \in Callers, NEW m \in Msgs
  PROVE  (Failed(c, m)' <=> Failed(c, m)) /\ (Pending(c, m)' <=> Pending(c, m))
PROOF
  BY Zenon DEF Failed, Pending

\* A call begins.
LEMMA CallHonest ==
  ASSUME CallTypes, NEW c \in Callers, Honest(c), Call(c), UNCHANGED written
  PROVE  Honest(c)'
PROOF
  <1>1. UNCHANGED <<todo, err>> /\ pc[c] = "idle" /\ pc'[c] = IF Payload[c] = <<>> THEN "returned" ELSE "lock"
    BY Zenon DEF Call, Goto, Return, CallTypes
  <1>2. CASE Payload[c] = <<>>
    <2>1. Wanted(c) = {}
      BY <1>2 DEF Wanted, In
    <2>2. pc'[c] = "returned"
      BY Zenon, <1>1, <1>2
    <2> QED BY Zenon, <2>1, <2>2 DEF Honest, Wanted
  <1>3. CASE Payload[c] # <<>>
    <2>1. pc'[c] = "lock"
      BY Zenon, <1>1, <1>3
    <2>2. \A m \in Wanted(c) : Kept(c, m)'
      BY Zenon, <1>1, <2>1 DEF Honest, Kept
    <2> QED BY Zenon, <2>1, <2>2 DEF Honest, Wanted
  <1> QED BY Zenon, <1>2, <1>3

\* An attempt begins, with every message of it to be sent.
LEMMA RLockHonest ==
  ASSUME CallTypes, NEW c \in Callers, Honest(c), RLock(c), UNCHANGED written
  PROVE  Honest(c)'
PROOF
  <1>1. UNCHANGED todo /\ pc[c] = "lock"
    BY Zenon DEF RLock, Goto, Return
  <1>2. \/ pc'[c] = "returned" /\ err'[c] = "closedpipe"
        \/ pc'[c] = "send" /\ sent'[c] = 0 /\ retry'[c] = <<>>
    BY DEF RLock, Goto, Return, CallTypes
  <1>3. ASSUME pc'[c] = "send", sent'[c] = 0, retry'[c] = <<>>
        PROVE  \A m \in Wanted(c) : Kept(c, m)'
    <2>1. Len(todo[c]) \in Nat /\ sent'[c] + 1 = 1
      BY <1>3 DEF CallTypes
    <2> QED BY Zenon, <1>1, <1>3, <2>1 DEF Honest, Kept, In
  <1> QED BY Zenon, <1>2, <1>3 DEF Honest, Wanted

\* An oversized message is skipped.
LEMMA SkipHonest ==
  ASSUME CallTypes, NEW c \in Callers, Honest(c), Skip(c),
         UNCHANGED <<written, msgs, rpc, current, queue, res>>
  PROVE  Honest(c)'
PROOF
  <1>1. /\ UNCHANGED <<pc, todo, retry, err>> /\ pc[c] = "send"
        /\ todo[c][sent[c] + 1] \in Oversized /\ sent'[c] = sent[c] + 1 /\ sent[c] \in Nat
        /\ Len(todo[c]) \in Nat
    BY DEF Skip, CallTypes
  <1>2. ASSUME NEW m \in Wanted(c)
        PROVE  Kept(c, m)'
    <2>1. m \in Msgs /\ m \notin Oversized /\ Kept(c, m)
      BY ZenonT(60), <1>1 DEF Wanted, Honest
    <2>2. ASSUME NEW j \in sent[c] + 1 .. Len(todo[c]), todo[c][j] = m
          PROVE  j \in sent'[c] + 1 .. Len(todo'[c])
      <3>1. j # sent[c] + 1
        BY Zenon, <1>1, <2>1, <2>2
      <3> QED BY Zenon, <1>1, <3>1, NextIndex
    <2> QED BY Zenon, StillThere, <1>1, <2>1, <2>2 DEF Kept
  <1> QED BY Zenon, <1>1, <1>2 DEF Honest, Wanted

\* Every message of the attempt is sent.
LEMMA RUnlockHonest ==
  ASSUME CallTypes, NEW c \in Callers, ~async, Honest(c), RUnlock(c),
         UNCHANGED <<written, msgs, rpc, current, queue, res>>
  PROVE  Honest(c)'
PROOF
  <1>1. /\ UNCHANGED <<todo, sent, retry, err>> /\ pc[c] = "send" /\ pc'[c] = "collect"
        /\ sent[c] = Len(todo[c]) /\ sent[c] \in Nat
    BY Zenon DEF RUnlock, Goto, Return, CallTypes
  <1>2. ASSUME NEW m \in Wanted(c)
        PROVE  Kept(c, m)'
    <2>1. m \in Msgs /\ Kept(c, m)
      BY ZenonT(60), <1>1 DEF Wanted, Honest
    <2>2. sent[c] + 1 .. Len(todo[c]) = {}
      BY <1>1
    <2> QED BY Zenon, StillThere, <1>1, <2>1, <2>2 DEF Kept
  <1> QED BY Zenon, <1>1, <1>2 DEF Honest, Wanted

\* What is collected is complete: what is not stored is to be retried.
LEMMA CollectedHonest ==
  ASSUME Counts, CallTypes, NEW c \in Callers, Accounted(c), Honest(c), Collected(c),
         UNCHANGED written
  PROVE  Honest(c)'
PROOF
  <1>1. /\ UNCHANGED <<retry, err>> /\ pc[c] = "collect" /\ todo'[c] = retry[c]
        /\ pc'[c] = IF retry[c] = <<>> THEN "returned" ELSE "backoff"
    BY Zenon DEF Collected, Goto, Return, CallTypes
  <1>2. res[c] = <<>> /\ Owed(c) = 0
    BY Zenon, CollectedAll
  <1>3. \A m \in Wanted(c) : [caller |-> c, msg |-> m] \in written \/ In(m, retry[c])
    <2> SUFFICES ASSUME NEW m \in Wanted(c)
                 PROVE  [caller |-> c, msg |-> m] \in written \/ In(m, retry[c])
      BY Zenon
    <2>1. m \in Msgs /\ Kept(c, m)
      BY ZenonT(60), <1>1 DEF Wanted, Honest
    <2>2. ~Failed(c, m)
      BY Zenon, <1>2, NothingIn DEF Failed
    <2>3. ~Pending(c, m)
      BY Zenon, <1>2, <2>1, OwedNone
    <2> QED BY Zenon, <1>1, <2>1, <2>2, <2>3 DEF Kept
  <1>4. CASE retry[c] = <<>>
    <2>1. pc'[c] = "returned" /\ \A m \in Msgs : ~In(m, retry[c])
      BY Zenon, <1>1, <1>4, NothingIn
    <2> QED BY ZenonT(60), <1>3, <2>1 DEF Honest, Wanted
  <1>5. CASE retry[c] # <<>>
    <2>1. pc'[c] = "backoff" /\ err[c] # "nil"
      BY Zenon, <1>1, <1>5 DEF Honest
    <2>2. \A m \in Wanted(c) : Kept(c, m)'
      BY Zenon, <1>1, <1>3, <2>1 DEF Kept
    <2> QED BY Zenon, <1>1, <2>1, <2>2 DEF Honest, Wanted
  <1> QED BY ZenonT(60), <1>4, <1>5

\* A backoff ends, or the context is done.
LEMMA BackoffHonest ==
  ASSUME CallTypes, NEW c \in Callers, Honest(c),
         BackoffElapsed(c) \/ BackoffClosed(c) \/ CtxDone(c),
         UNCHANGED written
  PROVE  Honest(c)'
PROOF
  <1>1. /\ UNCHANGED todo
        /\ \/ pc[c] = "backoff" /\ pc'[c] = "lock"
           \/ pc[c] = "backoff" /\ pc'[c] = "returned" /\ err'[c] = err[c]
           \/ pc'[c] = "returned" /\ err'[c] # "nil"
    <2>1. CASE BackoffElapsed(c)
      BY ZenonT(60), <2>1 DEF BackoffElapsed, Goto, Return, CallTypes
    <2>2. CASE BackoffClosed(c) \/ CtxDone(c)
      BY Zenon, <2>2 DEF BackoffClosed, CtxDone, Goto, Return, CallTypes
    <2> QED BY Zenon, <2>1, <2>2
  <1>2. pc[c] = "backoff" /\ pc'[c] = "lock" => \A m \in Wanted(c) : Kept(c, m)'
    BY Zenon, <1>1 DEF Honest, Kept
  <1> QED BY Zenon, <1>1, <1>2 DEF Honest, Wanted

\* A step of a call that moves no message and no response.
LEMMA QuietNil ==
  ASSUME IInv, AccountInv, NilInv, NEW c \in Callers,
         \/ Call(c) \/ RLock(c) \/ Skip(c) \/ RUnlock(c) \/ Collected(c)
         \/ BackoffElapsed(c) \/ BackoffClosed(c) \/ CtxDone(c)
  PROVE  NilInv'
PROOF
  <1>1. Counts /\ Accounted(c) /\ CallTypes
    BY Zenon DEF AccountInv, Counts, IInv, Types, NilInv, CallTypes
  <1>2. UNCHANGED <<async, written, msgs, rpc, current, queue, res>>
    BY Zenon DEF Call, RLock, Skip, RUnlock, Collected, BackoffElapsed, BackoffClosed, CtxDone,
                 runVars, sinkVars
  <1>3. \A d \in Callers, m \in Msgs : (Failed(d, m)' <=> Failed(d, m)) /\ (Pending(d, m)' <=> Pending(d, m))
    BY Zenon, <1>2, StillThere
  <1>4. ASSUME NEW d \in Callers, d # c
        PROVE  /\ pc'[d] = pc[d] /\ todo'[d] = todo[d] /\ sent'[d] = sent[d]
               /\ retry'[d] = retry[d] /\ err'[d] = err[d]
    <2>1. CASE Call(c) \/ Skip(c) \/ RUnlock(c) \/ Collected(c)
      BY ZenonT(60), <1>1, <1>4, <2>1 DEF Call, Skip, RUnlock, Collected, Goto, Return, CallTypes
    <2>2. CASE BackoffElapsed(c) \/ BackoffClosed(c) \/ CtxDone(c)
      BY ZenonT(60), <1>1, <1>4, <2>2
         DEF BackoffElapsed, BackoffClosed, CtxDone, Goto, Return, CallTypes
    <2>3. CASE RLock(c)
      BY Zenon, <1>1, <1>4, <2>3 DEF RLock, Goto, Return, CallTypes
    <2> QED BY Zenon, <2>1, <2>2, <2>3
  <1>5. err' \in [Callers -> {"nil", "failed", "closedpipe", "ctx"}]
    <2>1. CASE UNCHANGED err
      BY Zenon, <1>1, <2>1 DEF CallTypes
    <2>2. ASSUME NEW e \in {"nil", "closedpipe", "ctx"}, err' = [err EXCEPT ![c] = e]
          PROVE  err' \in [Callers -> {"nil", "failed", "closedpipe", "ctx"}]
      BY Zenon, <1>1, <2>2 DEF CallTypes
    <2> QED BY Zenon, <2>1, <2>2
               DEF Call, RLock, Skip, RUnlock, Collected, BackoffElapsed, BackoffClosed, CtxDone,
                   Goto, Return, CallTypes
  <1>6. ASSUME ~async, Honest(c)
        PROVE  Honest(c)'
    BY ZenonT(60), <1>1, <1>2, <1>6, CallHonest, RLockHonest, SkipHonest, RUnlockHonest,
       CollectedHonest, BackoffHonest
  <1> QED BY Zenon, <1>2, <1>3, <1>4, <1>5, <1>6, OthersHonest DEF NilInv

\* A call sends a message.
LEMMA SendNil ==
  ASSUME Counts, NilInv, NEW c \in Callers, SendMsg(c)
  PROVE  NilInv'
PROOF
  <1>1. UNCHANGED <<async, written, pc, todo, retry, err, res, rpc, current, queue>>
    BY Zenon DEF SendMsg, runVars, sinkVars
  <1> DEFINE h == todo[c][sent[c] + 1]
             y == [caller |-> c, msg |-> h]
  <1>2. pc[c] = "send" /\ sent[c] < Len(todo[c]) /\ msgs' = Append(msgs, y)
    BY Zenon DEF SendMsg, Sending
  <1>3. /\ todo[c] \in Seq(Msgs) /\ Len(todo[c]) \in Nat /\ sent[c] \in Nat
        /\ sent \in [Callers -> Nat] /\ msgs \in Seq(Item)
    BY DEF Counts
  <1>4. sent'[c] = sent[c] + 1 /\ \A d \in Callers : d # c => sent'[d] = sent[d]
    BY Zenon, <1>3 DEF SendMsg
  <1>5. y \in Item
    <2>1. h \in Msgs
      BY Zenon, <1>2, <1>3, Element
    <2> QED BY ZenonT(60), <2>1 DEF Item
  <1>6. In(y, msgs') /\ \A x : In(x, msgs) => In(x, msgs')
    BY Zenon, <1>2, <1>3, <1>5, InAppend
  <1>7. /\ \A d \in Callers, m \in Msgs : Failed(d, m) \/ Pending(d, m) => Failed(d, m)' \/ Pending(d, m)'
        /\ \A m \in Msgs : m = h => Pending(c, m)'
    BY Zenon, <1>1, <1>6 DEF Failed, Pending
  <1>8. ASSUME ~async, Honest(c)
        PROVE  Honest(c)'
    <2>1. ASSUME NEW m \in Wanted(c)
          PROVE  Kept(c, m)'
      <3>1. m \in Msgs /\ Kept(c, m)
        BY ZenonT(60), <1>2, <1>8 DEF Wanted, Honest
      <3>2. ASSUME NEW j \in sent[c] + 1 .. Len(todo[c]), todo[c][j] = m
            PROVE  j \in sent'[c] + 1 .. Len(todo'[c]) \/ m = h
        BY Zenon, <1>1, <1>3, <1>4, <3>2, NextIndex
      <3>3. CASE \E j \in sent[c] + 1 .. Len(todo[c]) : todo[c][j] = m
        BY ZenonT(60), <1>1, <1>2, <1>7, <3>1, <3>2, <3>3 DEF Kept
      <3>4. CASE [caller |-> c, msg |-> m] \in written \/ In(m, retry[c]) \/ Failed(c, m) \/ Pending(c, m)
        BY Zenon, <1>1, <1>2, <1>7, <3>1, <3>4 DEF Kept
      <3> QED BY Zenon, <1>2, <3>1, <3>3, <3>4 DEF Kept
    <2> QED BY Zenon, <1>1, <1>2, <1>8, <2>1 DEF Honest, Wanted
  <1>9. err' \in [Callers -> {"nil", "failed", "closedpipe", "ctx"}]
    BY ZenonT(60), <1>1 DEF NilInv
  <1> QED BY Zenon, <1>1, <1>4, <1>7, <1>8, <1>9, OthersHonest DEF NilInv

\* A call collects a response; one that says that its message failed makes the
\* call keep the message and an error.
LEMMA CollectNil ==
  ASSUME Counts, NilInv, NEW c \in Callers, Collect(c)
  PROVE  NilInv'
PROOF
  <1> DEFINE R == [msg : Msgs, nil : BOOLEAN]
             h == Head(res[c])
  <1>1. /\ UNCHANGED <<async, written, pc, todo, sent, msgs, rpc, current, queue>> /\ pc[c] = "collect"
        /\ res[c] # <<>> /\ res' = [res EXCEPT ![c] = Tail(@)]
        /\ \/ h.nil /\ UNCHANGED <<retry, err>>
           \/ ~h.nil /\ retry' = [retry EXCEPT ![c] = Append(@, h.msg)] /\ err' = [err EXCEPT ![c] = "failed"]
    BY Zenon DEF Collect, runVars, sinkVars
  <1>2. /\ res \in [Callers -> Seq(R)] /\ retry \in [Callers -> Seq(Msgs)]
        /\ err \in [Callers -> {"nil", "failed", "closedpipe", "ctx"}]
    BY Zenon DEF Counts, NilInv
  <1>3. h \in R
    <2> HIDE DEF R
    <2> QED BY <1>1, <1>2
  <1>4. h.msg \in Msgs
    BY Zenon, <1>3
  <1>5. \A m \in Msgs : h = [msg |-> m, nil |-> FALSE] => ~h.nil /\ h.msg = m
    OBVIOUS
  <1> HIDE DEF R
  <1>6. /\ \A x : In(x, res[c]) => x = h \/ In(x, res'[c])
        /\ \A d \in Callers : d # c => res'[d] = res[d]
    BY Zenon, <1>1, <1>2, InTail
  <1> HIDE DEF h
  <1>7. /\ err' \in [Callers -> {"nil", "failed", "closedpipe", "ctx"}]
        /\ \A d \in Callers : d # c => retry'[d] = retry[d] /\ err'[d] = err[d]
        /\ \/ h.nil /\ retry'[c] = retry[c] /\ err'[c] = err[c]
           \/ ~h.nil /\ retry'[c] = Append(retry[c], h.msg) /\ err'[c] = "failed"
    <2>1. CASE h.nil /\ UNCHANGED <<retry, err>>
      BY Zenon, <1>2, <2>1
    <2>2. CASE ~h.nil /\ retry' = [retry EXCEPT ![c] = Append(@, h.msg)] /\ err' = [err EXCEPT ![c] = "failed"]
      BY Zenon, <1>2, <2>2
    <2> QED BY Zenon, <1>1, <2>1, <2>2
  <1>8. /\ \A m \in Msgs : In(m, retry[c]) => In(m, retry'[c])
        /\ ~h.nil => In(h.msg, retry'[c])
    BY ZenonT(60), <1>2, <1>4, <1>7, InAppend
  <1>9. \A d \in Callers, m \in Msgs : Pending(d, m) => Pending(d, m)'
    BY Zenon, <1>1 DEF Pending
  <1>10. ASSUME ~async, Honest(c)
         PROVE  Honest(c)'
    <2>1. ASSUME NEW m \in Wanted(c)
          PROVE  Kept(c, m)'
      <3>1. m \in Msgs /\ Kept(c, m)
        BY Zenon, <1>1, <1>10 DEF Wanted, Honest
      <3>2. Failed(c, m) => Failed(c, m)' \/ In(m, retry'[c])
        BY Zenon, <1>5, <1>6, <1>8, <3>1 DEF Failed
      <3>3. [caller |-> c, msg |-> m] \in written \/ In(m, retry[c]) \/ Failed(c, m) \/ Pending(c, m)
        BY ZenonT(60), <1>1, <3>1 DEF Kept
      <3> QED BY ZenonT(60), <1>1, <1>8, <1>9, <3>1, <3>2, <3>3 DEF Kept
    <2>2. retry'[c] # <<>> => err'[c] # "nil"
      BY Zenon, <1>1, <1>7, <1>10 DEF Honest
    <2> QED BY Zenon, <1>1, <2>1, <2>2 DEF Honest, Wanted
  <1> QED BY ZenonT(60), <1>1, <1>6, <1>7, <1>9, <1>10, OthersHonest DEF NilInv, Failed

\* Initially every message has to be sent.
LEMMA InitNil == Init => NilInv
PROOF
  <1> SUFFICES ASSUME Init PROVE NilInv
    BY Zenon
  <1>1. err \in [Callers -> {"nil", "failed", "closedpipe", "ctx"}]
    BY ZenonT(60) DEF Init
  <1>2. ASSUME NEW c \in Callers
        PROVE  Honest(c)
    <2>1. pc[c] = "idle" /\ todo = Payload
      BY ZenonT(60) DEF Init
    <2>2. \A m \in Wanted(c) : Kept(c, m)
      BY Zenon, <2>1 DEF Wanted, Kept
    <2> QED BY Zenon, <2>1, <2>2 DEF Honest
  <1> QED BY Zenon, <1>1, <1>2 DEF NilInv

\* Every step keeps it.
LEMMA NextNil == IInv /\ AccountInv /\ NilInv /\ [Next]_vars => NilInv'
PROOF
  <1> SUFFICES ASSUME IInv, AccountInv, NilInv, [Next]_vars PROVE NilInv'
    BY Zenon
  <1>1. Counts
    BY Zenon DEF AccountInv
  <1>2. ASSUME UNCHANGED <<async, pc, todo, sent, retry, err, msgs, rpc, current, queue, res, written>>
        PROVE  NilInv'
    <2>1. \A c \in Callers, m \in Msgs : Failed(c, m) \/ Pending(c, m) => Failed(c, m)' \/ Pending(c, m)'
      BY Zenon, <1>2 DEF Failed, Pending
    <2> QED BY Zenon, <1>2, <2>1, NilKept
  <1>3. CASE UNCHANGED vars
    BY Zenon, <1>2, <1>3 DEF vars, callVars, runVars, sinkVars
  <1>4. ASSUME NEW k \in Closers, CloseCall(k) \/ CloseLocked(k) \/ CloseReturn(k)
        PROVE  NilInv'
    BY Zenon, <1>2, <1>4 DEF CloseCall, CloseLocked, CloseReturn, callVars, runVars, sinkVars
  <1> QED BY ZenonT(60), <1>1, <1>3, <1>4, QuietNil, SendNil, CollectNil, RunNil, SinkNil
             DEF Next, WriteMessages

\* A synchronous WriteMessages that returns nil has every message that is not
\* oversized in the partition.
THEOREM NilIsWritten == Spec => []NilMeansWritten
PROOF
  <1>1. NilInv => NilMeansWritten
    <2> SUFFICES ASSUME NilInv, ~async, NEW c \in Callers, pc[c] = "returned", err[c] = "nil",
                        NEW j \in 1 .. Len(Payload[c]), Payload[c][j] \notin Oversized
                 PROVE  [caller |-> c, msg |-> Payload[c][j]] \in written
      BY Zenon DEF NilMeansWritten
    <2>1. Payload[c][j] \in Msgs
      BY WriterAssumption
    <2>2. Payload[c][j] \in Wanted(c)
      BY Zenon, <2>1 DEF Wanted, In
    <2> QED BY Zenon, <2>2 DEF NilInv, Honest
  <1> QED BY <1>1, InitInv, NextInv, InitAccount, NextAccount, InitNil, NextNil, PTL DEF Spec
=============================================================================
