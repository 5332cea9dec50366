------------------------------- MODULE Writer -------------------------------
(***************************************************************************)
(* The Writer of writer.go: the calls to WriteMessages and to Close, the   *)
(* goroutine run that discovers the partitions and spreads the messages    *)
(* over them, and one partition writer per open partition.                 *)
(*                                                                         *)
(* A partition writer is the abstract PartitionSink, which the module      *)
(* PartitionWriter implements: a queue whose first messages are answered,  *)
(* with nil or with an error, and that is drained before it is closed.     *)
(* The messages of a batch are answered here one by one, as the code       *)
(* sends them on the response channels, and calls may collect in between.  *)
(*                                                                         *)
(* Every caller makes one call to WriteMessages.  Its response channel     *)
(* res belongs to that call and serves all its attempts.                   *)
(***************************************************************************)
EXTENDS Integers, Sequences, FiniteSets

CONSTANTS
  Callers,        \* the goroutines that call WriteMessages, once each
  Closers,        \* the goroutines that call Close, once each
  Msgs,           \* messages
  Payload,        \* Payload[c]: the arguments of the call of c
  Oversized,      \* the messages larger than BatchBytes
  Cancellable,    \* the callers whose context may be cancelled
  AsyncModes,     \* the values that WriterConfig.Async may have
  MaxAttempts,    \* WriterConfig.MaxAttempts
  QueueCapacity,  \* WriterConfig.QueueCapacity, for w.msgs
  Depth,          \* the messages a partition writer can hold
  Topologies,     \* the partition lists that brokers may report
  MaxRebalances   \* bound: how often the rebalance ticker is heard

Partitions == UNION Topologies

\* One instance of a partition writer for each time the partition appears.
Instances == Partitions \X (0 .. MaxRebalances)

NoInst == <<>>
NoItem == <<>>

\* A writerMessage: the message and, in place of its res, the call it serves.
Item == [caller : Callers, msg : Msgs]

ASSUME WriterAssumption ==
  /\ Payload \in [Callers -> Seq(Msgs)]
  /\ Oversized \subseteq Msgs
  /\ Cancellable \subseteq Callers
  /\ AsyncModes \subseteq BOOLEAN
  /\ MaxAttempts \in Nat \ {0}
  /\ QueueCapacity \in Nat \ {0}
  /\ Depth \in Nat \ {0}
  /\ IsFiniteSet(Partitions)
  /\ MaxRebalances \in Nat

VARIABLES
  \* WriterConfig.Async
  async,
  \* the Writer: the channel msgs, closed, the readers of its RWMutex, join
  msgs, closed, readers, join,
  \* the locals of the calls to WriteMessages
  pc, attempt, todo, sent, skipped, got, retry, err, res,
  \* the calls to Close
  closer,
  \* the locals of run
  rpc, current, writers, rebalances,
  \* the partition writers
  queue, phase,
  \* history: the messages a partition leader has acknowledged
  written

callVars == <<pc, attempt, todo, sent, skipped, got, retry, err>>
runVars  == <<rpc, current, writers, rebalances>>
sinkVars == <<queue, phase, written>>

vars == <<async, msgs, closed, readers, join, callVars, res, closer, runVars, sinkVars>>

\* Where a call to WriteMessages is.
CallPCs == {"idle", "lock", "send", "collect", "backoff", "returned"}

\* NewWriter: w.join.Add(1); go w.run()
Init ==
  /\ async \in AsyncModes
  /\ msgs = <<>> /\ closed = FALSE /\ readers = {} /\ join = 1
  /\ pc = [c \in Callers |-> "idle"]
  /\ attempt = [c \in Callers |-> 0]
  /\ todo = Payload
  /\ sent = [c \in Callers |-> 0]
  /\ skipped = [c \in Callers |-> 0]
  /\ got = [c \in Callers |-> 0]
  /\ retry = [c \in Callers |-> <<>>]
  /\ err = [c \in Callers |-> "nil"]
  /\ res = [c \in Callers |-> <<>>]
  /\ closer = [k \in Closers |-> "idle"]
  /\ rpc = "rebalance" /\ current = NoItem /\ rebalances = 0
  /\ writers = [p \in Partitions |-> NoInst]
  /\ queue = [i \in Instances |-> <<>>]
  /\ phase = [i \in Instances |-> "unborn"]
  /\ written = {}

-----------------------------------------------------------------------------
(* WriteMessages. *)

Goto(c, label) == pc' = [pc EXCEPT ![c] = label]

Return(c, e) ==
  /\ Goto(c, "returned")
  /\ err' = [err EXCEPT ![c] = e]

\* The call begins; with no messages it returns at once.
Call(c) ==
  /\ pc[c] = "idle"
  /\ Goto(c, IF Payload[c] = <<>> THEN "returned" ELSE "lock")
  /\ UNCHANGED <<async, msgs, closed, readers, join, attempt, todo, sent, skipped, got, retry, err,
                 res, closer, runVars, sinkVars>>

\* w.mutex.RLock waits for a Close that waits for the lock.  Then the attempt
\* starts, unless the writer is closed.
RLock(c) ==
  /\ pc[c] = "lock"
  /\ \A k \in Closers : closer[k] # "lock"
  /\ IF closed
       THEN Return(c, "closedpipe") /\ UNCHANGED <<readers, sent, skipped, got, retry>>
       ELSE /\ Goto(c, "send")
            /\ readers' = readers \cup {c}
            /\ sent' = [sent EXCEPT ![c] = 0]
            /\ skipped' = [skipped EXCEPT ![c] = 0]
            /\ got' = [got EXCEPT ![c] = 0]
            /\ retry' = [retry EXCEPT ![c] = <<>>]
            /\ UNCHANGED err
  /\ UNCHANGED <<async, msgs, closed, join, attempt, todo, res, closer, runVars, sinkVars>>

\* for _, msg := range msgs: sent is the number of messages the loop is done
\* with.  One that is too large is skipped.
Skip(c) ==
  /\ pc[c] = "send"
  /\ sent[c] < Len(todo[c])
  /\ todo[c][sent[c] + 1] \in Oversized
  /\ sent' = [sent EXCEPT ![c] = @ + 1]
  /\ skipped' = [skipped EXCEPT ![c] = @ + 1]
  /\ UNCHANGED <<async, msgs, closed, readers, join, pc, attempt, todo, got, retry, err,
                 res, closer, runVars, sinkVars>>

\* The loop is at the select, with a message to send.
Sending(c) ==
  /\ pc[c] = "send"
  /\ sent[c] < Len(todo[c])
  /\ todo[c][sent[c] + 1] \notin Oversized

\* w.msgs <- writerMessage{msg, res}: waits while the channel is full.
SendMsg(c) ==
  /\ Sending(c)
  /\ Len(msgs) < QueueCapacity
  /\ msgs' = Append(msgs, [caller |-> c, msg |-> todo[c][sent[c] + 1]])
  /\ sent' = [sent EXCEPT ![c] = @ + 1]
  /\ UNCHANGED <<async, closed, readers, join, pc, attempt, todo, skipped, got, retry, err,
                 res, closer, runVars, sinkVars>>

\* The loop is over: RUnlock, and an asynchronous call returns.
RUnlock(c) ==
  /\ pc[c] = "send"
  /\ sent[c] = Len(todo[c])
  /\ readers' = readers \ {c}
  /\ Goto(c, IF async THEN "returned" ELSE "collect")
  /\ UNCHANGED <<async, msgs, closed, join, attempt, todo, sent, skipped, got, retry, err,
                 res, closer, runVars, sinkVars>>

\* for i := 0; i != len(msgs)-skippedMsgs; i++: the responses to wait for.
Awaited(c) == Len(todo[c]) - skipped[c]

\* e := <-res: a writerError carries the message to retry.
Collect(c) ==
  /\ pc[c] = "collect"
  /\ got[c] # Awaited(c)
  /\ res[c] # <<>>
  /\ res' = [res EXCEPT ![c] = Tail(@)]
  /\ got' = [got EXCEPT ![c] = @ + 1]
  /\ IF Head(res[c]).nil
       THEN UNCHANGED <<retry, err>>
       ELSE /\ retry' = [retry EXCEPT ![c] = Append(@, Head(res[c]).msg)]
            /\ err' = [err EXCEPT ![c] = "failed"]
  /\ UNCHANGED <<async, msgs, closed, readers, join, pc, attempt, todo, sent, skipped,
                 closer, runVars, sinkVars>>

\* if msgs = retry; len(msgs) == 0 { break }
Collected(c) ==
  /\ pc[c] = "collect"
  /\ got[c] = Awaited(c)
  /\ todo' = [todo EXCEPT ![c] = retry[c]]
  /\ Goto(c, IF retry[c] = <<>> THEN "returned" ELSE "backoff")
  /\ UNCHANGED <<async, msgs, closed, readers, join, attempt, sent, skipped, got, retry, err,
                 res, closer, runVars, sinkVars>>

\* The loop over the attempts has another one.
MoreAttempts(c) == attempt[c] < MaxAttempts - 1

\* Mutant of BackoffElapsed: the error is cleared after the last attempt too.
BackoffElapsedClearsError(c) ==
  /\ pc[c] = "backoff"
  /\ err' = [err EXCEPT ![c] = "nil"]
  /\ IF MoreAttempts(c)
       THEN attempt' = [attempt EXCEPT ![c] = @ + 1] /\ Goto(c, "lock")
       ELSE Goto(c, "returned") /\ UNCHANGED attempt
  /\ UNCHANGED <<async, msgs, closed, readers, join, todo, sent, skipped, got, retry,
                 res, closer, runVars, sinkVars>>

\* case <-timer.C: the error is cleared only if there is another attempt.
BackoffElapsed(c) ==
  /\ pc[c] = "backoff"
  /\ IF MoreAttempts(c)
       THEN /\ err' = [err EXCEPT ![c] = "nil"]
            /\ attempt' = [attempt EXCEPT ![c] = @ + 1]
            /\ Goto(c, "lock")
       ELSE Goto(c, "returned") /\ UNCHANGED <<err, attempt>>
  /\ UNCHANGED <<async, msgs, closed, readers, join, todo, sent, skipped, got, retry,
                 res, closer, runVars, sinkVars>>

\* case <-w.done
BackoffClosed(c) ==
  /\ pc[c] = "backoff" /\ closed
  /\ Return(c, "closedpipe")
  /\ UNCHANGED <<async, msgs, closed, readers, join, attempt, todo, sent, skipped, got, retry,
                 res, closer, runVars, sinkVars>>

\* case <-ctx.Done() of the three selects.
CtxDone(c) ==
  /\ c \in Cancellable
  /\ \/ Sending(c)
     \/ pc[c] = "collect" /\ got[c] # Awaited(c)
     \/ pc[c] = "backoff"
  /\ readers' = readers \ {c}
  /\ Return(c, "ctx")
  /\ UNCHANGED <<async, msgs, closed, join, attempt, todo, sent, skipped, got, retry,
                 res, closer, runVars, sinkVars>>

WriteMessages(c) ==
  \/ RLock(c) \/ Skip(c) \/ SendMsg(c) \/ RUnlock(c) \/ Collect(c) \/ Collected(c)
  \/ BackoffElapsed(c) \/ BackoffClosed(c)

-----------------------------------------------------------------------------
(* Close. *)

\* w.mutex.Lock is requested: from here on no new reader gets the mutex.
CloseCall(k) ==
  /\ closer[k] = "idle"
  /\ closer' = [closer EXCEPT ![k] = "lock"]
  /\ UNCHANGED <<async, msgs, closed, readers, join, callVars, res, runVars, sinkVars>>

\* Mutant of CloseLocked: the calls that hold the mutex are not waited for.
CloseUnlocked(k) ==
  /\ closer[k] = "lock"
  /\ closed' = TRUE
  /\ closer' = [closer EXCEPT ![k] = "wait"]
  /\ UNCHANGED <<async, msgs, readers, join, callVars, res, runVars, sinkVars>>

\* The critical section: close(w.msgs) and close(w.done), the first time.
CloseLocked(k) ==
  /\ closer[k] = "lock" /\ readers = {}
  /\ closed' = TRUE
  /\ closer' = [closer EXCEPT ![k] = "wait"]
  /\ UNCHANGED <<async, msgs, readers, join, callVars, res, runVars, sinkVars>>

\* w.join.Wait()
CloseReturn(k) ==
  /\ closer[k] = "wait" /\ join = 0
  /\ closer' = [closer EXCEPT ![k] = "returned"]
  /\ UNCHANGED <<async, msgs, closed, readers, join, callVars, res, runVars, sinkVars>>

-----------------------------------------------------------------------------
(* run. *)

Open == {p \in Partitions : writers[p] # NoInst}

\* The partitions of the first list that are not in the second.
diffp(new, old) == new \ old

\* The brokers report the list of partitions.  The writers of the partitions
\* that are gone are closed, each by a goroutine that join counts, and writers
\* are opened for the new ones.
Rebalance(topology) ==
  LET gone == {writers[p] : p \in diffp(Open, topology)}
      born == {<<p, rebalances>> : p \in diffp(topology, Open)}
  IN  /\ rpc = "rebalance"
      /\ writers' = [p \in Partitions |->
                       IF p \in diffp(topology, Open) THEN <<p, rebalances>>
                       ELSE IF p \in diffp(Open, topology) THEN NoInst
                       ELSE writers[p]]
      /\ phase' = [i \in Instances |-> IF i \in gone THEN "closing"
                                       ELSE IF i \in born THEN "open" ELSE phase[i]]
      /\ join' = join + Cardinality(gone)
      /\ rpc' = "select"
      /\ UNCHANGED <<async, msgs, closed, readers, callVars, res, closer,
                     current, rebalances, queue, written>>

\* No broker answers: the partitions stay as they are.
RebalanceError ==
  /\ rpc = "rebalance"
  /\ rpc' = "select"
  /\ UNCHANGED <<async, msgs, closed, readers, join, callVars, res, closer,
                 current, writers, rebalances, sinkVars>>

\* case <-ticker.C
Tick ==
  /\ rpc = "select" /\ rebalances < MaxRebalances
  /\ rpc' = "rebalance"
  /\ rebalances' = rebalances + 1
  /\ UNCHANGED <<async, msgs, closed, readers, join, callVars, res, closer, current, writers, sinkVars>>

\* wm.res <- a response; the channel was made with room for Len(Payload[c]), and
\* a response that finds it full would block the sender.
Respond(item, nil) ==
  /\ Len(res[item.caller]) < Len(Payload[item.caller])
  /\ res' = [res EXCEPT ![item.caller] = Append(@, [msg |-> item.msg, nil |-> nil])]

\* case wm := <-w.msgs, with partitions to choose from: run holds the message.
ReceiveMsg ==
  /\ rpc = "select" /\ msgs # <<>> /\ Open # {}
  /\ current' = Head(msgs)
  /\ msgs' = Tail(msgs)
  /\ rpc' = "forward"
  /\ UNCHANGED <<async, closed, readers, join, callVars, res, closer, writers, rebalances, sinkVars>>

\* Mutant of ReceiveNoPartition: the message is dropped without a response.
ReceiveNoPartitionSilently ==
  /\ rpc = "select" /\ msgs # <<>> /\ Open = {}
  /\ msgs' = Tail(msgs)
  /\ UNCHANGED <<async, closed, readers, join, callVars, res, closer, runVars, sinkVars>>

\* case wm := <-w.msgs, with no partition: the message fails.
ReceiveNoPartition ==
  /\ rpc = "select" /\ msgs # <<>> /\ Open = {}
  /\ msgs' = Tail(msgs)
  /\ Respond(Head(msgs), FALSE)
  /\ UNCHANGED <<async, closed, readers, join, callVars, closer, runVars, sinkVars>>

\* writers[p].messages() <- wm, for the p that the Balancer picks; waits while
\* the partition writer is full.
Forward(p) ==
  /\ rpc = "forward" /\ p \in Open
  /\ Len(queue[writers[p]]) < Depth
  /\ queue' = [queue EXCEPT ![writers[p]] = Append(@, current)]
  /\ current' = NoItem
  /\ rpc' = "select"
  /\ UNCHANGED <<async, msgs, closed, readers, join, callVars, res, closer, writers, rebalances, phase, written>>

\* Mutant of ReceiveClosed: join does not count the partition writers.
ReceiveClosedNoJoin ==
  /\ rpc = "select" /\ closed /\ msgs = <<>>
  /\ rpc' = "exited"
  /\ phase' = [i \in Instances |-> IF \E p \in Open : i = writers[p] THEN "closing" ELSE phase[i]]
  /\ join' = join - 1
  /\ writers' = [p \in Partitions |-> NoInst]
  /\ UNCHANGED <<async, msgs, closed, readers, callVars, res, closer, current, rebalances, queue, written>>

\* case _, !ok := <-w.msgs: every partition writer is closed and run returns.
ReceiveClosed ==
  /\ rpc = "select" /\ closed /\ msgs = <<>>
  /\ rpc' = "exited"
  /\ phase' = [i \in Instances |-> IF \E p \in Open : i = writers[p] THEN "closing" ELSE phase[i]]
  /\ join' = (join + Cardinality(Open)) - 1
  /\ writers' = [p \in Partitions |-> NoInst]
  /\ UNCHANGED <<async, msgs, closed, readers, callVars, res, closer, current, rebalances, queue, written>>

Run ==
  \/ \E t \in Topologies : Rebalance(t)
  \/ RebalanceError
  \/ ReceiveMsg \/ ReceiveNoPartition
  \/ \E p \in Partitions : Forward(p)
  \/ ReceiveClosed

-----------------------------------------------------------------------------
(* The partition writers, as PartitionSink describes them. *)

\* The first message is answered, with nil once the leader has stored it.
Answer(i, nil) ==
  /\ phase[i] \in {"open", "closing"}
  /\ queue[i] # <<>>
  /\ Respond(Head(queue[i]), nil)
  /\ queue' = [queue EXCEPT ![i] = Tail(@)]
  /\ written' = IF nil THEN written \cup {Head(queue[i])} ELSE written
  /\ UNCHANGED <<async, msgs, closed, readers, join, callVars, closer, runVars, phase>>

AnswerSome(i) == \E nil \in BOOLEAN : Answer(i, nil)

\* Mutant of Finish: join.Done is not called.
FinishNotDone(i) ==
  /\ phase[i] = "closing" /\ queue[i] = <<>>
  /\ phase' = [phase EXCEPT ![i] = "finished"]
  /\ UNCHANGED <<async, msgs, closed, readers, join, callVars, res, closer, runVars, queue, written>>

\* writer.close has drained the queue; the goroutine of w.close calls join.Done.
Finish(i) ==
  /\ phase[i] = "closing" /\ queue[i] = <<>>
  /\ phase' = [phase EXCEPT ![i] = "finished"]
  /\ join' = join - 1
  /\ UNCHANGED <<async, msgs, closed, readers, callVars, res, closer, runVars, queue, written>>

-----------------------------------------------------------------------------
Next ==
  \/ \E c \in Callers : Call(c) \/ WriteMessages(c) \/ CtxDone(c)
  \/ \E k \in Closers : CloseCall(k) \/ CloseLocked(k) \/ CloseReturn(k)
  \/ Run \/ Tick
  \/ \E i \in Instances : AnswerSome(i) \/ Finish(i)

Spec == Init /\ [][Next]_vars

\* Every goroutine keeps running: the calls in progress, run, the partition
\* writers (which implement the fair sink) and the goroutines that close them.
\* Nothing forces a context to be cancelled, a Close or a tick.
FairSpec ==
  /\ Spec
  /\ \A c \in Callers : WF_vars(WriteMessages(c))
  /\ \A k \in Closers : WF_vars(CloseLocked(k) \/ CloseReturn(k))
  /\ WF_vars(Run)
  /\ \A i \in Instances : WF_vars(AnswerSome(i)) /\ WF_vars(Finish(i))

-----------------------------------------------------------------------------
(* Properties. *)

\* The places of the writerMessages of c in a sequence, and <<i, j>> in the queues.
PlacesFor(c, items) == {j \in 1 .. Len(items) : items[j].caller = c}

QueuedFor(c) == {at \in Instances \X (1 .. Depth) : at[2] \in PlacesFor(c, queue[at[1]])}

\* The writerMessages of c that still have to be answered.
Owed(c) ==
  Cardinality(PlacesFor(c, msgs)) + (IF rpc = "forward" /\ current.caller = c THEN 1 ELSE 0)
    + Cardinality(QueuedFor(c))

(***************************************************************************)
(* Every writerMessage is in one place, and is answered once: while a call *)
(* is in an attempt, what it has sent is what it has collected, plus what  *)
(* waits in its res channel, plus what is in the hands of run and of the   *)
(* partition writers.  So no response of an earlier attempt is counted in  *)
(* a later one, and a response always finds room in res, also when the     *)
(* call has returned because its context was cancelled: a partition writer *)
(* never blocks on a caller.                                               *)
(***************************************************************************)
ResponsesAccounted ==
  \A c \in Callers :
    /\ Len(res[c]) + Owed(c) <= Len(Payload[c])
    /\ pc[c] \in {"send", "collect"} => sent[c] - skipped[c] = got[c] + Len(res[c]) + Owed(c)
    /\ pc[c] \in {"lock", "backoff"} => res[c] = <<>> /\ Owed(c) = 0

(***************************************************************************)
(* A synchronous WriteMessages that returns nil has every message that is  *)
(* not oversized in the partition, whatever failed, was retried or was     *)
(* rebalanced on the way ("blocks until all messages have been written").  *)
(***************************************************************************)
NilMeansWritten ==
  ~async =>
    \A c \in Callers :
      pc[c] = "returned" /\ err[c] = "nil" =>
        \A j \in 1 .. Len(Payload[c]) :
          Payload[c][j] \notin Oversized => [caller |-> c, msg |-> Payload[c][j]] \in written

(***************************************************************************)
(* No goroutine sends on a closed channel, which would panic: while a call *)
(* sends on w.msgs it holds the mutex that Close needs, and run only       *)
(* forwards to partition writers that no goroutine has been told to close. *)
(***************************************************************************)
NoSendOnClosedChannel ==
  /\ \A c \in Callers : pc[c] = "send" => ~closed
  /\ \A p \in Partitions : writers[p] # NoInst => phase[writers[p]] = "open"

(***************************************************************************)
(* Once Close has returned nothing is buffered any more: every message     *)
(* that a call managed to send has been answered, by run or by a partition *)
(* writer, also by one that a rebalance was closing in the background.     *)
(***************************************************************************)
CloseFlushes ==
  \A k \in Closers :
    closer[k] = "returned" =>
      /\ msgs = <<>> /\ current = NoItem
      /\ \A i \in Instances : queue[i] = <<>> /\ phase[i] \in {"unborn", "finished"}

(***************************************************************************)
(* Every call to WriteMessages and to Close returns, whatever the retries  *)
(* and the rebalances in progress: callers that hold the mutex and wait    *)
(* for room, a Close that waits for the mutex, run that waits for a        *)
(* partition writer and partition writers that answer never wait in a      *)
(* circle.  It rests on the fairness of PartitionSink: that a partition    *)
(* writer answers and ends.  One that spins on a connection that a         *)
(* response has left misaligned does not, nor does one answer an           *)
(* empty-valued message that it had parked (see PartitionWriter).          *)
(***************************************************************************)
CallsReturn ==
  /\ \A c \in Callers : []<>(pc[c] \in {"idle", "returned"})
  /\ \A k \in Closers : []<>(closer[k] \in {"idle", "returned"})
=============================================================================
