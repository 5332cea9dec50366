--------------------------- MODULE PartitionWriter ---------------------------
(***************************************************************************)
(* The goroutine that writes to one partition: the type writer of          *)
(* writer.go, its run loop and its write method.                           *)
(*                                                                         *)
(* Writer.run sends writerMessages on the channel msgs.  The goroutine     *)
(* gathers them in a batch, bounded in number by batchSize and in bytes by *)
(* maxMessageBytes, and flushes the batch when it is full, when a timer    *)
(* expires or when the channel is closed.  A message that would put the    *)
(* batch over the byte limit is parked in lastMsg until the batch is gone. *)
(* The outcome of a flush is sent to the response channel of every message *)
(* of the batch.                                                           *)
(*                                                                         *)
(* A writerMessage is an element of Msgs: one send by Writer.run, so it is *)
(* sent once.  A retry by WriteMessages is another writerMessage.          *)
(***************************************************************************)
EXTENDS Integers, Sequences, FiniteSets

CONSTANTS
  Msgs,             \* the writerMessages that may be sent
  NoMsg,            \* the zero writerMessage
  Size,             \* Size[m]: the bytes of m once serialized
  EmptyValued,      \* the messages with len(Value) = 0
  BatchSize,        \* WriterConfig.BatchSize
  BatchBytes,       \* WriterConfig.BatchBytes
  QueueCapacity,    \* WriterConfig.QueueCapacity
  Retries,          \* WriterConfig.Retries
  Replies           \* what a produce request may come back with

(***************************************************************************)
(* The answers to a produce request: success, DuplicateSequenceNumber, any *)
(* other Kafka error code, a failure of the network (a net.Error) and any  *)
(* other error (io.EOF, an invalid topic).                                 *)
(***************************************************************************)
AllReplies == {"ok", "duplicate", "kafka", "network", "other"}

ASSUME PartitionWriterAssumption ==
  /\ NoMsg \notin Msgs
  /\ Size \in [Msgs -> Nat \ {0}]
  /\ EmptyValued \subseteq Msgs
  /\ BatchSize \in Nat \ {0}
  /\ BatchBytes \in Nat \ {0}
  /\ QueueCapacity \in Nat \ {0}
  /\ Retries \in Nat
  /\ Replies \subseteq AllReplies

\* WriteMessages skips the messages larger than BatchBytes before they reach msgs.
ASSUME SizeAssumption == \A m \in Msgs : Size[m] <= BatchBytes

VARIABLES
  \* the channel w.msgs
  msgs, closed,
  \* the locals of run
  pc, batch, lastMsg, batchSizeBytes, batchTimerRunning, done,
  \* the runtime timer behind batchTimer: armed, or fired with its tick unread
  timer,
  \* the connection and the attempts counter of write
  conn, attempts,
  \* history: messages sent on msgs, messages answered, answered with nil, and
  \* the number of times the partition leader appended each message
  accepted, answered, acked, copies

chanVars  == <<msgs, closed, accepted>>
batchVars == <<batch, lastMsg, batchSizeBytes>>
timerVars == <<batchTimerRunning, timer>>
sendVars  == <<conn, attempts>>
resVars   == <<answered, acked>>

vars == <<chanVars, pc, batchVars, done, timerVars, sendVars, resVars, copies>>

PCs == {"top", "select", "flush", "write", "spin", "exited"}

TypeOK ==
  /\ msgs \in Seq(Msgs)
  /\ closed \in BOOLEAN
  /\ pc \in PCs
  /\ batch \in Seq(Msgs)
  /\ lastMsg \in Msgs \cup {NoMsg}
  /\ batchSizeBytes \in Nat
  /\ batchTimerRunning \in BOOLEAN
  /\ done \in BOOLEAN
  /\ timer \in {"idle", "armed", "fired"}
  /\ conn \in {"nil", "open", "skewed", "closed"}
  /\ attempts \in 0 .. Retries
  /\ accepted \in Seq(Msgs)
  /\ answered \in Seq(Msgs)
  /\ acked \in SUBSET Msgs
  /\ copies \in [Msgs -> Nat]

Init ==
  /\ msgs = <<>> /\ closed = FALSE
  /\ pc = "top" /\ batch = <<>> /\ lastMsg = NoMsg /\ batchSizeBytes = 0
  /\ batchTimerRunning = FALSE /\ done = FALSE /\ timer = "idle"
  /\ conn = "nil" /\ attempts = 0
  /\ accepted = <<>> /\ answered = <<>> /\ acked = {}
  /\ copies = [m \in Msgs |-> 0]

Elements(s) == {s[i] : i \in DOMAIN s}

-----------------------------------------------------------------------------
(* Writer.run: the sender, and the closer, of the channel. *)

\* writers[p].messages() <- wm, which waits while the channel is full.
Send(m) ==
  /\ ~closed
  /\ m \notin Elements(accepted)
  /\ Len(msgs) < QueueCapacity
  /\ msgs' = Append(msgs, m)
  /\ accepted' = Append(accepted, m)
  /\ UNCHANGED <<closed, pc, batchVars, done, timerVars, sendVars, resVars, copies>>

\* close(w.msgs): the first half of the method close, which then waits for run.
CloseMsgs ==
  /\ ~closed
  /\ closed' = TRUE
  /\ UNCHANGED <<msgs, accepted, pc, batchVars, done, timerVars, sendVars, resVars, copies>>

-----------------------------------------------------------------------------
(* The batch timer. *)

\* The runtime puts the tick in batchTimer.C.
TimerFires ==
  /\ timer = "armed"
  /\ timer' = "fired"
  /\ UNCHANGED <<chanVars, pc, batchVars, done, batchTimerRunning, sendVars, resVars, copies>>

\* Mutant of ResetTimer: the flag is set, the timer is not.
ResetTimerFlagOnly == batchTimerRunning' = TRUE /\ UNCHANGED timer

\* if !batchTimerRunning { batchTimer.Reset; batchTimerRunning = true }
ResetTimer ==
  /\ batchTimerRunning' = TRUE
  /\ timer' = IF batchTimerRunning THEN timer ELSE "armed"

\* Mutant of StopTimer: the flag is not cleared.
StopTimerKeepsFlag ==
  /\ batchTimerRunning => timer # "idle"
  /\ timer' = IF batchTimerRunning THEN "idle" ELSE timer
  /\ UNCHANGED batchTimerRunning

\* Stop reports false once the timer has fired; the tick is then read from the
\* channel, which blocks for ever when there is none: no step from "idle".
StopTimer ==
  /\ batchTimerRunning => timer # "idle"
  /\ batchTimerRunning' = FALSE
  /\ timer' = IF batchTimerRunning THEN "idle" ELSE timer

-----------------------------------------------------------------------------
(* The loop of run. *)

\* for !done: the head of the loop, which brings lastMsg back in the batch.
Top ==
  /\ pc = "top" /\ ~done
  /\ pc' = "select"
  /\ IF lastMsg # NoMsg /\ lastMsg \notin EmptyValued
       THEN /\ batch' = Append(batch, lastMsg)
            /\ batchSizeBytes' = batchSizeBytes + Size[lastMsg]
            /\ lastMsg' = NoMsg
            /\ ResetTimer
       ELSE UNCHANGED <<batchVars, timerVars>>
  /\ UNCHANGED <<chanVars, done, sendVars, resVars, copies>>

\* The loop ends; the deferred conn.Close and join.Done.
Exit ==
  /\ pc = "top" /\ done
  /\ pc' = "exited"
  /\ conn' = IF conn = "nil" THEN "nil" ELSE "closed"
  /\ UNCHANGED <<chanVars, batchVars, done, timerVars, attempts, resVars, copies>>

\* Mutant of OverLimit: the message itself is not counted.
OverLimitWithoutMsg(m) == batchSizeBytes > BatchBytes

OverLimit(m) == Size[m] + batchSizeBytes > BatchBytes

\* case wm := <-w.msgs, a message that does not fit: break leaves the select
\* without touching the timer.
ReceiveOverLimit ==
  /\ pc = "select" /\ msgs # <<>>
  /\ OverLimit(Head(msgs))
  /\ lastMsg' = Head(msgs)
  /\ msgs' = Tail(msgs)
  /\ pc' = "flush"
  /\ UNCHANGED <<closed, accepted, batch, batchSizeBytes, done, timerVars, sendVars, resVars, copies>>

\* case wm := <-w.msgs, a message that fits.
Receive ==
  /\ pc = "select" /\ msgs # <<>>
  /\ ~OverLimit(Head(msgs))
  /\ batch' = Append(batch, Head(msgs))
  /\ batchSizeBytes' = batchSizeBytes + Size[Head(msgs)]
  /\ msgs' = Tail(msgs)
  /\ pc' = IF Len(batch') >= BatchSize \/ batchSizeBytes' >= BatchBytes
             THEN "flush" ELSE "top"
  /\ ResetTimer
  /\ UNCHANGED <<closed, accepted, lastMsg, done, sendVars, resVars, copies>>

\* Mutant of ReceiveClosed: the batch is not flushed.
ReceiveClosedNoFlush ==
  /\ pc = "select" /\ closed /\ msgs = <<>>
  /\ done' = TRUE
  /\ pc' = "top"
  /\ ResetTimer
  /\ UNCHANGED <<chanVars, batchVars, sendVars, resVars, copies>>

\* case _, !ok := <-w.msgs: closed and drained.
ReceiveClosed ==
  /\ pc = "select" /\ closed /\ msgs = <<>>
  /\ done' = TRUE
  /\ pc' = "flush"
  /\ ResetTimer
  /\ UNCHANGED <<chanVars, batchVars, sendVars, resVars, copies>>

\* case <-batchTimer.C
ReceiveTick ==
  /\ pc = "select" /\ timer = "fired"
  /\ timer' = "idle"
  /\ batchTimerRunning' = FALSE
  /\ pc' = "flush"
  /\ UNCHANGED <<chanVars, batchVars, done, sendVars, resVars, copies>>

\* if mustFlush: the timer is stopped; an empty batch is not written.
Flush ==
  /\ pc = "flush"
  /\ StopTimer
  /\ pc' = IF batch = <<>> THEN "top" ELSE "write"
  /\ attempts' = 0
  /\ UNCHANGED <<chanVars, batchVars, done, conn, resVars, copies>>

-----------------------------------------------------------------------------
(* The method write, and what run does with its result. *)

\* Kafka's Error has Timeout and Temporary methods, so it is a net.Error too.
needsReconnect(reply) == reply \in {"duplicate", "kafka", "network"}

\* Mutant of shouldRetry: one attempt too many.
shouldRetryOnceMore(reply) == attempts <= Retries /\ needsReconnect(reply)

\* Whatever is temporary among these errors also needs a new connection.
shouldRetry(reply) == attempts < Retries /\ needsReconnect(reply)

\* Mutant of Respond: run does not empty the batch.
RespondKeepsBatch(nil) ==
  /\ answered' = answered \o batch
  /\ acked' = IF nil THEN acked \cup Elements(batch) ELSE acked
  /\ pc' = "top"
  /\ UNCHANGED <<batch, batchSizeBytes>>

\* The responses are sent, with a nil error or not, and run empties the batch.
Respond(nil) ==
  /\ answered' = answered \o batch
  /\ acked' = IF nil THEN acked \cup Elements(batch) ELSE acked
  /\ batch' = <<>>
  /\ batchSizeBytes' = 0
  /\ pc' = "top"

\* The partition leader appends the batch, or does not.
Append_(appended) ==
  copies' = IF appended
              THEN [m \in Msgs |-> IF m \in Elements(batch) THEN copies[m] + 1 ELSE copies[m]]
              ELSE copies

\* conn == nil and DialLeader succeeds.
DialOK ==
  /\ pc = "write" /\ conn = "nil"
  /\ conn' = "open"
  /\ UNCHANGED <<chanVars, pc, batchVars, done, timerVars, attempts, resVars, copies>>

\* conn == nil and DialLeader fails: try again, or fail the batch.
DialError(reply) ==
  /\ pc = "write" /\ conn = "nil"
  /\ IF shouldRetry(reply)
       THEN attempts' = attempts + 1 /\ UNCHANGED <<pc, batch, batchSizeBytes, resVars>>
       ELSE Respond(FALSE) /\ UNCHANGED attempts
  /\ UNCHANGED <<chanVars, lastMsg, done, timerVars, conn, copies>>

\* WriteCompressedMessages returns nil: the leader has appended the batch.
ProduceOK ==
  /\ pc = "write" /\ conn = "open"
  /\ Append_(TRUE)
  /\ Respond(TRUE)
  /\ UNCHANGED <<chanVars, lastMsg, done, timerVars, sendVars>>

\* DuplicateSequenceNumber: the leader has the batch already.  The error is
\* dropped and the connection kept, with the throttle time of the response
\* still unread: the stream is four bytes off.
ProduceDuplicate ==
  /\ pc = "write" /\ conn = "open"
  /\ \A m \in Elements(batch) : copies[m] > 0
  /\ Respond(TRUE)
  /\ conn' = "skewed"
  /\ UNCHANGED <<chanVars, lastMsg, done, timerVars, attempts, copies>>

\* Any other error: reconnect and try again, or fail the batch and drop conn.
\* The leader may have appended the batch all the same.  On a stream that is
\* off no error code can be read, but the network may still fail.
ProduceError(reply, appended) ==
  /\ pc = "write"
  /\ conn = "open" \/ (conn = "skewed" /\ reply # "kafka")
  /\ Append_(appended)
  /\ IF shouldRetry(reply)
       THEN /\ attempts' = attempts + 1
            /\ conn' = IF needsReconnect(reply) THEN "nil" ELSE conn
            /\ UNCHANGED <<pc, batch, batchSizeBytes, resVars>>
       ELSE Respond(FALSE) /\ conn' = "nil" /\ UNCHANGED attempts
  /\ UNCHANGED <<chanVars, lastMsg, done, timerVars>>

\* A produce request on a stream that is off: its response never shows the id
\* that waitResponse looks for, and waitResponse spins for ever.  The leader
\* appends the batch.
ProduceSkewed ==
  /\ pc = "write" /\ conn = "skewed"
  /\ Append_(TRUE)
  /\ pc' = "spin"
  /\ UNCHANGED <<chanVars, batchVars, done, timerVars, sendVars, resVars>>

Produce ==
  \/ "ok" \in Replies /\ ProduceOK
  \/ "duplicate" \in Replies /\ ProduceDuplicate
  \/ \E reply \in Replies \ {"ok", "duplicate"}, appended \in BOOLEAN : ProduceError(reply, appended)
  \/ ProduceSkewed

Dial == DialOK \/ \E reply \in Replies \ {"ok", "duplicate"} : DialError(reply)

-----------------------------------------------------------------------------
Loop ==
  \/ Top \/ Exit
  \/ ReceiveOverLimit \/ Receive \/ ReceiveClosed \/ ReceiveTick
  \/ Flush \/ Dial \/ Produce

Next ==
  \/ \E m \in Msgs : Send(m)
  \/ CloseMsgs
  \/ TimerFires
  \/ Loop

Spec == Init /\ [][Next]_vars

\* The goroutine runs, and an armed timer fires.
FairSpec == Spec /\ WF_vars(Loop) /\ WF_vars(TimerFires)

-----------------------------------------------------------------------------
(* Properties. *)

Parked == IF lastMsg = NoMsg THEN <<>> ELSE <<lastMsg>>

(***************************************************************************)
(* No message is lost, answered twice or overtaken: what was sent on the   *)
(* channel is, in this order, what was answered, the batch, the message    *)
(* parked in lastMsg and what is still in the channel ("If a lstMsg exists *)
(* we need to add it to the batch so we don't lose it", writer.go).        *)
(***************************************************************************)
InOrder == accepted = answered \o batch \o Parked \o msgs

(***************************************************************************)
(* A batch never exceeds batchSize messages, although lastMsg joins it     *)
(* without the check that every other message passes, nor the byte limit.  *)
(***************************************************************************)
BatchWithinLimits ==
  /\ Len(batch) <= BatchSize
  /\ batchSizeBytes <= BatchBytes

(***************************************************************************)
(* The flag batchTimerRunning tells whether the timer is armed or has an   *)
(* unread tick, so the read after a failed Stop never blocks, and run      *)
(* never waits on the channel with messages in hand and no timer set.      *)
(***************************************************************************)
TimerCoversBatch ==
  /\ batchTimerRunning <=> timer # "idle"
  /\ pc = "select" /\ batch # <<>> => batchTimerRunning

(***************************************************************************)
(* A message answered with nil is in the partition, and the low-level      *)
(* retries write no message more than Retries + 1 times.                   *)
(***************************************************************************)
AckedIsWritten ==
  \A m \in Msgs : /\ m \in acked => copies[m] >= 1
                  /\ copies[m] <= Retries + 1

(***************************************************************************)
(* When run is over every message ever sent has its answer, and the        *)
(* connection is not left open: Writer.Close flushes.                      *)
(***************************************************************************)
ExitDrained ==
  pc = "exited" => answered = accepted /\ conn \notin {"open", "skewed"}

(***************************************************************************)
(* What the rest of the Writer relies on: the goroutine is a FIFO sink of  *)
(* bounded depth that answers its messages in groups, and drains on close. *)
(***************************************************************************)
Sink == INSTANCE PartitionSink WITH
          queue <- batch \o Parked \o msgs,
          finished <- pc = "exited",
          Depth <- QueueCapacity + BatchSize
ImplementsSink == Sink!Spec

(***************************************************************************)
(* And it is fair, as Writer takes it to be: it keeps answering, with no   *)
(* need for another message to push out a batch that is not full, since    *)
(* the batch timer does, and once closed it finishes.  The one way out is  *)
(* a request on a connection that DuplicateSequenceNumber has left with    *)
(* unread bytes.                                                           *)
(***************************************************************************)
ImplementsFairness == <>(pc = "spin") \/ Sink!Fairness
=============================================================================
